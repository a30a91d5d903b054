-------------------------------- MODULE Nacm --------------------------------
(***************************************************************************)
(* Anonymous access (src/src/auth/Nacm.cpp): when the NACM rules allow it, *)
(* and what the rules, evaluated by sysrepo, then permit.                  *)
(*                                                                         *)
(* A configuration says whether there is any NACM data (present), whether  *)
(* NACM is enabled, whether the user of the anonymous access is a member   *)
(* of AnonymousGroup, what is permitted when no rule applies, and has the  *)
(* rule-lists in order; a rule-list has groups and rules.  A rule has an   *)
(* action, a module ("*": all), the operations ("*": all) and, of one of   *)
(* the types RFC 8341 knows, the RPC, notification or data node it is      *)
(* restricted to (type "all": to nothing).                                 *)
(***************************************************************************)
EXTENDS Naturals, Sequences

CONSTANTS
  AnonymousGroup, \* ANONYMOUS_USER_GROUP
  NacmConfigs     \* configurations an administrator may commit

Operations == {"create", "read", "update", "delete", "exec"}

RuleTypes == {"all", "rpc", "notification", "data"}

ASSUME NacmAssumption ==
  NacmConfigs \subseteq
    [present : BOOLEAN, enabled : BOOLEAN, member : BOOLEAN,
     defaults : SUBSET Operations,
     lists : Seq([groups : SUBSET STRING,
                  rules : Seq([action : {"permit", "deny"}, module : STRING,
                               ops : SUBSET (Operations \cup {"*"}),
                               type : RuleTypes, name : STRING])])]

isWhitelistedRPC(rule) ==
  /\ rule.module = "ietf-subscribed-notifications"
  /\ rule.type = "rpc" /\ rule.name = "establish-subscription"

\* Mutant of isRuleForAnonymousAccess: any RPC may be executed.
isRuleForAnonymousAccessAnyRPC(rule) ==
  rule.ops = {"read"} \/ rule.ops = {"exec"}

isRuleForAnonymousAccess(rule) ==
  \/ rule.ops = {"read"}
  \/ rule.ops = {"exec"} /\ isWhitelistedRPC(rule)

\* It does not look at what the rule is restricted to.
isRuleWildcardDeny(rule) ==
  rule.action = "deny" /\ rule.module = "*" /\ rule.ops = {"*"}

\* It looks neither at enable-nacm nor at the groups and their members.
validAnonymousNacmRules(config) ==
  /\ config.present
  /\ config.lists # <<>>
  /\ LET first == config.lists[1]
         n == Len(first.rules)
     IN  /\ AnonymousGroup \in first.groups
         /\ n > 0
         /\ \A i \in 1..(n - 1) : isRuleForAnonymousAccess(first.rules[i])
         /\ isRuleWildcardDeny(first.rules[n])

-----------------------------------------------------------------------------
(* External: sysrepo's evaluation of the rules (RFC 8341).  The first rule *)
(* that matches, in the rule-lists of the user's groups, decides.          *)

NoRPC == ""

\* An access has an operation, a module, the name of the RPC it executes, and
\* path: the data node it is about and those above it.
Matches(rule, access) ==
  /\ rule.module \in {"*", access.module}
  /\ rule.ops = {"*"} \/ access.op \in rule.ops
  /\ \/ rule.type = "all"
     \/ rule.type = "rpc" /\ access.rpc # NoRPC /\ rule.name \in {"*", access.rpc}
     \/ rule.type = "data" /\ rule.name \in access.path

\* The groups of the user of the anonymous access.
AnonymousGroups(config) == IF config.member THEN {AnonymousGroup} ELSE {}

\* Rule i of rule-list l is for one of the groups and matches the access.
Applies(config, groups, access, l, i) ==
  /\ config.lists[l].groups \cap (groups \cup {"*"}) # {}
  /\ Matches(config.lists[l].rules[i], access)

Permitted(config, groups, access) ==
  \/ ~config.enabled
  \/ /\ \A l \in DOMAIN config.lists : \A i \in DOMAIN config.lists[l].rules :
          ~Applies(config, groups, access, l, i)
     /\ access.op \in config.defaults
  \/ \E l \in DOMAIN config.lists : \E i \in DOMAIN config.lists[l].rules :
       /\ Applies(config, groups, access, l, i)
       /\ config.lists[l].rules[i].action = "permit"
       /\ \A j \in 1..(i - 1) : ~Applies(config, groups, access, l, j)
       /\ \A k \in 1..(l - 1) : \A j \in DOMAIN config.lists[k].rules :
            ~Applies(config, groups, access, k, j)

-----------------------------------------------------------------------------

\* The last rule of the first rule-list is restricted to nothing: with what
\* isRuleWildcardDeny() looks at, it denies everything.
LastRuleIsUnrestricted(config) ==
  LET rules == config.lists[1].rules IN rules[Len(rules)].type = "all"

\* What the rules need, besides what validAnonymousNacmRules() looks at, to
\* have the effect it is after.
RulesAreInForce(config) ==
  config.enabled /\ config.member /\ LastRuleIsUnrestricted(config)
=============================================================================
