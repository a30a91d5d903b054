----------------------------- MODULE MCRequests -----------------------------
(***************************************************************************)
(* Requests for TLC: a small schema with every kind of node, and families  *)
(* of requests that differ in one respect each.                            *)
(***************************************************************************)
EXTENDS Requests, FiniteSets

Example == "example"
Notif == "ietf-subscribed-notifications"

SchemaNode(parent, name, module, kind, keys) ==
  [parent |-> parent, name |-> name, module |-> module, kind |-> kind,
   keys |-> keys, input |-> name # "ping", ordered |-> name \in {"seq", "tags"}]

MCSchema == [
  tlc   |-> SchemaNode(NoNode, "tlc", Example, "Container", 0),
  top   |-> SchemaNode(NoNode, "top", Example, "Leaf", 0),
  leaf  |-> SchemaNode("tlc", "leaf", Example, "Leaf", 0),
  \* another module adds a leaf of the same name
  leaf2 |-> SchemaNode("tlc", "leaf", "augment", "Leaf", 0),
  list  |-> SchemaNode("tlc", "list", Example, "List", 2),
  seq   |-> SchemaNode("tlc", "seq", Example, "List", 1),
  tags  |-> SchemaNode("tlc", "tags", Example, "Leaflist", 0),
  bare  |-> SchemaNode("tlc", "bare", Example, "List", 0),
  act   |-> SchemaNode("list", "act", Example, "Action", 0),
  item  |-> SchemaNode("list", "item", Example, "Leaf", 0),
  note  |-> SchemaNode(NoNode, "note", Example, "Notification", 0),
  ping  |-> SchemaNode(NoNode, "ping", Example, "RPC", 0),
  run   |-> SchemaNode(NoNode, "run", Example, "RPC", 0),
  establish |-> SchemaNode(NoNode, "establish-subscription", Notif, "RPC", 0),
  modify |-> SchemaNode(NoNode, "modify-subscription", Notif, "RPC", 0)]

MCSchemaNodes == DOMAIN MCSchema

MCInternalRPCs == {"establish", "modify"}

E(name) == Element(Example, name, <<>>)
K(name, keys) == Element("", name, keys)
k == <<"k">>

\* Paths below data, ds/<datastore> or operations.
ResourcePaths == {
  <<>>, <<Empty>>, <<E("tlc")>>, <<Word("tlc")>>, <<E("tlc"), Empty>>,
  <<E("tlc"), Word("leaf")>>, <<E("tlc"), Element("augment", "leaf", <<>>)>>,
  <<E("tlc"), K("leaf", <<k>>)>>, <<E("tlc"), Word("list")>>,
  <<E("tlc"), K("list", <<k, k>>)>>,
  <<E("tlc"), K("list", <<k, <<"a", "b">> >>), Word("item")>>,
  <<E("tlc"), K("list", <<k, <<"mixed quotes">> >>)>>,
  <<E("tlc"), K("tags", <<k>>)>>, <<E("tlc"), K("bare", <<>>)>>,
  <<E("tlc"), K("list", <<k, k>>), Word("act")>>,
  <<E("tlc"), K("list", <<k, k>>), Word("act"), Word("x")>>,
  <<E("note")>>, <<E("ping")>>, <<E("run")>>, <<E("unknown")>>,
  <<Element(Notif, "establish-subscription", <<>>)>>,
  <<Element(Notif, "modify-subscription", <<>>)>>}

Ds(name) == <<Word("ds"), Element("ietf-datastores", name, <<>>)>>

Paths ==
  {<<Word(w)>> \o p : w \in {"data", "operations"}, p \in ResourcePaths}
  \cup {Ds(d) \o p : d \in {"running", "operational", "nonsense"},
                     p \in {<<>>, <<E("tlc")>>,
                            <<E("tlc"), K("list", <<k, k>>), Word("act")>>}}
  \cup {<<Empty>>, <<Word("yang-library-version")>>, <<Word("ds")>>,
        <<Word("ds"), Element("other", "running", <<>>)>>,
        <<Word("unknown")>>}

-----------------------------------------------------------------------------

Mime(type, sub, q) == [type |-> type, sub |-> sub, q |-> q]
One(sub) == Header("list", <<Mime("application", sub, 10)>>, TRUE)

Request1(route, method, path) ==
  [route |-> route, method |-> method, raw_path |-> path,
   path |-> Decoded(path), query |-> <<>>, accept |-> NoHeader,
   contentType |-> One("yang-data+json"), forward |-> <<>>, auth |-> "basic"]

Tlc == <<Word("data"), E("tlc")>>
Seq1 == <<Word("data"), E("tlc"), K("seq", <<k>>)>>

AnyMethod == Methods \cup {"TRACE"}

MethodsAndPaths ==
  {Request1("restconf", m, p) : m \in AnyMethod, p \in Paths}

\* Query parameters.
Q(name, value, num, segs, expr) ==
  [name |-> name, value |-> value, num |-> num, segs |-> segs, expr |-> expr]
V(name, value) == Q(name, value, 0, <<>>, <<>>)
PointTo(segs) == Q("point", "", 0, segs, <<>>)
SeqK == <<E("tlc"), K("seq", <<k>>)>>

QueryStrings ==
  {<<Q("depth", "number", n, <<>>, <<>>)>> : n \in {0, 1, 65535, 65536}}
  \cup {<<V("depth", "unbounded")>>, <<V("content", "config")>>,
        <<V("with-defaults", "trim")>>, <<V("filter", "x")>>,
        <<V("content", "all"), V("content", "all")>>, <<V("bogus", "1")>>}
  \cup {<<V("insert", w)>> : w \in {"first", "before", "sideways"}}
  \cup {<<V("insert", w), PointTo(p)>> :
          w \in {"after", "last"},
          p \in {SeqK, <<>>, <<E("tlc")>>, <<Word("tlc")>>}}
  \cup {<<PointTo(p), V("insert", "before")>> : p \in {SeqK, <<Empty>>}}

Queries ==
  {[Request1("restconf", m, p) EXCEPT !.query = q] :
     m \in {"GET", "POST", "PUT", "PATCH"}, q \in QueryStrings,
     p \in {Tlc, Seq1}}

-----------------------------------------------------------------------------
(* Expressions of fields *)

Slash(ids) ==
  IF Len(ids) = 1 THEN [kind |-> "Slash", lhs |-> ids[1], rhs |-> <<>>]
  ELSE [kind |-> "Slash", lhs |-> ids[1],
        rhs |-> <<[kind |-> "Slash", lhs |-> ids[2], rhs |-> <<>>]>>]
Paren(slash, inner) == [kind |-> "Paren", lhs |-> slash, rhs |-> inner]
Semi(paren, next) == [kind |-> "Semi", lhs |-> paren, rhs |-> next]

Slashes == {Slash(<<Word("leaf")>>), Slash(<<Word("list"), Word("item")>>),
            Slash(<<Word("list")>>), Slash(<<Word("item")>>),
            Slash(<<Word("act")>>)}
Semi0 == {Semi(Paren(s, <<>>), <<>>) : s \in Slashes}
Semi1 == {Semi(Paren(s, <<>>), <<t>>) : s \in Slashes, t \in Semi0}
Inner == {Semi(Paren(Slash(<<Word("list")>>), <<t>>), n) :
            t \in Semi0 \cup Semi1, n \in {<<>>} \cup {<<x>> : x \in Semi0}}
After == {Semi(Paren(Slash(<<Word("leaf")>>), <<>>), <<t>>) : t \in Inner}
MCFieldNodes ==
  LET semis == Semi0 \cup Semi1 \cup Inner \cup After
  IN  semis \cup {s.lhs : s \in semis} \cup Slashes
      \cup {s.rhs[1] : s \in {x \in Slashes : x.rhs # <<>>}}

MCFieldHeight[n \in MCFieldNodes] ==
  LET left == IF n.kind = "Slash" THEN 0 ELSE 1 + MCFieldHeight[n.lhs]
      right == IF n.rhs = <<>> THEN 0 ELSE 1 + MCFieldHeight[n.rhs[1]]
  IN  IF left > right THEN left ELSE right

FieldRequests ==
  {[Request1("restconf", "GET", Tlc) EXCEPT
      !.query = <<Q("fields", "", 0, <<>>, e)>>] :
     e \in Semi0 \cup Semi1 \cup Inner \cup After}

-----------------------------------------------------------------------------
(* Headers *)

Mimes == {Mime("application", "yang-data+json", 10),
          Mime("application", "yang-data+xml", 10),
          Mime("application", "yang-data+xml", 5),
          Mime("application", "yang-patch+json", 0),
          Mime("application", "*", 10), Mime("*", "*", 5),
          Mime("text", "html", 10)}

Accepts ==
  {NoHeader, Header("invalid", <<>>, FALSE)}
  \cup {Header("list", <<a>>, TRUE) : a \in Mimes}
  \cup {Header("list", <<a, b>>, FALSE) : a, b \in Mimes}
  \cup {Header("list", <<a, b, Mime("application", "yang-data+json", 5)>>,
          FALSE) : a, b \in Mimes}

ContentTypes ==
  {NoHeader, Header("invalid", <<>>, FALSE), One("yang-patch+xml"),
   Header("list", <<Mime("application", "yang-patch+xml", 10)>>, FALSE),
   Header("list", <<Mime("application", "*", 10)>>, FALSE)}

HeaderRequests ==
  {[Request1("restconf", "GET", Tlc) EXCEPT !.accept = a] : a \in Accepts}
  \cup {[Request1("restconf", m, p) EXCEPT !.contentType = c] :
          m \in {"PATCH", "POST"}, c \in ContentTypes,
          p \in {Tlc, <<Word("operations"), E("ping")>>,
                 <<Word("operations"), E("run")>>}}
  \cup {[Request1("restconf", "GET", Tlc) EXCEPT !.forward = f] :
          f \in {<<[proto |-> "https", host |-> "h"]>>,
                 <<[proto |-> "", host |-> "h"]>>,
                 <<[proto |-> "https", host |-> "h"],
                   [proto |-> "http", host |-> "proxy"]>>}}

-----------------------------------------------------------------------------
(* Other routes, and authentication *)

MCLibrary == {[name |-> Example, rev |-> "2020", sub |-> FALSE],
              [name |-> "plain", rev |-> "", sub |-> FALSE],
              [name |-> "sub", rev |-> "2020", sub |-> TRUE]}

OtherRequests ==
  {Request1("yang", m, p) :
     m \in {"GET", "OPTIONS", "POST"},
     p \in {<<Word(Example), Word("2020")>>, <<Word(Example)>>,
            <<Word("plain")>>, <<Word("sub"), Word("2020")>>, <<Empty>>}}
  \cup {[Request1("streams", m, p) EXCEPT !.query = q] :
     m \in {"GET", "OPTIONS", "POST"},
     p \in {<<Word("NETCONF"), Word("XML")>>, <<Word("foo"), Word("JSON")>>,
            <<Word("NETCONF"), Word("CSV")>>, <<Word("NETCONF")>>,
            <<Word("subscribed"), Word("uuid")>>,
            <<Word("subscribed"), Word("x")>>},
     q \in {<<>>, <<V("start-time", "time")>>, <<V("content", "all")>>}}
  \cup {Request1(r, "GET", <<>>) : r \in {"telemetry", "host-meta", "other"}}

AuthRequests ==
  {[Request1(x[1], "GET", x[2]) EXCEPT !.auth = a] :
     x \in {<<"restconf", Tlc>>, <<"yang", <<Word("plain")>> >>,
            <<"streams", <<Word("NETCONF"), Word("JSON")>> >>},
     a \in {"none", "malformed", "basic"}}

-----------------------------------------------------------------------------
(* NACM *)

RuleFor(action, module, ops, type, name) ==
  [action |-> action, module |-> module, ops |-> ops, type |-> type,
   name |-> name]
Rule(action, module, ops) == RuleFor(action, module, ops, "all", "")
PermitAll == Rule("permit", "*", {"*"})
DenyAll == Rule("deny", "*", {"*"})

Establish == RuleFor("permit", Notif, {"exec"}, "rpc", "establish-subscription")

Rules == {Rule("permit", Example, {"read"}), Establish,
          RuleFor("permit", Example, {"exec"}, "rpc", "ping"),
          RuleFor("permit", Example, {"update"}, "data", "tlc"),
          Rule("permit", "*", {"exec"}),
          Rule("permit", "*", {"read", "create", "update", "delete"}),
          PermitAll}

\* isRuleWildcardDeny() takes them for rules that deny everything.
RestrictedDenies ==
  {RuleFor("deny", "*", {"*"}, x[1], x[2]) :
     x \in {<<"rpc", "ping">>, <<"data", "tlc">>, <<"notification", "note">>}}

List(groups, rules) == [groups |-> groups, rules |-> rules]
Config(lists) ==
  [present |-> TRUE, enabled |-> TRUE, member |-> TRUE,
   defaults |-> {"read", "exec"}, lists |-> lists]

MCAnonymousGroup == "yangnobody"

GoodConfig ==
  Config(<<List({MCAnonymousGroup},
             <<Establish, DenyAll>>),
           List({"*"}, <<PermitAll>>)>>)
NoConfig == [Config(<<>>) EXCEPT !.present = FALSE, !.member = FALSE]

MCNacmConfigs ==
  {NoConfig, GoodConfig, [GoodConfig EXCEPT !.enabled = FALSE],
   [GoodConfig EXCEPT !.member = FALSE], Config(<<>>),
   [Config(<<List({MCAnonymousGroup}, <<DenyAll>>)>>) EXCEPT
      !.defaults = Operations],
   Config(<<List({MCAnonymousGroup}, <<>>)>>),
   Config(<<List({MCAnonymousGroup}, <<DenyAll>>)>>)}
  \cup {Config(<<List({MCAnonymousGroup}, <<r, s>>), List({"*"}, <<PermitAll>>)>>) :
          r \in Rules,
          s \in Rules \cup RestrictedDenies \cup {DenyAll}}
  \cup {Config(<<List({"admins"}, <<r, DenyAll>>)>>) : r \in Rules}
  \cup {Config(<<List({MCAnonymousGroup}, <<r, s, DenyAll>>)>>) :
          r, s \in Rules}

NacmRequests ==
  {[Request1("restconf", x[1], x[2]) EXCEPT !.auth = "none"] :
     x \in {<<"DELETE", Tlc>>, <<"PUT", Tlc>>,
            <<"POST", <<Word("operations"), E("ping")>> >>,
            <<"POST", <<Word("data"), E("tlc"), K("list", <<k, k>>),
                        Word("act")>> >>,
            <<"POST", <<Word("operations"),
                        Element(Notif, "establish-subscription", <<>>)>> >>,
            <<"POST", <<Word("operations"),
                        Element(Notif, "modify-subscription", <<>>)>> >>}}

-----------------------------------------------------------------------------

Scenario(r, config1, coming1) ==
  [req |-> r, config |-> config1, coming |-> coming1]

\* Anonymous requests under every configuration.
AnonymousScenarios ==
  {Scenario(r, c, <<>>) : r \in NacmRequests, c \in MCNacmConfigs}

MCScenarios ==
  {Scenario(r, NoConfig, <<>>) :
     r \in MethodsAndPaths \cup Queries \cup FieldRequests
           \cup HeaderRequests \cup OtherRequests}
  \cup {Scenario(r, c, d) : r \in AuthRequests, c \in {NoConfig, GoodConfig},
          d \in {<<GoodConfig>>, <<NoConfig, GoodConfig>>}}
  \cup AnonymousScenarios
  \cup {Scenario(r, GoodConfig, <<c>>) : r \in NacmRequests,
          c \in MCNacmConfigs}

\* Requests whose authentication fails.
DelayScenarios ==
  {Scenario([Request1("yang", "GET", <<Word("plain")>>) EXCEPT !.auth = "basic"],
            NoConfig, <<>>)}
=============================================================================
