---------------------------- MODULE AtomicEdits ----------------------------
(***************************************************************************)
(* What a request that edits data resources promises its client, without   *)
(* locks, copies of the tree or calls into sysrepo: all of its edits are   *)
(* applied in one step, to the tree that is there at this step, or nothing *)
(* is, and the status tells which.  Other clients write in between.        *)
(*                                                                         *)
(* A YANG patch has a weaker promise, that of the code: edits that are not *)
(* well-formed are left out, and then the status is that of such an edit.  *)
(***************************************************************************)
EXTENDS Naturals, Sequences

CONSTANTS
  Datastores, Trees, Requests, NoRequest,
  Candidate,     \* the datastore that is not locked
  Absent,        \* what a tree has for a node that does not exist
  Bare,          \* the content of a node that comes without one
  Result(_, _),  \* Result(t, e): what edit e makes of tree t
  Error(_, _)    \* Error(t, e): "Ok", or why it cannot

VARIABLES
  data,      \* data[d]: the tree in datastore d
  req,       \* the request being handled
  response   \* the status the client gets, 0: none yet

vars == <<data, req, response>>

\* The NETCONF operation that edit i of request r asks for.
Operation(r, i) ==
  CASE r.method = "DELETE" -> "delete"
    [] r.method = "POST" -> "create"
    [] r.method = "PUT" -> IF r.root THEN "replaceConfig" ELSE "replace"
    [] r.method = "PATCH" -> "merge"
    [] OTHER -> CASE r.edits[i].operation = "insert" -> "create"
                  [] r.edits[i].operation = "move" -> "merge"
                  [] OTHER -> r.edits[i].operation

Asked(r, i) ==
  [r.edits[i] EXCEPT !.operation = Operation(r, i)]

\* A DELETE has no payload that could be wrong.
WellMade(r, i) == r.method = "DELETE" \/ r.edits[i].ok

AllWellMade(r) == \A i \in 1 .. Len(r.edits) : WellMade(r, i)

\* The well-made edits of r, in their order, make u of tree t.
Makes(r, t, u) ==
  \E trail \in [0 .. Len(r.edits) -> Trees] :
    /\ trail[0] = t /\ trail[Len(r.edits)] = u
    /\ \A i \in 1 .. Len(r.edits) :
         IF WellMade(r, i)
         THEN /\ Error(trail[i - 1], Asked(r, i)) = "Ok"
              /\ trail[i] = Result(trail[i - 1], Asked(r, i))
         ELSE trail[i] = trail[i - 1]

\* Whether the target of r exists in tree t.
Exists(r, t) == t[r.edits[1].node] # Absent

\* The statuses r may be answered with when it is applied to tree t.  In the
\* candidate datastore the check may be out of date.
Answers(r, t) ==
  CASE r.method = "YANG-PATCH" -> IF AllWellMade(r) THEN {200} ELSE {400, 500}
    [] r.method = "POST" -> {201}
    [] r.method = "PUT" /\ r.root -> {201}
    [] r.method = "PUT" /\ ~r.root ->
         {201, 204} \ IF r.ds = Candidate THEN {}
                      ELSE IF Exists(r, t) THEN {201} ELSE {204}
    [] OTHER -> {204}

\* A plain PATCH needs its target, which the candidate may lose.
Applicable(r, t) ==
  /\ r.method # "YANG-PATCH" => AllWellMade(r)
  /\ r.method = "PATCH" /\ ~r.root /\ r.ds # Candidate => Exists(r, t)

\* The statuses of a plain request that fails on tree t.
Failures(r, t) ==
  {400, 403, 500}
    \cup (IF r.method = "POST" /\ Exists(r, t) THEN {409} ELSE {})
    \cup (IF r.method = "DELETE" /\ ~Exists(r, t) THEN {404} ELSE {})

-----------------------------------------------------------------------------

Init ==
  /\ data \in [Datastores -> Trees]
  /\ req = NoRequest
  /\ response = 0

\* A request arrives and is handled, or is refused at once.
Accept ==
  /\ req = NoRequest
  /\ req' \in Requests /\ response' = 0
  /\ UNCHANGED data

Refuse ==
  /\ req = NoRequest
  /\ response' \in {400, 405}
  /\ UNCHANGED <<data, req>>

\* A YANG patch is answered because of an edit that is not well-made.
Complain ==
  /\ req # NoRequest /\ req.method = "YANG-PATCH" /\ ~AllWellMade(req)
  /\ response = 0 /\ response' \in {400, 500}
  /\ UNCHANGED <<data, req>>

\* All edits take effect.
Commit ==
  /\ req # NoRequest /\ req' = NoRequest
  /\ Applicable(req, data[req.ds])
  /\ response' \in Answers(req, data[req.ds])
  /\ response # 0 => response' = response
  /\ data' = [data EXCEPT ![req.ds] = data'[req.ds]]
  /\ Makes(req, data[req.ds], data'[req.ds])

\* None does: the client left, or gets an error.
Fail ==
  /\ req # NoRequest /\ req' = NoRequest
  /\ \/ response' = response
     \/ /\ response = 0
        /\ response' \in IF req.method = "YANG-PATCH" THEN {400, 403, 409, 500}
                         ELSE Failures(req, data[req.ds])
  /\ UNCHANGED data

Other ==
  /\ UNCHANGED <<req, response>>
  /\ \E d \in Datastores, t \in Trees : data' = [data EXCEPT ![d] = t]

Next == Accept \/ Refuse \/ Complain \/ Fail \/ Commit \/ Other

Spec == Init /\ [][Next]_vars
=============================================================================
