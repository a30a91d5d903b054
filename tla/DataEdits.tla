----------------------------- MODULE DataEdits -----------------------------
(***************************************************************************)
(* Requests that edit data resources (src/src/restconf/Server.cpp): PUT,   *)
(* PATCH (plain and YANG patch), POST and DELETE, against a datastore that *)
(* other sysrepo clients lock and change at the same time.                 *)
(*                                                                         *)
(* The event loop handles one request at a time.  A handler is cut into    *)
(* steps at its calls into sysrepo; pc says where it is.  A data tree maps *)
(* every node the schema allows to its content, or to Absent.              *)
(***************************************************************************)
EXTENDS Naturals, Sequences

CONSTANTS
  Nodes,        \* data nodes that may exist
  Descendants,  \* Descendants[n]: the nodes below n
  Values,       \* contents of a node
  Absent,       \* not a content: the node does not exist
  Bare,         \* the content of a node created only as an ancestor
  Lockable,     \* writable datastores a client may lock (running, startup)
  Candidate,    \* the candidate datastore
  ReadOnly,     \* operational and factory-default
  NoRequest,
  MaxEdits      \* bound: edits in a YANG patch

ASSUME TreeAssumption ==
  /\ Descendants \in [Nodes -> SUBSET Nodes]
  /\ \A n \in Nodes : n \notin Descendants[n]
  /\ \A n \in Nodes : \A m \in Descendants[n] :
       Descendants[m] \subseteq Descendants[n]
  /\ Absent # Bare /\ Values \cap {Absent, Bare} = {}

ASSUME DatastoreAssumption ==
  /\ Candidate \notin Lockable \cup ReadOnly
  /\ Lockable \cap ReadOnly = {}

VARIABLES
  data,         \* data[d]: the tree in datastore d
  lock,         \* lock[d]: who holds sysrepo's lock of datastore d
  pc,           \* where the handler is
  req,          \* the request
  nodeExisted,  \* as in processPutOrPlainPatch()
  merged,       \* the edits passed to editBatch(), in order
  done,         \* how many edits the loop of the handler or of sysrepo did
  work,         \* the tree sysrepo computes while it applies the edits
  response      \* the status the client gets, 0: none yet

vars == <<data, lock, pc, req, nodeExisted, merged, done, work,
          response>>

Datastores == Lockable \cup {Candidate} \cup ReadOnly

Ancestors(n) == {m \in Nodes : n \in Descendants[m]}

-----------------------------------------------------------------------------
(* sysrepo, as the code uses it *)

Empty == [n \in Nodes |-> Absent]

\* n gets content v, its missing ancestors appear, the nodes in gone vanish.
Put(t, n, v, gone) ==
  [m \in Nodes |-> IF m = n THEN v
                   ELSE IF m \in gone THEN Absent
                   ELSE IF m \in Ancestors(n) /\ t[m] = Absent THEN Bare
                   ELSE t[m]]

Prune(t, n) ==
  [m \in Nodes |-> IF m \in {n} \cup Descendants[n] THEN Absent ELSE t[m]]

\* The tree after edit e, the NETCONF operations of RFC 6241.
Result(t, e) ==
  CASE e.operation = "create" -> Put(t, e.node, e.value, {})
    [] e.operation = "merge" ->
         Put(t, e.node, IF e.value = Bare /\ t[e.node] # Absent
                        THEN t[e.node] ELSE e.value, {})
    [] e.operation = "replace" -> Put(t, e.node, e.value, Descendants[e.node])
    [] e.operation = "replaceConfig" -> Put(Empty, e.node, e.value, {})
    [] OTHER -> Prune(t, e.node)

Error(t, e) ==
  CASE e.operation = "create" /\ t[e.node] # Absent -> "ItemAlreadyExists"
    [] e.operation = "delete" /\ t[e.node] = Absent -> "NotFound"
    [] OTHER -> "Ok"

-----------------------------------------------------------------------------
(* Requests.  An edit is ok if its payload parses, matches the URI and has *)
(* no forbidden meta attributes; if not, its operation does not matter.    *)
(* The client may leave out the value of a move; the value of a delete or  *)
(* remove does not matter.                                                 *)

Operations == {"create", "delete", "insert", "merge", "move", "replace",
               "remove"}

Edits ==
  {e \in [operation : Operations, node : Nodes, value : Values \cup {Bare},
          ok : BOOLEAN] :
     /\ ~e.ok => e.operation = "merge"
     /\ e.value = Bare => e.operation = "move"}

\* root: the request is for the whole datastore.
PlainRequests ==
  [method : {"PUT", "PATCH", "POST", "DELETE"}, ds : Datastores,
   contentType : BOOLEAN, root : BOOLEAN,
   edits : {<<e>> : e \in {x \in Edits : x.operation = "merge"}}]

YangPatches ==
  [method : {"YANG-PATCH"}, ds : Datastores, contentType : BOOLEAN,
   root : {FALSE}, edits : UNION {[1..n -> Edits] : n \in 0..MaxEdits}]

\* The payload of a request for the whole datastore is a top-level node; the
\* datastore itself cannot be deleted.  Nobody looks at the edits of a patch
\* that is refused on arrival.
Requests ==
  {r \in PlainRequests :
     r.root => r.method # "DELETE" /\ Ancestors(r.edits[1].node) = {}}
    \cup {r \in YangPatches :
            r.edits = << >> \/ (r.contentType /\ r.ds \notin ReadOnly)}

ASSUME RequestAssumption == NoRequest \notin Requests

-----------------------------------------------------------------------------

\* write_head() and end() do nothing once a response was started.
Respond(code) == response' = IF response = 0 THEN code ELSE response

\* The destructor of the sysrepo::Lock, on the normal and on every error path.
Unlock == lock' = [d \in Datastores |-> IF lock[d] = "server" THEN "free"
                                                              ELSE lock[d]]

\* The handler is over, and its RequestContext is gone.
Finish(code) ==
  /\ Respond(code)
  /\ Unlock
  /\ pc' = "idle"
  /\ req' = NoRequest
  /\ nodeExisted' = FALSE
  /\ merged' = << >>
  /\ done' = 0
  /\ work' = Empty

\* Mutant of StatusOf: a conflict is taken for success.
StatusOfConflict(method, err) ==
  CASE err = "Unauthorized" -> 403
    [] err = "NotFound" -> IF method = "DELETE" THEN 404 ELSE 400
    [] err = "ItemAlreadyExists" /\ method # "DELETE" -> 201
    [] err = "ValidationFailed" /\ method # "DELETE" -> 400
    [] OTHER -> 500

\* The status for a sysrepo exception: withRestconfExceptions(), and the
\* handler of DELETE.
StatusOf(method, err) ==
  CASE err = "Unauthorized" -> 403
    [] err = "NotFound" -> IF method = "DELETE" THEN 404 ELSE 400
    [] err = "ItemAlreadyExists" /\ method # "DELETE" -> 409
    [] err = "ValidationFailed" /\ method # "DELETE" -> 400
    [] OTHER -> 500

\* The statuses for a payload that is refused: an ErrorResponse and libyang's
\* validation failures, or another libyang exception.
Refusals == {400, 500}

\* The request handler up to the point where it waits for the payload.
Arrive(r) ==
  /\ pc = "idle"
  /\ IF r.ds \in ReadOnly
     THEN response' = 405 /\ UNCHANGED <<pc, req>>
     ELSE IF r.method # "DELETE" /\ ~r.contentType
     THEN response' = 400 /\ UNCHANGED <<pc, req>>
     ELSE /\ response' = 0
          /\ pc' = IF r.method = "DELETE" THEN "delete" ELSE "body"
          /\ req' = r
  /\ UNCHANGED <<data, lock, nodeExisted, merged, done, work>>

\* The connection closes before the payload is complete.
ClientLeaves ==
  /\ pc = "body"
  /\ done = 0
  /\ pc' = "idle"
  /\ req' = NoRequest
  /\ UNCHANGED <<data, lock, nodeExisted, merged, done, work,
                 response>>

-----------------------------------------------------------------------------
(* The handlers, once the payload is complete *)

\* The edit of a request for one resource, with the operation the handler
\* sets on the node.
PlainEdit(op) == <<[req.edits[1] EXCEPT !.operation = op]>>

\* DELETE creates the edit without a payload.
DeleteNode ==
  /\ pc = "delete"
  /\ merged' = PlainEdit("delete")
  /\ pc' = "apply"
  /\ UNCHANGED <<data, lock, req, nodeExisted, done, work, response>>

\* processPost(), and processPutOrPlainPatch() for the whole datastore: no
\* lock is taken and nothing is read.
PrepareEdit ==
  /\ pc = "body"
  /\ req.method = "POST" \/ (req.method \in {"PUT", "PATCH"} /\ req.root)
  /\ IF req.edits[1].ok
     THEN /\ merged' = PlainEdit(CASE req.method = "POST" -> "create"
                                   [] req.method = "PUT" -> "replaceConfig"
                                   [] OTHER -> "merge")
          /\ pc' = "apply"
          /\ UNCHANGED <<lock, req, nodeExisted, done, work, response>>
     ELSE \E code \in Refusals : Finish(code)
  /\ UNCHANGED data

\* Mutant of TakeLock: no datastore is locked.
TakeNoLock ==
  /\ pc = "body"
  /\ req.method \in {"PUT", "PATCH"}
  /\ ~req.root
  /\ pc' = "exists"
  /\ UNCHANGED <<data, lock, req, nodeExisted, merged, done, work,
                 response>>

\* Mutant of TakeLock: the candidate datastore is locked as well.
TakeEveryLock ==
  /\ pc = "body"
  /\ req.method \in {"PUT", "PATCH"}
  /\ ~req.root
  /\ lock[req.ds] = "free"
  /\ lock' = [lock EXCEPT ![req.ds] = "server"]
  /\ pc' = "exists"
  /\ UNCHANGED <<data, req, nodeExisted, merged, done, work,
                 response>>

\* processPutOrPlainPatch() up to the sysrepo::Lock, which throws if another
\* client holds it.  The candidate datastore is not locked.
TakeLock ==
  /\ pc = "body"
  /\ req.method \in {"PUT", "PATCH"}
  /\ ~req.root
  /\ IF req.ds # Candidate /\ lock[req.ds] # "free"
     THEN Finish(500)
     ELSE /\ lock' = IF req.ds = Candidate
                     THEN lock ELSE [lock EXCEPT ![req.ds] = "server"]
          /\ pc' = "exists"
          /\ UNCHANGED <<req, nodeExisted, merged, done, work, response>>
  /\ UNCHANGED data

\* getData(), which may fail, the check of PATCH, and the edit.
NodeExisted ==
  /\ pc = "exists"
  /\ LET existed == data[req.ds][req.edits[1].node] # Absent
     IN  \/ Finish(500)
         \/ /\ ~req.edits[1].ok \/ (req.method = "PATCH" /\ ~existed)
            /\ Finish(400)
         \/ /\ req.edits[1].ok
            /\ req.method = "PATCH" => existed
            /\ nodeExisted' = existed
            /\ merged' = PlainEdit(IF req.method = "PUT" THEN "replace"
                                                         ELSE "merge")
            /\ pc' = "apply"
            /\ UNCHANGED <<lock, req, done, work, response>>
  /\ UNCHANGED data

\* Mutant of YangPatchEdit: every operation is passed on as it is.
YangPatchEditRaw(e) == e

\* processYangPatchEdit(): sysrepo knows neither insert nor move.  A value
\* that comes with a move is merged like any other.
YangPatchEdit(e) ==
  CASE e.operation = "insert" -> [e EXCEPT !.operation = "create"]
    [] e.operation = "move" -> [e EXCEPT !.operation = "merge"]
    [] OTHER -> e

\* Mutant of ProcessYangPatch: an edit that is refused is skipped silently.
ProcessYangPatchSilently ==
  /\ pc = "body"
  /\ req.method = "YANG-PATCH"
  /\ IF done < Len(req.edits)
     THEN LET e == req.edits[done + 1]
          IN  /\ done' = done + 1
              /\ merged' = IF e.ok THEN Append(merged, YangPatchEdit(e))
                                   ELSE merged
              /\ UNCHANGED <<lock, pc, req, nodeExisted, work, response>>
     ELSE IF merged = << >>
     THEN Finish(200)
     ELSE pc' = "apply" /\ UNCHANGED <<lock, req, nodeExisted, merged, done,
                                       work, response>>
  /\ UNCHANGED data

(***************************************************************************)
(* processYangPatchImpl(), one edit per step: an edit that is not ok is    *)
(* answered at once with an error, and the loop goes on.  After the loop   *)
(* the edits that were ok are applied, if there are any.                   *)
(***************************************************************************)
ProcessYangPatch ==
  /\ pc = "body"
  /\ req.method = "YANG-PATCH"
  /\ IF done < Len(req.edits)
     THEN LET e == req.edits[done + 1]
          IN  /\ done' = done + 1
              /\ IF e.ok
                 THEN /\ merged' = Append(merged, YangPatchEdit(e))
                      /\ UNCHANGED response
                 ELSE /\ \E code \in Refusals : Respond(code)
                      /\ UNCHANGED merged
              /\ UNCHANGED <<lock, pc, req, nodeExisted, work>>
     ELSE IF merged = << >>
     THEN Finish(200)
     ELSE pc' = "apply" /\ UNCHANGED <<lock, req, nodeExisted, merged, done,
                                       work, response>>
  /\ UNCHANGED data

\* processYangPatch(): there is no patch in the payload.
RefuseYangPatch ==
  /\ pc = "body"
  /\ req.method = "YANG-PATCH"
  /\ done = 0
  /\ \E code \in Refusals : Finish(code)
  /\ UNCHANGED data

\* The status of a request whose edits were applied.
Success ==
  CASE req.method = "PUT" -> IF req.root \/ ~nodeExisted THEN 201 ELSE 204
    [] req.method = "POST" -> 201
    [] req.method = "YANG-PATCH" -> 200
    [] OTHER -> 204

(***************************************************************************)
(* editBatch() and applyChanges(), or replaceConfig(), throw if another    *)
(* client holds the lock or NACM refuses.  Otherwise sysrepo applies the   *)
(* edits to a copy of the tree, while it keeps other writers out.          *)
(***************************************************************************)
ApplyChanges ==
  /\ pc = "apply"
  /\ \/ Finish(StatusOf(req.method, "Unauthorized"))
     \/ lock[req.ds] = "other" /\ Finish(StatusOf(req.method, "Locked"))
     \/ /\ lock[req.ds] # "other"
        /\ pc' = "applying"
        /\ work' = data[req.ds]
        /\ done' = 0
        /\ UNCHANGED <<lock, req, nodeExisted, merged, response>>
  /\ UNCHANGED data

\* An edit that does not fit the data makes the whole call throw.
ApplyEdit ==
  /\ pc = "applying"
  /\ done < Len(merged)
  /\ LET e == merged[done + 1]
     IN  IF Error(work, e) # "Ok"
         THEN Finish(StatusOf(req.method, Error(work, e)))
         ELSE /\ work' = Result(work, e)
              /\ done' = done + 1
              /\ UNCHANGED <<lock, pc, req, nodeExisted, merged, response>>
  /\ UNCHANGED data

\* Validation, or a subscriber, refuses the new tree.
ApplyRefused ==
  /\ pc = "applying"
  /\ done = Len(merged)
  /\ \E err \in {"ValidationFailed", "Failed"} :
       Finish(StatusOf(req.method, err))
  /\ UNCHANGED data

\* The new tree replaces the old one; the handler responds.
Applied ==
  /\ pc = "applying"
  /\ done = Len(merged)
  /\ data' = [data EXCEPT ![req.ds] = work]
  /\ Finish(Success)

-----------------------------------------------------------------------------
(* Other clients of sysrepo *)

Writable == Lockable \cup {Candidate}

OtherWrites(d) ==
  /\ lock[d] # "server"
  /\ ~(pc = "applying" /\ req.ds = d)
  /\ \E n \in Nodes :
       \/ \E v \in Values : data' = [data EXCEPT ![d] = Put(@, n, v, {})]
       \/ data' = [data EXCEPT ![d] = Prune(@, n)]
  /\ UNCHANGED <<lock, pc, req, nodeExisted, merged, done, work,
                 response>>

OtherLocks(d) ==
  /\ lock[d] = "free"
  /\ lock' = [lock EXCEPT ![d] = "other"]
  /\ UNCHANGED <<data, pc, req, nodeExisted, merged, done, work,
                 response>>

OtherUnlocks(d) ==
  /\ lock[d] = "other"
  /\ lock' = [lock EXCEPT ![d] = "free"]
  /\ UNCHANGED <<data, pc, req, nodeExisted, merged, done, work,
                 response>>

-----------------------------------------------------------------------------

Init ==
  /\ data = [d \in Datastores |-> Empty]
  /\ lock = [d \in Datastores |-> "free"]
  /\ pc = "idle"
  /\ req = NoRequest
  /\ nodeExisted = FALSE
  /\ merged = << >>
  /\ done = 0
  /\ work = Empty
  /\ response = 0

Handler ==
  \/ DeleteNode
  \/ PrepareEdit
  \/ TakeLock
  \/ NodeExisted
  \/ RefuseYangPatch
  \/ ProcessYangPatch
  \/ ApplyChanges
  \/ ApplyEdit
  \/ ApplyRefused
  \/ Applied

Next ==
  \/ \E r \in Requests : Arrive(r)
  \/ ClientLeaves
  \/ Handler
  \/ \E d \in Writable : OtherWrites(d) \/ OtherLocks(d) \/ OtherUnlocks(d)

Spec == Init /\ [][Next]_vars

-----------------------------------------------------------------------------

\* Edits with an operation sysrepo knows.
PreparedEdits ==
  [operation : {"create", "delete", "merge", "remove", "replace",
                "replaceConfig"},
   node : Nodes, value : Values \cup {Bare}, ok : BOOLEAN]

Codes == {200, 201, 204, 400, 403, 404, 405, 409, 500}

Trees == [Nodes -> Values \cup {Absent, Bare}]

TypeOK ==
  /\ data \in [Datastores -> Trees]
  /\ lock \in [Datastores -> {"free", "server", "other"}]
  /\ pc \in {"idle", "body", "delete", "exists", "apply", "applying"}
  /\ req \in Requests \cup {NoRequest}
  /\ nodeExisted \in BOOLEAN
  /\ merged \in Seq(PreparedEdits)
  /\ done \in Nat
  /\ work \in Trees
  /\ response \in {0} \cup Codes

(***************************************************************************)
(* The server holds a datastore's lock only inside the handler of a PUT or *)
(* PATCH on it, on no path beyond the handler's end, and never that of the *)
(* candidate datastore, which would be rolled back on unlock (Server.cpp,  *)
(* lines 749-754).                                                         *)
(***************************************************************************)
LockDiscipline ==
  \A d \in Datastores : lock[d] = "server" =>
    /\ pc \in {"exists", "apply", "applying"}
    /\ req.ds = d
    /\ d # Candidate

(***************************************************************************)
(* The status tells what the request did to its target, although other     *)
(* clients write at the same time: 201 for a PUT or POST that created it,  *)
(* 204 for a PUT, PATCH or DELETE of a node that existed.  For PUT and     *)
(* PATCH this is what the lock is for; the candidate datastore, which is   *)
(* not locked, is the documented exception (lines 746-752).  The client is *)
(* one that NACM lets read its target.                                     *)
(***************************************************************************)
StatusTellsTruth ==
  [][pc = "applying" /\ req.method # "YANG-PATCH" /\ ~req.root
       /\ (req.ds # Candidate \/ req.method \in {"POST", "DELETE"})
     => LET existed == data[req.ds][req.edits[1].node] # Absent
        IN  /\ response' = 201 => ~existed
            /\ response' = 204 => existed]_vars

(***************************************************************************)
(* A plain request that is answered with an error has changed nothing, and *)
(* one that is answered with success has changed its target as asked.      *)
(***************************************************************************)
ErrorMeansUnchanged ==
  [][pc # "idle" /\ pc' = "idle" /\ req.method # "YANG-PATCH"
     => IF response' \in {201, 204}
        THEN LET e == req.edits[1]
             IN  data'[req.ds][e.node] = IF req.method = "DELETE" THEN Absent
                                                                  ELSE e.value
        ELSE data' = data]_vars

(***************************************************************************)
(* A YANG patch that is answered with "ok" was applied as a whole: no edit *)
(* was left out on the way (processYangPatch, lines 711-717).              *)
(***************************************************************************)
OkMeansWholePatch ==
  [][pc = "applying" /\ req.method = "YANG-PATCH" /\ response' = 200
     => Len(merged) = Len(req.edits)]_vars

(***************************************************************************)
(* The steps of a handler add up to one: whatever other clients do between *)
(* them, a request is applied as a whole to the tree that is there when it *)
(* is applied, or not at all, and its status is true of that tree.  A YANG *)
(* patch is applied with all its edits and answered with 200, or without   *)
(* those that were answered with an error before.                          *)
(***************************************************************************)
Atomic == INSTANCE AtomicEdits

ImplementsAtomicEdits == Atomic!Spec

(***************************************************************************)
(* "create one big edit from all the edits because we need to apply all at *)
(* once" (Server.cpp:683): what is applied holds all edits of the patch.   *)
(***************************************************************************)
PatchIsWhole ==
  pc = "apply" /\ req.method = "YANG-PATCH" => Len(merged) = Len(req.edits)
=============================================================================
