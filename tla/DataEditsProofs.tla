-------------------------- MODULE DataEditsProofs --------------------------
(***************************************************************************)
(* Proofs about DataEdits, for every data tree, every number of datastores *)
(* and YANG patches of any length.                                         *)
(***************************************************************************)
EXTENDS DataEdits, TLAPS

\* Zenon does the first-order leaves; a leaf that reasons about numbers,
\* functions, records or sequences cites SMT.
USE Zenon

Methods == {"PUT", "PATCH", "POST", "DELETE", "YANG-PATCH"}

Plain == req.method # "YANG-PATCH"

\* A PUT or PATCH of one resource, which is where the lock matters.
Checked == req.method \in {"PUT", "PATCH"} /\ ~req.root

\* What is known of a request.
WellFormed(r) ==
  /\ r.method \in Methods
  /\ r.ds \in Datastores
  /\ r.root \in BOOLEAN
  /\ r.edits \in Seq(Edits)
  /\ r.method # "YANG-PATCH" => /\ Len(r.edits) = 1 /\ r.edits[1] \in Edits
                                /\ r.edits[1].operation = "merge"
  /\ r.method = "YANG-PATCH" => ~r.root
  /\ r.method = "DELETE" => ~r.root

\* Which requests get where.
Control ==
  /\ pc # "idle" => WellFormed(req)
  /\ pc = "delete" => req.method = "DELETE"
  /\ pc = "body" => req.method # "DELETE"
  /\ pc = "exists" => Checked
  /\ pc \in {"idle", "delete", "exists"} => merged = << >>
  /\ pc = "idle" => done = 0
  /\ pc = "body" /\ (Plain \/ done = 0) => merged = << >>
  /\ pc \in {"apply", "applying"} => merged # << >>

\* The operation the handler of a plain request sets on its node.
PlainOp ==
  CASE req.method = "DELETE" -> "delete"
    [] req.method = "POST" -> "create"
    [] req.method = "PUT" /\ req.root -> "replaceConfig"
    [] req.method = "PUT" /\ ~req.root -> "replace"
    [] OTHER -> "merge"

\* The edit a plain request passes to sysrepo.
PlainEdits ==
  pc \in {"apply", "applying"} /\ Plain => merged = PlainEdit(PlainOp)

\* While the lock is held, what getData() said stays true.
CheckIsCurrent ==
  /\ pc \in {"exists", "apply", "applying"} /\ Checked /\ req.ds # Candidate
       => lock[req.ds] = "server"
  /\ pc \in {"apply", "applying"} /\ Checked /\ req.ds # Candidate
       => nodeExisted = (data[req.ds][req.edits[1].node] # Absent)
  /\ pc \in {"apply", "applying"} /\ Checked /\ req.method = "PATCH"
       => nodeExisted

\* sysrepo's copy of the tree against the tree itself, for a plain request.
CopyIsCurrent ==
  pc = "applying" /\ Plain =>
    /\ done \in {0, 1}
    /\ done = 0 => work = data[req.ds]
    /\ done = 1 => /\ Error(data[req.ds], merged[1]) = "Ok"
                   /\ work = Result(data[req.ds], merged[1])

\* Unless an edit was refused, none is missing.
NoEditMissing ==
  pc # "idle" /\ req.method = "YANG-PATCH" /\ response = 0 =>
    /\ pc = "body" => Len(merged) = done /\ done <= Len(req.edits)
    /\ pc \in {"apply", "applying"} => Len(merged) = Len(req.edits)

\* A plain request is answered once, at its end; a YANG patch may already have
\* been answered with the error of an edit.
AnsweredOnce ==
  pc # "idle" => response = 0 \/ (~Plain /\ response \in Refusals)

IInv ==
  /\ TypeOK
  /\ Control
  /\ LockDiscipline
  /\ PlainEdits
  /\ CheckIsCurrent
  /\ CopyIsCurrent
  /\ NoEditMissing
  /\ AnsweredOnce

-----------------------------------------------------------------------------

\* Requests as they are enumerated have the shape the proofs use.
LEMMA RequestsAreWellFormed ==
  ASSUME NEW r \in Requests
  PROVE  WellFormed(r)
<1>1. CASE r \in PlainRequests
  <2>1. /\ r.method \in {"PUT", "PATCH", "POST", "DELETE"}
        /\ r.ds \in Datastores /\ r.root \in BOOLEAN
        /\ \E e \in Edits : r.edits = <<e>> /\ e.operation = "merge"
    BY <1>1 DEF PlainRequests
  <2>2. r.root => r.method # "DELETE"
    BY <2>1 DEF Requests, YangPatches
  <2>3. QED
    BY SMT, <2>1, <2>2 DEF WellFormed, Methods
<1>2. CASE r \in YangPatches
  <2>1. /\ r.method = "YANG-PATCH" /\ r.ds \in Datastores /\ r.root = FALSE
        /\ r.edits \in UNION {[1..n -> Edits] : n \in 0..MaxEdits}
    BY <1>2 DEF YangPatches
  <2>2. PICK m \in 0..MaxEdits : r.edits \in [1..m -> Edits]
    BY <2>1
  <2>3. r.edits \in Seq(Edits)
    BY SMT, <2>2
  <2>4. QED
    BY <2>1, <2>3 DEF WellFormed, Methods
<1>3. QED
  BY <1>1, <1>2 DEF Requests

\* Putting content into a tree, or pruning it, gives a tree.
LEMMA PutIsTree ==
  ASSUME NEW t \in Trees, NEW n \in Nodes
  PROVE  /\ Prune(t, n) \in Trees
         /\ \A v \in Values \cup {Absent, Bare}, gone \in SUBSET Nodes :
              Put(t, n, v, gone) \in Trees
<1>1. Prune(t, n) \in Trees
  BY DEF Prune, Trees
<1>2. ASSUME NEW v \in Values \cup {Absent, Bare}, NEW gone \in SUBSET Nodes
      PROVE  Put(t, n, v, gone) \in Trees
  BY DEF Put, Trees
<1>3. QED
  BY <1>1, <1>2

\* The trees sysrepo computes are trees.
LEMMA ResultIsTree ==
  ASSUME NEW t \in Trees, NEW e \in PreparedEdits
  PROVE  Result(t, e) \in Trees
<1>1. /\ e.node \in Nodes /\ e.value \in Values \cup {Bare}
      /\ Empty \in Trees
  BY DEF PreparedEdits, Empty, Trees
<1>2. t[e.node] \in Values \cup {Absent, Bare}
  BY <1>1 DEF Trees
<1>3. {} \in SUBSET Nodes /\ Descendants[e.node] \in SUBSET Nodes
  BY <1>1, TreeAssumption
<1>4. QED
  BY <1>1, <1>2, <1>3, PutIsTree DEF Result

\* Every status is one of the codes.
LEMMA StatusIsCode ==
  ASSUME NEW method, NEW err
  PROVE  StatusOf(method, err) \in Codes
BY SMT DEF StatusOf, Codes

\* The invariant holds whenever a handler has ended, however it did.
LEMMA FinishKeepsInvariant ==
  ASSUME TypeOK, data' \in [Datastores -> Trees],
         NEW code \in Codes, Finish(code)
  PROVE  IInv'
<1>1. /\ pc' = "idle" /\ req' = NoRequest /\ nodeExisted' = FALSE
      /\ merged' = << >> /\ done' = 0 /\ work' = Empty
  BY DEF Finish
<1>2. response' \in {0} \cup Codes
  BY DEF Finish, Respond, TypeOK
<1>3. /\ lock' \in [Datastores -> {"free", "server", "other"}]
      /\ \A d \in Datastores : lock'[d] # "server"
  BY DEF Finish, Unlock, TypeOK
<1>4. Empty \in Trees /\ << >> \in Seq(PreparedEdits) /\ 0 \in Nat
  BY SMT DEF Empty, Trees
<1>5. TypeOK'
  BY <1>1, <1>2, <1>3, <1>4 DEF TypeOK
<1>6. QED
  BY <1>1, <1>3, <1>5
     DEF IInv, Control, LockDiscipline, PlainEdits, CheckIsCurrent,
         CopyIsCurrent, NoEditMissing, AnsweredOnce

\* A request arrives or its client leaves.
LEMMA ArrivalKeepsInvariant ==
  ASSUME IInv, ClientLeaves \/ \E r \in Requests : Arrive(r)
  PROVE  IInv'
<1>1. CASE ClientLeaves
  <2>1. merged = << >> /\ lock' = lock /\ pc = "body" /\ pc' = "idle"
    BY <1>1 DEF ClientLeaves, IInv, Control
  <2>2. QED
    BY <1>1, <2>1
       DEF ClientLeaves, IInv, TypeOK, Control, LockDiscipline, PlainEdits,
           CheckIsCurrent, CopyIsCurrent, NoEditMissing, AnsweredOnce
<1>2. ASSUME NEW r \in Requests, Arrive(r)
      PROVE  IInv'
  <2>1. WellFormed(r)
    BY RequestsAreWellFormed
  <2>2. pc = "idle" /\ \A d \in Datastores : lock[d] # "server"
    BY <1>2 DEF Arrive, IInv, LockDiscipline
  <2>3. CASE pc' = pc
    BY SMT, <1>2, <2>2, <2>3
       DEF Arrive, IInv, TypeOK, Codes, Control, LockDiscipline, PlainEdits,
           CheckIsCurrent, CopyIsCurrent, NoEditMissing, AnsweredOnce
  <2>4. CASE pc' # pc
    <3>1. /\ pc' \in {"delete", "body"} /\ req' = r /\ response' = 0
          /\ pc' = "delete" <=> r.method = "DELETE"
          /\ UNCHANGED <<data, lock, nodeExisted, merged, done, work>>
      BY <1>2, <2>2, <2>4 DEF Arrive
    <3>2. TypeOK'
      BY <3>1 DEF IInv, TypeOK
    <3>3. merged = << >> /\ done = 0 /\ Len(merged) = 0
      BY <2>2 DEF IInv, Control
    <3>4. Control'
      BY <2>1, <3>1, <3>3 DEF Control, WellFormed
    <3>5. NoEditMissing'
      BY SMT, <2>1, <3>1, <3>3 DEF NoEditMissing, WellFormed
    <3>6. LockDiscipline' /\ PlainEdits' /\ AnsweredOnce'
      BY <2>2, <3>1 DEF LockDiscipline, PlainEdits, AnsweredOnce
    <3>7. CheckIsCurrent' /\ CopyIsCurrent'
      BY <3>1 DEF CheckIsCurrent, CopyIsCurrent
    <3>8. QED
      BY <3>2, <3>4, <3>5, <3>6, <3>7 DEF IInv
  <2>5. QED
    BY <2>3, <2>4
<1>3. QED
  BY <1>1, <1>2

\* The edit of a plain request is that of its payload, with the operation.
LEMMA PlainEditFacts ==
  ASSUME WellFormed(req), Plain,
         NEW op \in {"create", "delete", "merge", "replace", "replaceConfig"}
  PROVE  /\ PlainEdit(op) \in Seq(PreparedEdits)
         /\ PlainEdit(op) # << >>
         /\ Len(PlainEdit(op)) = 1
         /\ PlainEdit(op)[1].operation = op
         /\ PlainEdit(op)[1].node = req.edits[1].node
         /\ PlainEdit(op)[1].value = req.edits[1].value
         /\ req.edits[1].node \in Nodes
         /\ req.edits[1].value \in Values
<1>1. req.edits[1] \in Edits /\ req.edits[1].operation = "merge"
  BY DEF WellFormed, Plain
<1>2. req.edits[1] \in [operation : Operations, node : Nodes, value : Values,
                        ok : BOOLEAN]
  BY <1>1 DEF Edits
<1>3. [req.edits[1] EXCEPT !.operation = op] \in PreparedEdits
  BY <1>2 DEF PreparedEdits
<1>4. QED
  BY SMT, <1>2, <1>3 DEF PlainEdit

\* The steps of a handler up to its edit, of plain requests.
LEMMA PrepareKeepsInvariant ==
  ASSUME IInv, DeleteNode \/ PrepareEdit
  PROVE  IInv'
<1> USE DEF IInv
<1>1. CASE DeleteNode
  <2>1. /\ req.method = "DELETE" /\ WellFormed(req) /\ Plain /\ ~Checked
        /\ PlainOp = "delete"
    BY <1>1 DEF DeleteNode, Control, Plain, Checked, PlainOp
  <2>2. merged' = PlainEdit(PlainOp) /\ pc' = "apply" /\ pc = "delete"
    BY <1>1, <2>1 DEF DeleteNode
  <2>3. merged' \in Seq(PreparedEdits) /\ merged' # << >>
    BY <2>1, <2>2, PlainEditFacts
  <2>4. UNCHANGED <<data, lock, req, nodeExisted, done, work, response>>
    BY <1>1 DEF DeleteNode
  <2>5. TypeOK'
    BY <2>2, <2>3, <2>4 DEF TypeOK
  <2>6. Control' /\ LockDiscipline'
    BY <2>1, <2>2, <2>3, <2>4 DEF Control, LockDiscipline, WellFormed, Plain
  <2>7. PlainEdits' /\ CheckIsCurrent' /\ CopyIsCurrent'
    BY <2>1, <2>2, <2>4
       DEF PlainEdits, PlainEdit, PlainOp, CheckIsCurrent, CopyIsCurrent,
           Checked, Plain
  <2>8. NoEditMissing' /\ AnsweredOnce'
    BY <2>1, <2>2, <2>4 DEF NoEditMissing, AnsweredOnce, Plain
  <2>9. QED
    BY <2>5, <2>6, <2>7, <2>8
<1>2. CASE PrepareEdit /\ pc' # "idle"
  <2>1. /\ WellFormed(req) /\ Plain /\ ~Checked /\ pc = "body"
        /\ req.method \in {"POST", "PUT", "PATCH"}
        /\ req.method # "POST" => req.root
    BY <1>2 DEF PrepareEdit, Control, Plain, Checked
  <2>2. /\ merged' = PlainEdit(PlainOp) /\ pc' = "apply"
        /\ UNCHANGED <<data, lock, req, nodeExisted, done, work, response>>
    BY <1>2, <2>1 DEF PrepareEdit, Finish, PlainOp
  <2>3. PlainOp \in {"create", "merge", "replaceConfig"}
    BY <2>1 DEF PlainOp
  <2>4. merged' \in Seq(PreparedEdits) /\ merged' # << >>
    BY <2>1, <2>2, <2>3, PlainEditFacts
  <2>5. TypeOK'
    BY <2>2, <2>4 DEF TypeOK
  <2>6. Control' /\ LockDiscipline'
    BY <2>1, <2>2, <2>4 DEF Control, LockDiscipline, WellFormed, Plain
  <2>7. PlainEdits' /\ CheckIsCurrent' /\ CopyIsCurrent'
    BY <2>1, <2>2
       DEF PlainEdits, PlainEdit, PlainOp, CheckIsCurrent, CopyIsCurrent,
           Checked, Plain
  <2>8. NoEditMissing' /\ AnsweredOnce'
    BY <2>1, <2>2 DEF NoEditMissing, AnsweredOnce, Plain
  <2>9. QED
    BY <2>5, <2>6, <2>7, <2>8
<1>3. CASE PrepareEdit /\ pc' = "idle"
  <2>1. data' = data /\ \E code \in Refusals : Finish(code)
    BY <1>3 DEF PrepareEdit
  <2>2. QED
    BY SMT, <2>1, FinishKeepsInvariant DEF TypeOK, Codes, Refusals
<1>4. QED
  BY <1>1, <1>2, <1>3

\* The lock, and what is read under it.
LEMMA CheckKeepsInvariant ==
  ASSUME IInv, TakeLock \/ NodeExisted
  PROVE  IInv'
<1> USE DEF IInv
<1>1. CASE TakeLock /\ pc' # "idle"
  <2>1. /\ WellFormed(req) /\ Plain /\ Checked /\ pc = "body"
        /\ merged = << >> /\ response = 0
    BY <1>1 DEF TakeLock, Control, Plain, Checked, AnsweredOnce
  <2>2. /\ pc' = "exists"
        /\ lock' = IF req.ds = Candidate
                   THEN lock ELSE [lock EXCEPT ![req.ds] = "server"]
        /\ UNCHANGED <<data, req, nodeExisted, merged, done, work, response>>
    BY <1>1 DEF TakeLock, Finish
  <2>3. req.ds \in Datastores /\ \A d \in Datastores : lock[d] # "server"
    BY <2>1 DEF WellFormed, LockDiscipline
  <2>4. TypeOK'
    BY <2>2, <2>3 DEF TypeOK
  <2>5. LockDiscipline' /\ CheckIsCurrent'
    BY <2>2, <2>3 DEF LockDiscipline, CheckIsCurrent, Checked, TypeOK
  <2>6. Control'
    BY <2>1, <2>2 DEF Control, WellFormed, Checked, Plain
  <2>7. PlainEdits' /\ CopyIsCurrent' /\ NoEditMissing' /\ AnsweredOnce'
    BY <2>1, <2>2
       DEF PlainEdits, CopyIsCurrent, NoEditMissing, AnsweredOnce, Plain
  <2>8. QED
    BY <2>4, <2>5, <2>6, <2>7
<1>2. CASE NodeExisted /\ pc' # "idle"
  <2>1. /\ WellFormed(req) /\ Checked /\ pc = "exists"
        /\ Plain /\ response = 0
    BY <1>2 DEF NodeExisted, Control, Checked, AnsweredOnce, Plain
  <2>2. /\ merged' = PlainEdit(PlainOp) /\ pc' = "apply"
        /\ nodeExisted' = (data[req.ds][req.edits[1].node] # Absent)
        /\ req.method = "PATCH" => nodeExisted'
        /\ UNCHANGED <<data, lock, req, done, work, response>>
    BY <1>2, <2>1 DEF NodeExisted, Finish, PlainOp, Checked
  <2>3. PlainOp \in {"merge", "replace"}
    BY <2>1 DEF PlainOp, Checked
  <2>4. merged' \in Seq(PreparedEdits) /\ merged' # << >>
    BY <2>1, <2>2, <2>3, PlainEditFacts
  <2>5. TypeOK'
    BY <2>2, <2>4 DEF TypeOK
  <2>6. Control' /\ LockDiscipline'
    BY <2>1, <2>2, <2>4
       DEF Control, LockDiscipline, WellFormed, Plain, Checked
  <2>7. CheckIsCurrent'
    BY <2>1, <2>2 DEF CheckIsCurrent, Checked
  <2>8. PlainEdits' /\ CopyIsCurrent'
    BY <2>1, <2>2 DEF PlainEdits, PlainEdit, PlainOp, CopyIsCurrent, Plain
  <2>9. NoEditMissing' /\ AnsweredOnce'
    BY <2>1, <2>2 DEF NoEditMissing, AnsweredOnce, Plain
  <2>10. QED
    BY <2>5, <2>6, <2>7, <2>8, <2>9
<1>3. CASE pc' = "idle"
  <2>1. data' = data /\ \E code \in {400, 500} : Finish(code)
    BY SMT, <1>3 DEF TakeLock, NodeExisted
  <2>2. QED
    BY SMT, <2>1, FinishKeepsInvariant DEF TypeOK, Codes
<1>4. QED
  BY <1>1, <1>2, <1>3

\* The operations sysrepo gets are ones it knows.
LEMMA YangPatchEditIsPrepared ==
  ASSUME NEW e \in Edits
  PROVE  YangPatchEdit(e) \in PreparedEdits
<1>1. e \in [operation : Operations, node : Nodes, value : Values \cup {Bare},
             ok : BOOLEAN]
  BY DEF Edits
<1>2. CASE e.operation = "insert"
  BY <1>1, <1>2 DEF YangPatchEdit, PreparedEdits, Operations
<1>3. CASE e.operation = "move"
  BY <1>1, <1>3 DEF YangPatchEdit, PreparedEdits, Operations
<1>4. CASE e.operation \notin {"insert", "move"}
  BY <1>1, <1>4 DEF YangPatchEdit, PreparedEdits, Operations
<1>5. QED
  BY <1>2, <1>3, <1>4

\* The loop over the edits of a YANG patch.
LEMMA PatchKeepsInvariant ==
  ASSUME IInv, ProcessYangPatch \/ RefuseYangPatch
  PROVE  IInv'
<1> USE DEF IInv
<1>1. /\ WellFormed(req) /\ ~Plain /\ ~Checked /\ pc = "body"
      /\ req.method = "YANG-PATCH" /\ data' = data
      /\ Len(req.edits) \in Nat /\ done \in Nat
      /\ merged \in Seq(PreparedEdits)
  BY SMT DEF ProcessYangPatch, RefuseYangPatch, Control, Plain, Checked, WellFormed,
         TypeOK
<1>2. CASE ProcessYangPatch /\ done < Len(req.edits)
  <2> DEFINE e == req.edits[done + 1]
  <2>1. e \in Edits
    BY SMT, <1>1, <1>2 DEF WellFormed
  <2>2. YangPatchEdit(e) \in PreparedEdits
    BY <2>1, YangPatchEditIsPrepared
  <2>3. /\ done' = done + 1
        /\ UNCHANGED <<lock, pc, req, nodeExisted, work>>
        /\ \/ merged' = Append(merged, YangPatchEdit(e)) /\ response' = response
           \/ merged' = merged /\ \E code \in Refusals : Respond(code)
    BY <1>2 DEF ProcessYangPatch
  <2>4. /\ merged' \in Seq(PreparedEdits)
        /\ response' = 0 => response = 0 /\ Len(merged') = Len(merged) + 1
        /\ response' \in {0} \cup Codes
    <3> DEFINE f == YangPatchEdit(e)
    <3>1. f \in PreparedEdits
      BY <2>2
    <3> HIDE DEF f
    <3>2. Append(merged, f) \in Seq(PreparedEdits)
      BY SMT, <1>1, <3>1
    <3>3. Len(Append(merged, f)) = Len(merged) + 1
      BY SMT, <1>1, <3>1
    <3>4. CASE merged' = Append(merged, f) /\ response' = response
      BY <3>2, <3>3, <3>4 DEF TypeOK
    <3>5. CASE merged' = merged /\ \E code \in Refusals : Respond(code)
      BY SMT, <1>1, <3>5 DEF Respond, Refusals, TypeOK, Codes
    <3>6. QED
      BY <2>3, <3>4, <3>5 DEF f
  <2>5. TypeOK'
    BY SMT, <1>1, <2>3, <2>4 DEF TypeOK
  <2>6. Control' /\ LockDiscipline'
    BY SMT, <1>1, <2>3 DEF Control, LockDiscipline, WellFormed, Plain, Checked
  <2>7. NoEditMissing'
    BY SMT, <1>1, <1>2, <2>3, <2>4 DEF NoEditMissing
  <2>8. PlainEdits' /\ CheckIsCurrent' /\ CopyIsCurrent' /\ AnsweredOnce'
    BY SMT, <1>1, <2>3
       DEF PlainEdits, CheckIsCurrent, CopyIsCurrent, AnsweredOnce, Plain,
           Respond, Refusals
  <2>9. QED
    BY <2>5, <2>6, <2>7, <2>8
<1>3. CASE ProcessYangPatch /\ ~(done < Len(req.edits)) /\ merged = << >>
  <2>1. Finish(200)
    BY <1>3 DEF ProcessYangPatch
  <2>2. QED
    BY SMT, <1>1, <2>1, FinishKeepsInvariant DEF TypeOK, Codes
<1>4. CASE ProcessYangPatch /\ ~(done < Len(req.edits)) /\ merged # << >>
  <2>1. /\ pc' = "apply"
        /\ UNCHANGED <<lock, req, nodeExisted, merged, done, work, response>>
    BY <1>4 DEF ProcessYangPatch
  <2>2. TypeOK' /\ Control' /\ LockDiscipline'
    BY <1>1, <1>4, <2>1
       DEF TypeOK, Control, LockDiscipline, WellFormed, Plain, Checked
  <2>3. NoEditMissing'
    BY SMT, <1>1, <1>4, <2>1 DEF NoEditMissing
  <2>4. PlainEdits' /\ CheckIsCurrent' /\ CopyIsCurrent' /\ AnsweredOnce'
    BY <1>1, <2>1
       DEF PlainEdits, CheckIsCurrent, CopyIsCurrent, AnsweredOnce, Plain,
           Checked
  <2>5. QED
    BY <2>2, <2>3, <2>4
<1>5. CASE RefuseYangPatch
  <2>1. \E code \in Refusals : Finish(code)
    BY <1>5 DEF RefuseYangPatch
  <2>2. QED
    BY SMT, <1>1, <2>1, FinishKeepsInvariant DEF TypeOK, Codes, Refusals
<1>6. QED
  BY <1>2, <1>3, <1>4, <1>5

\* What sysrepo does with the edits.
LEMMA ApplyKeepsInvariant ==
  ASSUME IInv, ApplyChanges \/ ApplyEdit \/ ApplyRefused \/ Applied
  PROVE  IInv'
<1> USE DEF IInv
<1>1. CASE ApplyChanges /\ pc' # "idle"
  <2>1. /\ WellFormed(req) /\ pc = "apply" /\ pc' = "applying"
        /\ work' = data[req.ds] /\ done' = 0
        /\ UNCHANGED <<data, lock, req, nodeExisted, merged, response>>
    BY <1>1 DEF ApplyChanges, Finish, Control
  <2>2. data[req.ds] \in Trees
    BY <2>1 DEF WellFormed, TypeOK
  <2>3. TypeOK'
    BY <2>1, <2>2 DEF TypeOK
  <2>4. Control' /\ LockDiscipline'
    BY <2>1 DEF Control, LockDiscipline, WellFormed, Checked
  <2>5. PlainEdits' /\ CopyIsCurrent'
    BY SMT, <2>1 DEF PlainEdits, PlainEdit, PlainOp, CopyIsCurrent, Plain
  <2>6. CheckIsCurrent' /\ NoEditMissing' /\ AnsweredOnce'
    BY <2>1 DEF CheckIsCurrent, Checked, NoEditMissing, AnsweredOnce, Plain
  <2>7. QED
    BY <2>3, <2>4, <2>5, <2>6
<1>2. CASE ApplyEdit /\ pc' # "idle"
  <2> DEFINE e == merged[done + 1]
  <2>1. /\ WellFormed(req) /\ pc = "applying" /\ done < Len(merged)
        /\ Error(work, e) = "Ok"
        /\ work' = Result(work, e) /\ done' = done + 1
        /\ UNCHANGED <<data, lock, pc, req, nodeExisted, merged, response>>
    BY <1>2 DEF ApplyEdit, Finish, Control
  <2>2. e \in PreparedEdits
    BY SMT, <2>1 DEF TypeOK
  <2>3. Result(work, e) \in Trees
    BY <2>2, ResultIsTree DEF TypeOK
  <2>4. TypeOK'
    BY SMT, <2>1, <2>3 DEF TypeOK
  <2>5. Control' /\ LockDiscipline' /\ PlainEdits'
    BY <2>1
       DEF Control, LockDiscipline, WellFormed, PlainEdits, PlainEdit, PlainOp,
           Plain, Checked
  <2>6. CopyIsCurrent'
    <3>1. SUFFICES ASSUME Plain PROVE CopyIsCurrent'
      BY <2>1 DEF CopyIsCurrent, Plain
    <3>2. Len(merged) = 1
      BY SMT, <2>1, <3>1 DEF PlainEdits, PlainEdit
    <3>3. done = 0 /\ work = data[req.ds]
      BY SMT, <2>1, <3>1, <3>2 DEF CopyIsCurrent
    <3>4. QED
      BY SMT, <2>1, <3>3 DEF CopyIsCurrent
  <2>7. CheckIsCurrent' /\ NoEditMissing' /\ AnsweredOnce'
    BY <2>1 DEF CheckIsCurrent, Checked, NoEditMissing, AnsweredOnce, Plain
  <2>8. QED
    BY <2>4, <2>5, <2>6, <2>7
<1>3. CASE (ApplyChanges \/ ApplyEdit \/ ApplyRefused) /\ pc' = "idle"
  <2>1. data' = data /\ \E m, err : Finish(StatusOf(m, err))
    BY <1>3 DEF ApplyChanges, ApplyEdit, ApplyRefused, Control
  <2>2. QED
    BY <2>1, StatusIsCode, FinishKeepsInvariant DEF TypeOK
<1>4. CASE Applied
  <2>1. WellFormed(req) /\ data' = [data EXCEPT ![req.ds] = work]
    BY <1>4 DEF Applied, Control
  <2>2. data' \in [Datastores -> Trees]
    BY <2>1 DEF WellFormed, TypeOK
  <2>3. Finish(Success) /\ Success \in Codes
    BY SMT, <1>4 DEF Applied, Success, Codes
  <2>4. QED
    BY <2>2, <2>3, FinishKeepsInvariant
<1>5. CASE ApplyRefused
  BY <1>3, <1>5 DEF ApplyRefused, Finish
<1>6. QED
  BY <1>1, <1>2, <1>3, <1>4, <1>5

\* Other clients: the lock keeps what was read true, and sysrepo keeps them
\* out while it applies the edits.
LEMMA OthersKeepInvariant ==
  ASSUME IInv, NEW d \in Writable,
         OtherWrites(d) \/ OtherLocks(d) \/ OtherUnlocks(d)
  PROVE  IInv'
<1> USE DEF IInv
<1>1. d \in Datastores
  BY DEF Writable, Datastores
<1>2. CASE OtherWrites(d)
  <2>1. PICK t \in Trees : data' = [data EXCEPT ![d] = t]
    <3>1. data[d] \in Trees
      BY <1>1 DEF TypeOK
    <3>2. QED
      BY <1>1, <1>2, <3>1, PutIsTree DEF OtherWrites, TypeOK
  <2>2. /\ lock[d] # "server" /\ ~(pc = "applying" /\ req.ds = d)
        /\ UNCHANGED <<lock, pc, req, nodeExisted, merged, done, work, response>>
    BY <1>2 DEF OtherWrites
  <2>3. TypeOK' /\ LockDiscipline'
    BY <1>1, <2>1, <2>2 DEF TypeOK, LockDiscipline
  <2>4. Control' /\ PlainEdits' /\ NoEditMissing' /\ AnsweredOnce'
    BY <2>2
       DEF Control, WellFormed, Plain, Checked, PlainEdits, PlainEdit, PlainOp,
           NoEditMissing, AnsweredOnce
  <2>5. data'[req.ds] = data[req.ds] \/ req.ds = d
    BY SMT, <2>1 DEF TypeOK
  <2>6. CheckIsCurrent'
    BY <2>2, <2>5 DEF CheckIsCurrent, Checked
  <2>7. CopyIsCurrent'
    BY <2>2, <2>5 DEF CopyIsCurrent, Plain
  <2>8. QED
    BY <2>3, <2>4, <2>6, <2>7
<1>3. CASE OtherLocks(d) \/ OtherUnlocks(d)
  <2>1. /\ \E who \in {"free", "other"} : lock' = [lock EXCEPT ![d] = who]
        /\ lock[d] # "server"
        /\ UNCHANGED <<data, pc, req, nodeExisted, merged, done, work, response>>
    BY <1>3 DEF OtherLocks, OtherUnlocks
  <2>2. /\ lock' \in [Datastores -> {"free", "server", "other"}]
        /\ \A x \in Datastores : lock'[x] = "server" <=> lock[x] = "server"
    BY <1>1, <2>1 DEF TypeOK
  <2>3. TypeOK' /\ LockDiscipline'
    BY <2>1, <2>2 DEF TypeOK, LockDiscipline
  <2>4. Control' /\ PlainEdits' /\ NoEditMissing' /\ AnsweredOnce'
    BY <2>1
       DEF Control, WellFormed, Plain, Checked, PlainEdits, PlainEdit, PlainOp,
           NoEditMissing, AnsweredOnce
  <2>5. CheckIsCurrent' /\ CopyIsCurrent'
    BY <2>1, <2>2
       DEF CheckIsCurrent, CopyIsCurrent, Checked, Plain, Control, WellFormed
  <2>6. QED
    BY <2>3, <2>4, <2>5
<1>4. QED
  BY <1>2, <1>3

-----------------------------------------------------------------------------

\* The inductive invariant holds in every state of every behaviour.
THEOREM Invariance == Spec => []IInv
<1>1. Init => IInv
  <2>1. SUFFICES ASSUME Init PROVE IInv
    OBVIOUS
  <2>2. Empty \in Trees /\ << >> \in Seq(PreparedEdits)
    BY SMT DEF Empty, Trees
  <2>3. TypeOK
    BY <2>1, <2>2 DEF Init, TypeOK
  <2>4. QED
    BY <2>1, <2>3
       DEF Init, IInv, Control, LockDiscipline, PlainEdits, CheckIsCurrent,
           CopyIsCurrent, NoEditMissing, AnsweredOnce
<1>2. IInv /\ [Next]_vars => IInv'
  <2>1. SUFFICES ASSUME IInv, [Next]_vars PROVE IInv'
    OBVIOUS
  <2>2. CASE UNCHANGED vars
    BY SMT, <2>1, <2>2
       DEF vars, IInv, TypeOK, Control, WellFormed, LockDiscipline, PlainEdits,
           PlainEdit, PlainOp, Plain, Checked, CheckIsCurrent, CopyIsCurrent,
           NoEditMissing, AnsweredOnce
  <2>3. CASE ClientLeaves \/ \E r \in Requests : Arrive(r)
    BY <2>1, <2>3, ArrivalKeepsInvariant
  <2>4. CASE DeleteNode \/ PrepareEdit
    BY <2>1, <2>4, PrepareKeepsInvariant
  <2>5. CASE TakeLock \/ NodeExisted
    BY <2>1, <2>5, CheckKeepsInvariant
  <2>6. CASE ProcessYangPatch \/ RefuseYangPatch
    BY <2>1, <2>6, PatchKeepsInvariant
  <2>7. CASE ApplyChanges \/ ApplyEdit \/ ApplyRefused \/ Applied
    BY <2>1, <2>7, ApplyKeepsInvariant
  <2>8. CASE \E d \in Writable :
               OtherWrites(d) \/ OtherLocks(d) \/ OtherUnlocks(d)
    BY <2>1, <2>8, OthersKeepInvariant
  <2>9. QED
    BY <2>1, <2>2, <2>3, <2>4, <2>5, <2>6, <2>7, <2>8 DEF Next, Handler
<1>3. QED
  BY <1>1, <1>2, PTL DEF Spec

\* The state always has its type; in particular sysrepo is only ever given
\* edits with an operation it knows.
THEOREM TypeCorrect == Spec => []TypeOK
BY Invariance, PTL DEF IInv

\* The server never keeps a lock beyond the handler that took it, and never
\* locks the candidate datastore.
THEOREM LockIsReleased == Spec => []LockDiscipline
BY Invariance, PTL DEF IInv

\* The steps that end the handler of a plain request: with an error and no
\* change, or with success and the one edit applied.
LEMMA PlainEnds ==
  ASSUME IInv, Next, pc # "idle", Plain, response' # 0
  PROVE  \/ data' = data /\ response' \notin {200, 201, 204}
         \/ /\ Applied
            /\ response' = Success
            /\ merged = PlainEdit(PlainOp)
            /\ Error(data[req.ds], merged[1]) = "Ok"
            /\ work = Result(data[req.ds], merged[1])
<1>1. response = 0
  BY DEF IInv, AnsweredOnce
<1>2. PICK code : Finish(code)
  <2>1. CASE Handler
    BY <1>1, <2>1
       DEF Handler, DeleteNode, PrepareEdit, TakeLock, NodeExisted,
           ProcessYangPatch, RefuseYangPatch, ApplyChanges, ApplyEdit,
           ApplyRefused, Applied,
           Plain
  <2>2. QED
    BY <1>1, <2>1
       DEF Next, Arrive, ClientLeaves, OtherWrites, OtherLocks, OtherUnlocks
<1>3. response' = code
  BY <1>1, <1>2 DEF Finish, Respond
<1>4. CASE Applied
  <2>1. merged = PlainEdit(PlainOp) /\ pc = "applying" /\ done = Len(merged)
    BY <1>4 DEF IInv, PlainEdits, Applied
  <2>2. Len(merged) = 1
    BY <2>1 DEF PlainEdit
  <2>3. response' = Success
    BY <1>1, <1>4 DEF Applied, Finish, Respond
  <2>4. QED
    BY <1>4, <2>1, <2>2, <2>3 DEF IInv, CopyIsCurrent
<1>5. CASE ~Applied
  <2>1. Handler
    BY <1>1, <1>2
       DEF Next, Arrive, ClientLeaves, OtherWrites, OtherLocks, OtherUnlocks
  <2>2. CASE PrepareEdit \/ TakeLock \/ NodeExisted
    BY SMT, <1>1, <2>2
       DEF PrepareEdit, TakeLock, NodeExisted, Finish, Respond, Refusals
  <2>3. CASE ApplyChanges \/ ApplyEdit \/ ApplyRefused
    <3>1. data' = data /\ \E m, err : Finish(StatusOf(m, err))
      BY <1>1, <2>3 DEF ApplyChanges, ApplyEdit, ApplyRefused
    <3>2. QED
      BY SMT, <1>1, <3>1 DEF Finish, Respond, StatusOf
  <2>4. QED
    BY <1>1, <1>5, <2>1, <2>2, <2>3
       DEF Handler, DeleteNode, ProcessYangPatch, RefuseYangPatch, Plain
<1>6. QED
  BY <1>4, <1>5

\* The status of a plain request tells what it did to its target, although
\* other clients write at the same time: this is what the lock of PUT and
\* PATCH is for.
THEOREM StatusIsTrue == Spec => StatusTellsTruth
<1>1. ASSUME IInv, Next, pc = "applying", Plain, ~req.root,
             req.ds # Candidate \/ req.method \in {"POST", "DELETE"},
             response' \in {201, 204}
      PROVE  response' = 201 <=> data[req.ds][req.edits[1].node] = Absent
  <2>1. WellFormed(req) /\ response = 0
    BY <1>1 DEF IInv, Control, AnsweredOnce
  <2>2. /\ Applied /\ response' = Success /\ merged = PlainEdit(PlainOp)
        /\ Error(data[req.ds], merged[1]) = "Ok"
    BY SMT, <1>1, <2>1, PlainEnds
  <2>3. PlainOp \in {"create", "delete", "merge", "replace", "replaceConfig"}
    BY DEF PlainOp
  <2>4. /\ merged[1].operation = PlainOp
        /\ merged[1].node = req.edits[1].node
    BY <1>1, <2>1, <2>2, <2>3, PlainEditFacts
  <2>5. CASE req.method \in {"PUT", "PATCH"}
    <3>1. nodeExisted = (data[req.ds][req.edits[1].node] # Absent)
      BY <1>1, <2>5 DEF IInv, CheckIsCurrent, Checked
    <3>2. nodeExisted <=> data[req.ds][req.edits[1].node] # Absent
      BY <3>1, Zenon
    <3>3. req.method = "PATCH" => nodeExisted
      BY <1>1, <2>5 DEF IInv, CheckIsCurrent, Checked
    <3>4. response' = 201 <=> ~nodeExisted
      BY SMT, <1>1, <2>2, <2>5, <3>3 DEF Success
    <3>5. QED
      BY <3>2, <3>4
  <2>6. CASE req.method = "POST"
    BY <2>2, <2>4, <2>6 DEF Success, PlainOp, Error
  <2>7. CASE req.method = "DELETE"
    BY SMT, <2>2, <2>4, <2>7 DEF Success, PlainOp, Error
  <2>8. QED
    BY <1>1, <2>1, <2>5, <2>6, <2>7 DEF WellFormed, Methods, Plain
<1>2. IInv /\ [Next]_vars
      => [pc = "applying" /\ req.method # "YANG-PATCH" /\ ~req.root
            /\ (req.ds # Candidate \/ req.method \in {"POST", "DELETE"})
          => LET existed == data[req.ds][req.edits[1].node] # Absent
             IN  /\ response' = 201 => ~existed
                 /\ response' = 204 => existed]_vars
  BY SMT, <1>1 DEF Plain
<1>3. QED
  BY <1>2, Invariance, PTL DEF Spec, StatusTellsTruth

\* A plain request that is answered with an error has changed nothing; one
\* answered with success has given its target the content asked for.
THEOREM ErrorChangesNothing == Spec => ErrorMeansUnchanged
<1>1. ASSUME IInv, Next, pc # "idle", pc' = "idle", Plain
      PROVE  IF response' \in {201, 204}
             THEN data'[req.ds][req.edits[1].node]
                    = IF req.method = "DELETE" THEN Absent ELSE req.edits[1].value
             ELSE data' = data
  <2>1. WellFormed(req) /\ response = 0 /\ req.ds \in Datastores
    BY <1>1 DEF IInv, Control, AnsweredOnce, WellFormed
  <2>2. CASE response' = 0
    <3>1. CASE Applied
      BY SMT, <2>1, <2>2, <3>1 DEF Applied, Finish, Respond, Success
    <3>2. CASE ~Applied
      BY SMT, <1>1, <2>2, <3>2
         DEF Next, Handler, Arrive, ClientLeaves, DeleteNode, PrepareEdit,
             TakeLock, NodeExisted, ProcessYangPatch, RefuseYangPatch,
             ApplyChanges, ApplyEdit,
             ApplyRefused, OtherWrites, OtherLocks, OtherUnlocks
    <3>3. QED
      BY <2>2, <3>1, <3>2
  <2>3. CASE response' # 0 /\ response' \notin {200, 201, 204}
    <3>1. ~(response' = Success)
      BY <2>3 DEF Success
    <3>2. QED
      BY <1>1, <2>3, <3>1, PlainEnds
  <2>4. CASE response' \in {200, 201, 204}
    <3> DEFINE n == req.edits[1].node
               v == req.edits[1].value
               t == data[req.ds]
    <3>1. /\ Applied /\ response' = Success /\ merged = PlainEdit(PlainOp)
          /\ work = Result(t, merged[1])
      BY SMT, <1>1, <2>4, PlainEnds
    <3>2. PlainOp \in {"create", "delete", "merge", "replace", "replaceConfig"}
      BY DEF PlainOp
    <3>3. /\ merged[1].operation = PlainOp /\ merged[1].node = n
          /\ merged[1].value = v /\ n \in Nodes /\ v \in Values
      BY <1>1, <2>1, <3>1, <3>2, PlainEditFacts
    <3>4. data'[req.ds] = work /\ response' \in {201, 204}
      BY SMT, <1>1, <2>1, <3>1 DEF Applied, IInv, TypeOK, Success, Plain
    <3>5. v # Bare
      BY <3>3, TreeAssumption
    <3>6. PlainOp = "delete" <=> req.method = "DELETE"
      BY DEF PlainOp
    <3>7. work[n] = IF PlainOp = "delete" THEN Absent ELSE v
      <4> HIDE DEF n, v, t
      <4>1. CASE PlainOp = "delete"
        BY <3>1, <3>3, <4>1 DEF Result, Prune
      <4>2. CASE PlainOp # "delete"
        <5>1. \A u, gone : Put(u, n, v, gone)[n] = v
          BY <3>3 DEF Put
        <5>2. \E u, gone : work = Put(u, n, v, gone)
          BY <3>1, <3>2, <3>3, <3>5, <4>2 DEF Result
        <5>3. QED
          BY <4>2, <5>1, <5>2
      <4>3. QED
        BY <4>1, <4>2
    <3>8. QED
      BY <3>4, <3>6, <3>7
  <2>5. QED
    BY <2>2, <2>3, <2>4
<1>2. IInv /\ [Next]_vars
      => [pc # "idle" /\ pc' = "idle" /\ req.method # "YANG-PATCH"
          => IF response' \in {201, 204}
             THEN LET e == req.edits[1]
                  IN  data'[req.ds][e.node]
                        = IF req.method = "DELETE" THEN Absent ELSE e.value
             ELSE data' = data]_vars
  BY <1>1 DEF Plain
<1>3. QED
  BY <1>2, Invariance, PTL DEF Spec, ErrorMeansUnchanged

\* A YANG patch that is answered with success was applied with every edit.
THEOREM OkPatchIsWhole == Spec => OkMeansWholePatch
<1>1. ASSUME IInv, Next, pc = "applying", req.method = "YANG-PATCH",
             response' = 200
      PROVE  Len(merged) = Len(req.edits)
  <2>1. response = 0
    <3>1. response \in {0, 400, 500}
      BY SMT, <1>1 DEF IInv, AnsweredOnce, Refusals
    <3>2. response \notin {400, 500}
      BY SMT, <1>1
         DEF Next, Handler, Arrive, ClientLeaves, DeleteNode, PrepareEdit,
             TakeLock, NodeExisted, ProcessYangPatch, RefuseYangPatch,
             ApplyChanges, ApplyEdit,
             ApplyRefused, Applied, Finish, Respond, OtherWrites, OtherLocks,
             OtherUnlocks
    <3>3. QED
      BY SMT, <3>1, <3>2
  <2>2. QED
    BY <1>1, <2>1 DEF IInv, NoEditMissing
<1>2. IInv /\ [Next]_vars
      => [pc = "applying" /\ req.method = "YANG-PATCH" /\ response' = 200
          => Len(merged) = Len(req.edits)]_vars
  BY <1>1
<1>3. QED
  BY <1>2, Invariance, PTL DEF Spec, OkMeansWholePatch

-----------------------------------------------------------------------------
(* The handlers implement AtomicEdits. *)

\* The first n edits of the YANG patch against those that were merged: c[i] is
\* how many of the first i edits are well-formed, and merged has these.
Counted(n) ==
  \E c \in [0 .. n -> 0 .. Len(merged)] :
    /\ c[0] = 0 /\ c[n] = Len(merged)
    /\ \A i \in 1 .. n :
         IF req.edits[i].ok
         THEN /\ c[i] = c[i - 1] + 1
              /\ merged[c[i]] = YangPatchEdit(req.edits[i])
         ELSE c[i] = c[i - 1]

MergedInOrder ==
  pc # "idle" /\ ~Plain =>
    /\ pc = "body" => done <= Len(req.edits) /\ Counted(done)
    /\ pc \in {"apply", "applying"} => Counted(Len(req.edits))

\* sysrepo's copy is what the edits it has done make of the tree.
CopyInOrder ==
  pc = "applying" =>
    /\ done <= Len(merged)
    /\ \E h \in [0 .. done -> Trees] :
         /\ h[0] = data[req.ds] /\ h[done] = work
         /\ \A i \in 1 .. done :
              Error(h[i - 1], merged[i]) = "Ok" /\ h[i] = Result(h[i - 1], merged[i])

\* A YANG patch has been answered if and only if an edit was refused; a plain
\* request gets to sysrepo only with a payload that is in order.
RefusedIsAnswered ==
  pc # "idle" =>
    /\ ~Plain /\ response # 0 => \E i \in 1 .. Len(req.edits) : ~req.edits[i].ok
    /\ ~Plain /\ response = 0 =>
         /\ pc = "body" => \A i \in 1 .. done : req.edits[i].ok
         /\ pc \in {"apply", "applying"} =>
              \A i \in 1 .. Len(req.edits) : req.edits[i].ok
    /\ Plain /\ req.method # "DELETE" /\ pc \in {"apply", "applying"} =>
         req.edits[1].ok

EInv == MergedInOrder /\ CopyInOrder /\ RefusedIsAnswered

\* Nothing is claimed of a handler that is over.
LEMMA IdleKeepsEdits ==
  ASSUME pc' = "idle"
  PROVE  EInv'
BY DEF EInv, MergedInOrder, CopyInOrder, RefusedIsAnswered

\* Nor does it matter what happens to data that sysrepo is not working on.
LEMMA EditsFrame ==
  ASSUME EInv, UNCHANGED <<pc, req, merged, done, work, response>>,
         pc = "applying" => data'[req.ds] = data[req.ds]
  PROVE  EInv'
<1>1. /\ pc' = pc /\ req' = req /\ merged' = merged /\ done' = done /\ work' = work
      /\ response' = response
  OBVIOUS
<1>2. MergedInOrder'
  BY SMT, <1>1 DEF EInv, MergedInOrder, Counted, Plain
<1>3. CopyInOrder'
  BY <1>1 DEF EInv, CopyInOrder
<1>4. RefusedIsAnswered'
  BY <1>1 DEF EInv, RefusedIsAnswered, Plain
<1> QED
  BY <1>2, <1>3, <1>4 DEF EInv

\* The steps up to the edit of a plain request, and the arrival of a request.
LEMMA PlainKeepsEdits ==
  ASSUME IInv, EInv,
         (\E r \in Requests : Arrive(r)) \/ DeleteNode \/ PrepareEdit \/ TakeLock
           \/ NodeExisted
  PROVE  EInv'
<1>1. CASE pc' = "idle"
  BY <1>1, IdleKeepsEdits
<1>2. CASE pc' # "idle" /\ \E r \in Requests : Arrive(r)
  <2>1. PICK r \in Requests : Arrive(r)
    BY <1>2
  <2>2. /\ pc' \in {"delete", "body"} /\ response' = 0 /\ req' = r
        /\ merged' = << >> /\ done' = 0
    BY <1>2, <2>1 DEF Arrive, IInv, Control
  <2>3. Len(r.edits) \in Nat
    BY SMT, RequestsAreWellFormed DEF WellFormed
  <2>4. PICK c : c = [i \in 0 .. 0 |-> 0]
    OBVIOUS
  <2>5. /\ c \in [0 .. 0 -> 0 .. Len(<< >>)] /\ c[0] = 0 /\ 0 = Len(<< >>)
        /\ 0 <= Len(r.edits) /\ \A i \in 1 .. 0 : FALSE
    BY SMT, <2>3, <2>4
  <2>6. Counted(0)'
    BY <2>2, <2>5 DEF Counted
  <2>7. MergedInOrder'
    BY <2>2, <2>5, <2>6 DEF MergedInOrder
  <2>8. CopyInOrder' /\ RefusedIsAnswered'
    BY <2>2, <2>5 DEF CopyInOrder, RefusedIsAnswered
  <2> QED
    BY <2>7, <2>8 DEF EInv
<1>3. CASE pc' # "idle" /\ (DeleteNode \/ PrepareEdit \/ TakeLock \/ NodeExisted)
  <2>1. /\ Plain /\ req' = req /\ pc' \in {"apply", "exists"}
        /\ pc' = "apply" /\ req.method # "DELETE" => req.edits[1].ok
    BY <1>3 DEF DeleteNode, PrepareEdit, TakeLock, NodeExisted, Finish, IInv, Control,
                Plain, Checked
  <2> QED
    BY <2>1 DEF EInv, MergedInOrder, CopyInOrder, RefusedIsAnswered, Plain
<1> QED
  BY <1>1, <1>2, <1>3

\* An edit of a YANG patch is merged, or is answered with an error.
LEMMA LoopKeepsEdits ==
  ASSUME IInv, EInv, ProcessYangPatch \/ RefuseYangPatch
  PROVE  EInv'
<1>1. CASE pc' = "idle"
  BY <1>1, IdleKeepsEdits
<1>2. CASE pc' # "idle"
  <2>1. /\ ProcessYangPatch /\ pc = "body" /\ ~Plain /\ req' = req /\ WellFormed(req)
        /\ done \in Nat /\ Len(req.edits) \in Nat /\ merged \in Seq(PreparedEdits)
    <3>1. ProcessYangPatch /\ pc = "body" /\ ~Plain /\ WellFormed(req)
      BY <1>2 DEF ProcessYangPatch, RefuseYangPatch, Finish, IInv, Control, Plain
    <3>2. req' = req
      BY <1>2, <3>1 DEF ProcessYangPatch, Finish
    <3> QED
      BY SMT, <3>1, <3>2 DEF IInv, TypeOK, WellFormed
  <2>2. done <= Len(req.edits) /\ Counted(done)
    BY <2>1 DEF EInv, MergedInOrder
  <2>3. CASE done < Len(req.edits)
    <3>1. PICK e \in Edits : e = req.edits[done + 1]
      BY SMT, <2>1, <2>3 DEF WellFormed
    <3>2. PICK y \in PreparedEdits : y = YangPatchEdit(e)
      BY YangPatchEditIsPrepared
    <3>3. /\ pc' = "body" /\ done' = done + 1
          /\ IF e.ok THEN merged' = Append(merged, y) /\ response' = response
                     ELSE merged' = merged /\ response' # 0
      BY SMTT(30), <2>1, <2>3, <3>1, <3>2
         DEF ProcessYangPatch, Respond, Refusals, IInv, TypeOK
    <3>4. PICK c \in [0 .. done -> 0 .. Len(merged)] :
            /\ c[0] = 0 /\ c[done] = Len(merged)
            /\ \A i \in 1 .. done :
                 IF req.edits[i].ok
                 THEN /\ c[i] = c[i - 1] + 1
                      /\ merged[c[i]] = YangPatchEdit(req.edits[i])
                 ELSE c[i] = c[i - 1]
      BY <2>2 DEF Counted
    <3>5. /\ Len(merged) \in Nat /\ Len(merged') \in Nat
          /\ Len(merged') = IF e.ok THEN Len(merged) + 1 ELSE Len(merged)
          /\ \A j \in 1 .. Len(merged) : merged'[j] = merged[j]
          /\ e.ok => merged'[Len(merged) + 1] = y
      BY SMT, <2>1, <3>3
    <3>6. PICK k : k = Len(merged)
      OBVIOUS
    <3>7. PICK k2 : k2 = Len(merged')
      OBVIOUS
    <3>8. PICK d : d = [i \in 0 .. done + 1 |-> IF i <= done THEN c[i] ELSE k2]
      OBVIOUS
    <3>9. /\ d \in [0 .. done + 1 -> 0 .. k2] /\ d[0] = 0 /\ d[done + 1] = k2
          /\ d[done] = k /\ \A i \in 0 .. done : d[i] = c[i]
      BY SMT, <2>1, <3>4, <3>5, <3>6, <3>7, <3>8
    <3>10. \A i \in 1 .. done :
             IF req.edits[i].ok
             THEN /\ d[i] = d[i - 1] + 1
                  /\ merged'[d[i]] = YangPatchEdit(req.edits[i])
             ELSE d[i] = d[i - 1]
      <4>1. TAKE i \in 1 .. done
      <4>2. /\ i \in 0 .. done /\ i - 1 \in 0 .. done
            /\ d[i] = c[i] /\ d[i - 1] = c[i - 1] /\ c[i] \in 0 .. k /\ c[i - 1] \in 0 .. k
        BY SMT, <2>1, <3>4, <3>6, <3>9
      <4>3. CASE req.edits[i].ok
        <5>1. c[i] = c[i - 1] + 1 /\ merged[c[i]] = YangPatchEdit(req.edits[i])
          BY <3>4, <4>3
        <5>2. c[i] \in 1 .. k
          BY SMT, <3>5, <3>6, <4>2, <5>1
        <5> QED
          BY <3>5, <3>6, <4>2, <4>3, <5>1, <5>2
      <4>4. CASE ~req.edits[i].ok
        BY <3>4, <4>2, <4>4
      <4> QED
        BY <4>3, <4>4
    <3>11. IF e.ok
           THEN d[done + 1] = d[done] + 1 /\ merged'[d[done + 1]] = y
           ELSE d[done + 1] = d[done]
      BY SMT, <3>5, <3>6, <3>7, <3>9
    <3>12. \A i \in 1 .. done + 1 : i \in 1 .. done \/ i = done + 1
      BY SMT, <2>1
    <3>13. \A i \in 1 .. done + 1 :
             IF req.edits[i].ok
             THEN /\ d[i] = d[i - 1] + 1
                  /\ merged'[d[i]] = YangPatchEdit(req.edits[i])
             ELSE d[i] = d[i - 1]
      <4>1. (done + 1) - 1 = done
        BY SMT, <2>1
      <4> QED
        BY <3>1, <3>2, <3>10, <3>11, <3>12, <4>1
    <3>14. Counted(done)' /\ (done + 1 <= Len(req.edits))
      <4>1. done + 1 <= Len(req.edits)
        BY SMT, <2>1, <2>3
      <4> QED
        BY <2>1, <3>3, <3>7, <3>9, <3>13, <4>1 DEF Counted
    <3>15. MergedInOrder' /\ CopyInOrder'
      BY <2>1, <3>3, <3>14 DEF MergedInOrder, CopyInOrder
    <3>16. RefusedIsAnswered'
      <4>1. done + 1 \in 1 .. Len(req.edits)
        BY SMT, <2>1, <2>3
      <4>2. CASE e.ok
        BY <2>1, <3>1, <3>3, <3>12, <4>2 DEF EInv, RefusedIsAnswered, Plain
      <4>3. CASE ~e.ok
        BY <2>1, <3>1, <3>3, <4>1, <4>3 DEF RefusedIsAnswered, Plain
      <4> QED
        BY <4>2, <4>3
    <3> QED
      BY <3>15, <3>16 DEF EInv
  <2>4. CASE ~(done < Len(req.edits))
    <3>1. done = Len(req.edits)
      BY SMT, <2>1, <2>2, <2>4
    <3>2. pc' = "apply" /\ merged' = merged /\ response' = response
      BY <1>2, <2>1, <2>4 DEF ProcessYangPatch, Finish
    <3>3. Counted(Len(req.edits))'
      BY <2>1, <2>2, <3>1, <3>2 DEF Counted
    <3>4. RefusedIsAnswered'
      BY <2>1, <3>1, <3>2 DEF EInv, RefusedIsAnswered, Plain
    <3> QED
      BY <3>2, <3>3, <3>4 DEF EInv, MergedInOrder, CopyInOrder
  <2> QED
    BY <2>3, <2>4
<1> QED
  BY <1>1, <1>2

\* sysrepo takes a copy, and makes the next tree of it.
LEMMA ApplyKeepsEdits ==
  ASSUME IInv, EInv, ApplyChanges \/ ApplyEdit \/ ApplyRefused \/ Applied
  PROVE  EInv'
<1>1. CASE pc' = "idle"
  BY <1>1, IdleKeepsEdits
<1>2. CASE pc' # "idle"
  <2>1. /\ ApplyChanges \/ ApplyEdit
        /\ pc \in {"apply", "applying"} /\ pc' = "applying" /\ WellFormed(req)
        /\ UNCHANGED <<data, req, merged, response>>
    BY <1>2
       DEF ApplyChanges, ApplyEdit, ApplyRefused, Applied, Finish, IInv, Control
  <2>2. MergedInOrder' /\ RefusedIsAnswered'
    BY SMT, <2>1 DEF EInv, MergedInOrder, RefusedIsAnswered, Counted, Plain
  <2>3. data[req.ds] \in Trees /\ merged \in Seq(PreparedEdits) /\ done \in Nat
    BY <2>1 DEF WellFormed, IInv, TypeOK
  <2>4. CASE ApplyChanges
    <3>1. work' = data[req.ds] /\ done' = 0
      BY <1>2, <2>4 DEF ApplyChanges, Finish
    <3>2. PICK h : h = [i \in 0 .. 0 |-> data[req.ds]]
      OBVIOUS
    <3>3. /\ h \in [0 .. 0 -> Trees] /\ h[0] = data[req.ds]
          /\ 0 <= Len(merged) /\ \A i \in 1 .. 0 : FALSE
      BY SMT, <2>3, <3>2
    <3>4. CopyInOrder'
      BY <2>1, <3>1, <3>3 DEF CopyInOrder
    <3> QED
      BY <2>2, <3>4 DEF EInv
  <2>5. CASE ApplyEdit
    <3>1. /\ pc = "applying" /\ done < Len(merged) /\ done' = done + 1
          /\ Error(work, merged[done + 1]) = "Ok"
          /\ work' = Result(work, merged[done + 1])
      BY <1>2, <2>5 DEF ApplyEdit, Finish
    <3>2. PICK h \in [0 .. done -> Trees] :
            /\ h[0] = data[req.ds] /\ h[done] = work
            /\ \A i \in 1 .. done :
                 Error(h[i - 1], merged[i]) = "Ok" /\ h[i] = Result(h[i - 1], merged[i])
      BY <3>1 DEF EInv, CopyInOrder
    <3>3. PICK u \in Trees : u = work'
      <4>1. merged[done + 1] \in PreparedEdits /\ work \in Trees
        BY SMT, <2>3, <3>1 DEF IInv, TypeOK
      <4> QED
        BY <3>1, <4>1, ResultIsTree
    <3>4. PICK g : g = [i \in 0 .. done + 1 |-> IF i <= done THEN h[i] ELSE u]
      OBVIOUS
    <3>5. /\ g \in [0 .. done + 1 -> Trees] /\ g[0] = h[0] /\ g[done + 1] = u
          /\ \A i \in 0 .. done : g[i] = h[i]
      BY SMT, <2>3, <3>2, <3>3, <3>4
    <3>6. \A i \in 1 .. done + 1 :
            /\ i - 1 \in 0 .. done
            /\ \/ i \in 1 .. done /\ i \in 0 .. done
               \/ i = done + 1 /\ i - 1 = done
      BY SMT, <2>3
    <3>7. \A i \in 1 .. done + 1 :
            Error(g[i - 1], merged[i]) = "Ok" /\ g[i] = Result(g[i - 1], merged[i])
      BY <3>1, <3>2, <3>3, <3>5, <3>6
    <3>8. done + 1 <= Len(merged)
      BY SMT, <2>3, <3>1
    <3>9. CopyInOrder'
      BY <2>1, <3>1, <3>2, <3>3, <3>5, <3>7, <3>8 DEF CopyInOrder
    <3> QED
      BY <2>2, <3>9 DEF EInv
  <2> QED
    BY <2>1, <2>4, <2>5
<1> QED
  BY <1>1, <1>2

\* Every step keeps the order of the edits.
LEMMA EditsStep ==
  ASSUME IInv, EInv, [Next]_vars
  PROVE  EInv'
<1>1. CASE UNCHANGED vars
  BY <1>1, EditsFrame DEF vars
<1>2. CASE ClientLeaves
  BY <1>2, IdleKeepsEdits DEF ClientLeaves
<1>3. CASE \/ \E r \in Requests : Arrive(r)
           \/ DeleteNode \/ PrepareEdit \/ TakeLock \/ NodeExisted
  BY <1>3, PlainKeepsEdits
<1>4. CASE ProcessYangPatch \/ RefuseYangPatch
  BY <1>4, LoopKeepsEdits
<1>5. CASE ApplyChanges \/ ApplyEdit \/ ApplyRefused \/ Applied
  BY <1>5, ApplyKeepsEdits
<1>6. ASSUME NEW d \in Writable, OtherWrites(d) \/ OtherLocks(d) \/ OtherUnlocks(d)
      PROVE  EInv'
  <2>1. /\ UNCHANGED <<pc, req, merged, done, work, response>>
        /\ \/ data' = data
           \/ /\ ~(pc = "applying" /\ req.ds = d)
              /\ \E t : data' = [data EXCEPT ![d] = t]
    BY <1>6 DEF OtherWrites, OtherLocks, OtherUnlocks
  <2>2. pc = "applying" => req.ds \in Datastores
    BY DEF IInv, Control, WellFormed
  <2>3. pc = "applying" => data'[req.ds] = data[req.ds]
    BY SMT, <2>1, <2>2 DEF IInv, TypeOK
  <2> QED
    BY <2>1, <2>3, EditsFrame
<1> QED
  BY <1>1, <1>2, <1>3, <1>4, <1>5, <1>6 DEF Next, Handler

\* The edits of a request and what was merged of them stay in step.
THEOREM EditsAreInOrder == Spec => []EInv
<1>1. Init => EInv
  BY DEF Init, EInv, MergedInOrder, CopyInOrder, RefusedIsAnswered
<1>2. IInv /\ EInv /\ [Next]_vars => EInv'
  BY EditsStep
<1> QED
  BY <1>1, <1>2, Invariance, PTL DEF Spec

\* Giving an edit the operation it has.
LEMMA SameOperation ==
  ASSUME NEW e \in Edits
  PROVE  [e EXCEPT !.operation = e.operation] = e
  BY SMT DEF Edits

\* What AtomicEdits takes an edit for is what the handlers pass to sysrepo.
LEMMA AskedIsPassed ==
  ASSUME WellFormed(req)
  PROVE  /\ Plain => /\ Len(req.edits) = 1
                     /\ Atomic!Asked(req, 1) = PlainEdit(PlainOp)[1]
         /\ ~Plain => \A i \in 1 .. Len(req.edits) :
                        Atomic!Asked(req, i) = YangPatchEdit(req.edits[i])
<1>1. CASE Plain
  <2>1. Len(req.edits) = 1 /\ req.method \in {"PUT", "PATCH", "POST", "DELETE"}
    BY <1>1 DEF WellFormed, Methods, Plain
  <2>2. PICK e \in Edits : e = req.edits[1]
    BY <1>1 DEF WellFormed, Plain
  <2>3. Atomic!Operation(req, 1) = PlainOp
    BY <2>1 DEF Atomic!Operation, PlainOp
  <2>4. PICK op : op = PlainOp
    OBVIOUS
  <2>5. Atomic!Asked(req, 1) = [e EXCEPT !.operation = op]
    BY <1>1, <2>2, <2>3, <2>4 DEF Atomic!Asked
  <2>6. PlainEdit(PlainOp)[1] = [e EXCEPT !.operation = op]
    BY SMT, <2>2, <2>4 DEF PlainEdit
  <2> QED
    BY <1>1, <2>1, <2>5, <2>6
<1>2. CASE ~Plain
  <2>1. SUFFICES ASSUME NEW i \in 1 .. Len(req.edits)
                 PROVE  Atomic!Asked(req, i) = YangPatchEdit(req.edits[i])
    BY <1>2
  <2>2. PICK e \in Edits : e = req.edits[i]
    BY SMT DEF WellFormed
  <2>3. PICK op : op = CASE e.operation = "insert" -> "create"
                         [] e.operation = "move" -> "merge"
                         [] OTHER -> e.operation
    OBVIOUS
  <2>4. req.method = "YANG-PATCH" /\ Atomic!Operation(req, i) = op
    BY <1>2, <2>2, <2>3 DEF Atomic!Operation, Plain
  <2>5. Atomic!Asked(req, i) = [e EXCEPT !.operation = op]
    BY <2>2, <2>4 DEF Atomic!Asked
  <2>6. CASE e.operation \in {"insert", "move"}
    BY <2>2, <2>3, <2>5, <2>6 DEF YangPatchEdit
  <2>7. CASE e.operation \notin {"insert", "move"}
    BY <2>2, <2>3, <2>5, <2>7, SameOperation DEF YangPatchEdit
  <2> QED
    BY <2>6, <2>7
<1> QED
  BY <1>1, <1>2

\* A handler has a request.
HasRequest == pc = "idle" <=> req = NoRequest

\* Every step of the handlers keeps it so.
LEMMA RequestStep ==
  ASSUME HasRequest, [Next]_vars
  PROVE  HasRequest'
<1>1. CASE UNCHANGED <<pc, req>>
  BY <1>1 DEF HasRequest
<1>2. CASE pc' = "idle" /\ req' = NoRequest
  BY <1>2 DEF HasRequest
<1>3. CASE \E r \in Requests : Arrive(r)
  <2>1. PICK r \in Requests : Arrive(r)
    BY <1>3
  <2>2. UNCHANGED <<pc, req>> \/ (req' = r /\ pc' \in {"delete", "body"})
    BY <2>1 DEF Arrive
  <2> QED
    BY <1>1, <2>2, RequestAssumption DEF HasRequest
<1>4. CASE Handler
  <2>1. pc # "idle"
    BY <1>4 DEF Handler, DeleteNode, PrepareEdit, TakeLock, NodeExisted,
                RefuseYangPatch, ProcessYangPatch, ApplyChanges, ApplyEdit,
                ApplyRefused, Applied
  <2>2. CASE DeleteNode \/ PrepareEdit \/ TakeLock
    BY ZenonT(30), <1>2, <2>1, <2>2
       DEF DeleteNode, PrepareEdit, TakeLock, Finish, HasRequest
  <2>3. CASE NodeExisted \/ RefuseYangPatch
    BY ZenonT(30), <1>2, <2>1, <2>3
       DEF NodeExisted, RefuseYangPatch, Finish, HasRequest
  <2>4. CASE ProcessYangPatch
    BY <1>1, <1>2, <2>1, <2>4 DEF ProcessYangPatch, Finish, HasRequest
  <2>5. CASE ApplyChanges \/ ApplyEdit
    BY <1>1, <1>2, <2>1, <2>5 DEF ApplyChanges, ApplyEdit, Finish, HasRequest
  <2>6. CASE ApplyRefused \/ Applied
    BY <1>2, <2>6 DEF ApplyRefused, Applied, Finish
  <2> QED
    BY <1>4, <2>2, <2>3, <2>4, <2>5, <2>6 DEF Handler
<1> QED
  BY <1>1, <1>2, <1>3, <1>4
     DEF Next, vars, ClientLeaves, OtherWrites, OtherLocks, OtherUnlocks

\* The end of a handler without a change is a failure, if the status is one.
LEMMA EndIsFailure ==
  ASSUME IInv, HasRequest, pc # "idle", data' = data, NEW code, Finish(code),
         \/ response # 0
         \/ ~Plain /\ code \in {400, 403, 409, 500}
         \/ Plain /\ code \in Atomic!Failures(req, data[req.ds])
  PROVE  Atomic!Fail
<1>1. req # NoRequest /\ req' = NoRequest
  BY DEF HasRequest, Finish
<1>2. CASE response # 0
  BY <1>1, <1>2 DEF Finish, Respond, Atomic!Fail
<1>3. CASE response = 0
  BY SMT, <1>1, <1>3 DEF Finish, Respond, Atomic!Fail, Plain
<1> QED
  BY <1>2, <1>3

\* The errors before sysrepo is asked to apply anything.
LEMMA EarlyErrors ==
  ASSUME IInv, HasRequest, pc # "idle", pc' = "idle",
         PrepareEdit \/ TakeLock \/ NodeExisted \/ RefuseYangPatch
  PROVE  Atomic!Fail
<1>1. PICK code \in {400, 500} : Finish(code)
  BY SMT DEF PrepareEdit, TakeLock, NodeExisted, RefuseYangPatch, Refusals
<1>2. data' = data
  BY DEF PrepareEdit, TakeLock, NodeExisted, RefuseYangPatch
<1>3. code \in Atomic!Failures(req, data[req.ds]) /\ code \in {400, 403, 409, 500}
  BY SMT DEF Atomic!Failures
<1> QED
  BY SMT, <1>1, <1>2, <1>3, EndIsFailure

\* The errors of sysrepo: a conflict, or that there is nothing to delete, is
\* reported of the tree as it is.
LEMMA SysrepoErrors ==
  ASSUME IInv, HasRequest, pc # "idle", pc' = "idle",
         ApplyChanges \/ ApplyEdit \/ ApplyRefused
  PROVE  Atomic!Fail
<1>1. WellFormed(req) /\ data' = data
  BY DEF IInv, Control, ApplyChanges, ApplyEdit, ApplyRefused
<1>2. PICK err : Finish(StatusOf(req.method, err))
                 /\ (\/ err \in {"Unauthorized", "Locked", "ValidationFailed", "Failed"}
                     \/ ApplyEdit /\ err = Error(work, merged[done + 1])
                          /\ done < Len(merged) /\ err # "Ok")
  <2>1. CASE ApplyChanges
    BY <2>1 DEF ApplyChanges
  <2>2. CASE ApplyEdit
    BY <2>2 DEF ApplyEdit
  <2>3. CASE ApplyRefused
    BY <2>3 DEF ApplyRefused
  <2> QED
    BY <2>1, <2>2, <2>3
<1>3. CASE ~Plain
  <2>1. StatusOf(req.method, err) \in {400, 403, 409, 500}
    BY SMT, <1>3 DEF StatusOf, Plain
  <2> QED
    BY SMT, <1>1, <1>2, <1>3, <2>1, EndIsFailure
<1>4. CASE Plain /\ err \in {"Unauthorized", "Locked", "ValidationFailed", "Failed"}
  <2>1. StatusOf(req.method, err) \in {400, 403, 500}
    BY SMT, <1>4 DEF StatusOf
  <2>2. StatusOf(req.method, err) \in Atomic!Failures(req, data[req.ds])
    BY SMT, <2>1 DEF Atomic!Failures
  <2> QED
    BY SMT, <1>1, <1>2, <1>4, <2>2, EndIsFailure
<1>5. CASE /\ Plain /\ ApplyEdit /\ err = Error(work, merged[done + 1])
           /\ done < Len(merged) /\ err # "Ok"
  <2>1. pc = "applying" /\ merged = PlainEdit(PlainOp) /\ done \in {0, 1}
    BY <1>5 DEF ApplyEdit, IInv, PlainEdits, CopyIsCurrent
  <2>2. PlainOp \in {"create", "delete", "merge", "replace", "replaceConfig"}
    BY DEF PlainOp
  <2>3. /\ Len(merged) = 1 /\ merged[1].operation = PlainOp
        /\ merged[1].node = req.edits[1].node
    BY <1>1, <1>5, <2>1, <2>2, PlainEditFacts
  <2>4. done = 0 /\ done + 1 = 1
    BY SMT, <1>5, <2>1, <2>3
  <2>5. work = data[req.ds]
    BY <1>5, <2>1, <2>4 DEF IInv, CopyIsCurrent
  <2>6. PICK t : t = data[req.ds]
    OBVIOUS
  <2>7. \/ req.method = "POST" /\ t[req.edits[1].node] # Absent
           /\ err = "ItemAlreadyExists"
        \/ req.method = "DELETE" /\ t[req.edits[1].node] = Absent /\ err = "NotFound"
    <3>1. err = Error(t, merged[1])
      BY <1>5, <2>4, <2>5, <2>6
    <3>2. \/ PlainOp = "create" /\ t[req.edits[1].node] # Absent
             /\ err = "ItemAlreadyExists"
          \/ PlainOp = "delete" /\ t[req.edits[1].node] = Absent /\ err = "NotFound"
      BY <1>5, <2>3, <3>1 DEF Error
    <3> QED
      BY <1>1, <1>5, <3>2 DEF PlainOp, WellFormed, Methods, Plain
  <2>8. StatusOf(req.method, err) \in Atomic!Failures(req, t)
    BY SMT, <2>7 DEF StatusOf, Atomic!Failures, Atomic!Exists
  <2> QED
    BY <1>1, <1>2, <1>5, <2>6, <2>8, EndIsFailure
<1> QED
  BY <1>2, <1>3, <1>4, <1>5

\* The one edit of a plain request makes the new tree of the one that is there.
LEMMA PlainMakes ==
  ASSUME IInv, EInv, Applied, Plain
  PROVE  /\ Atomic!Makes(req, data[req.ds], work)
         /\ Atomic!AllWellMade(req)
         /\ Error(data[req.ds], merged[1]) = "Ok"
<1>1. /\ WellFormed(req) /\ pc = "applying" /\ done = Len(merged)
      /\ merged = PlainEdit(PlainOp) /\ work \in Trees
  BY DEF Applied, IInv, TypeOK, Control, PlainEdits
<1>2. Len(req.edits) = 1 /\ Atomic!Asked(req, 1) = merged[1]
  BY <1>1, AskedIsPassed
<1>3. PlainOp \in {"create", "delete", "merge", "replace", "replaceConfig"}
  BY DEF PlainOp
<1>4. done = 1
  BY <1>1, <1>3, PlainEditFacts
<1>5. PICK t \in Trees : t = data[req.ds]
  BY <1>1 DEF WellFormed, IInv, TypeOK
<1>6. Error(t, merged[1]) = "Ok" /\ work = Result(t, merged[1])
  BY <1>1, <1>4, <1>5 DEF IInv, CopyIsCurrent
<1>7. Atomic!WellMade(req, 1)
  BY <1>1 DEF EInv, RefusedIsAnswered, Atomic!WellMade
<1>8. \A i \in 1 .. 1 : i = 1 /\ i - 1 = 0
  BY SMT
<1>9. PICK trail : trail = [i \in 0 .. 1 |-> IF i = 0 THEN t ELSE work]
  OBVIOUS
<1>10. trail \in [0 .. 1 -> Trees] /\ trail[0] = t /\ trail[1] = work
  BY SMT, <1>1, <1>5, <1>9
<1>11. Atomic!Makes(req, t, work)
  <2>1. ASSUME NEW i \in 1 .. 1
        PROVE  /\ Atomic!WellMade(req, i)
               /\ Error(trail[i - 1], Atomic!Asked(req, i)) = "Ok"
               /\ trail[i] = Result(trail[i - 1], Atomic!Asked(req, i))
    <3>1. i = 1 /\ i - 1 = 0
      BY <1>8
    <3> QED
      BY <1>2, <1>6, <1>7, <1>10, <3>1
  <2> QED
    BY <1>2, <1>10, <2>1 DEF Atomic!Makes
<1>12. Atomic!AllWellMade(req)
  BY <1>2, <1>7, <1>8 DEF Atomic!AllWellMade
<1> QED
  BY <1>5, <1>6, <1>11, <1>12

\* The well-formed edits of a YANG patch, in their order, make the new tree of
\* the one that is there.
LEMMA PatchMakes ==
  ASSUME IInv, EInv, Applied, ~Plain
  PROVE  Atomic!Makes(req, data[req.ds], work)
<1>1. WellFormed(req) /\ pc = "applying" /\ done = Len(merged)
  BY DEF Applied, IInv, Control
<1>2. PICK n \in Nat : n = Len(req.edits)
  BY SMT, <1>1 DEF WellFormed
<1>3. PICK k \in Nat : k = Len(merged)
  BY SMT DEF IInv, TypeOK
<1>4. PICK c \in [0 .. n -> 0 .. k] :
        /\ c[0] = 0 /\ c[n] = k
        /\ \A i \in 1 .. n :
             IF req.edits[i].ok
             THEN c[i] = c[i - 1] + 1 /\ merged[c[i]] = YangPatchEdit(req.edits[i])
             ELSE c[i] = c[i - 1]
  BY <1>1, <1>2, <1>3 DEF EInv, MergedInOrder, Counted
<1>5. PICK h \in [0 .. k -> Trees] :
        /\ h[0] = data[req.ds] /\ h[k] = work
        /\ \A i \in 1 .. k :
             Error(h[i - 1], merged[i]) = "Ok" /\ h[i] = Result(h[i - 1], merged[i])
  BY <1>1, <1>3 DEF EInv, CopyInOrder
<1>6. PICK trail : trail = [i \in 0 .. n |-> h[c[i]]]
  OBVIOUS
<1>7. /\ trail \in [0 .. n -> Trees]
      /\ trail[0] = data[req.ds] /\ trail[n] = work
      /\ \A i \in 0 .. n : trail[i] = h[c[i]]
  BY SMT, <1>4, <1>5, <1>6
<1>8. ASSUME NEW i \in 1 .. n
      PROVE  IF Atomic!WellMade(req, i)
             THEN /\ Error(trail[i - 1], Atomic!Asked(req, i)) = "Ok"
                  /\ trail[i] = Result(trail[i - 1], Atomic!Asked(req, i))
             ELSE trail[i] = trail[i - 1]
  <2>1. i \in 0 .. n /\ i - 1 \in 0 .. n
    BY SMT
  <2>2. trail[i] = h[c[i]] /\ trail[i - 1] = h[c[i - 1]]
    BY <1>7, <2>1
  <2>3. Atomic!WellMade(req, i) <=> req.edits[i].ok
    BY DEF Atomic!WellMade, Plain
  <2>4. Atomic!Asked(req, i) = YangPatchEdit(req.edits[i])
    BY <1>1, <1>2, AskedIsPassed
  <2>5. CASE req.edits[i].ok
    <3>1. c[i] = c[i - 1] + 1 /\ merged[c[i]] = Atomic!Asked(req, i)
      BY <1>4, <2>4, <2>5
    <3>2. c[i] \in 1 .. k /\ c[i] - 1 = c[i - 1]
      <4>1. c[i] \in 0 .. k /\ c[i - 1] \in 0 .. k
        BY <2>1
      <4> QED
        BY ONLY SMTT(30), k \in Nat, <3>1, <4>1
    <3>3. /\ Error(h[c[i] - 1], merged[c[i]]) = "Ok"
          /\ h[c[i]] = Result(h[c[i] - 1], merged[c[i]])
      BY <1>5, <3>2
    <3> QED
      BY <2>2, <2>3, <2>5, <3>1, <3>2, <3>3
  <2>6. CASE ~req.edits[i].ok
    BY <1>4, <2>2, <2>3, <2>6
  <2> QED
    BY <2>5, <2>6
<1> QED
  BY <1>2, <1>7, <1>8 DEF Atomic!Makes

\* The status of a request that was applied is true of the tree it was
\* applied to.
LEMMA AnswerIsTrue ==
  ASSUME IInv, EInv, Applied
  PROVE  /\ response' \in Atomic!Answers(req, data[req.ds])
         /\ response # 0 => response' = response
         /\ Atomic!Applicable(req, data[req.ds])
<1>1. /\ WellFormed(req) /\ pc = "applying"
      /\ response' = IF response = 0 THEN Success ELSE response
  BY DEF Applied, IInv, Control, Finish, Respond
<1>2. CASE ~Plain
  <2>1. req.method = "YANG-PATCH" /\ Success = 200
    BY <1>2 DEF Plain, Success
  <2>2. response = 0 => Atomic!AllWellMade(req)
    BY <1>1, <1>2 DEF EInv, RefusedIsAnswered, Atomic!AllWellMade, Atomic!WellMade
  <2>3. response # 0 => response \in {400, 500} /\ ~Atomic!AllWellMade(req)
    BY SMT, <1>1, <1>2, <2>1
       DEF IInv, AnsweredOnce, Refusals, EInv, RefusedIsAnswered, Atomic!AllWellMade,
           Atomic!WellMade
  <2> QED
    BY SMT, <1>1, <2>1, <2>2, <2>3 DEF Atomic!Answers, Atomic!Applicable
<1>3. CASE Plain
  <2>1. response = 0 /\ response' = Success
    BY <1>1, <1>3 DEF IInv, AnsweredOnce
  <2>2. PICK t : t = data[req.ds]
    OBVIOUS
  <2>3. req.method \in {"PUT", "PATCH", "POST", "DELETE"} /\ req.root \in BOOLEAN
    BY <1>1, <1>3 DEF WellFormed, Methods, Plain
  <2>4. CASE req.method = "PUT" /\ ~req.root /\ req.ds # Candidate
    <3>1. nodeExisted = Atomic!Exists(req, t)
      BY <1>1, <2>2, <2>4 DEF IInv, CheckIsCurrent, Checked, Atomic!Exists
    <3> QED
      BY SMT, <2>1, <2>2, <2>4, <3>1, PlainMakes, <1>3
         DEF Atomic!Answers, Atomic!Applicable, Success
  <2>5. CASE req.method = "PATCH" /\ ~req.root /\ req.ds # Candidate
    <3>1. Atomic!Exists(req, t)
      BY <1>1, <2>2, <2>5 DEF IInv, CheckIsCurrent, Checked, Atomic!Exists
    <3> QED
      BY SMT, <2>1, <2>2, <2>5, <3>1, PlainMakes, <1>3
         DEF Atomic!Answers, Atomic!Applicable, Success
  <2>6. CASE req.method \in {"POST", "DELETE"} \/ req.root \/ req.ds = Candidate
    BY SMT, <1>1, <1>3, <2>1, <2>2, <2>3, <2>6, PlainMakes
       DEF Atomic!Answers, Atomic!Applicable, Success, WellFormed
  <2> QED
    BY <2>3, <2>4, <2>5, <2>6
<1> QED
  BY <1>2, <1>3

\* applyChanges() is where a request takes effect.
LEMMA AppliedCommits ==
  ASSUME IInv, EInv, HasRequest, Applied
  PROVE  Atomic!Commit
<1>1. /\ req # NoRequest /\ req' = NoRequest /\ req.ds \in Datastores
      /\ data' = [data EXCEPT ![req.ds] = work]
  BY DEF HasRequest, Applied, Finish, IInv, Control, WellFormed
<1>2. data'[req.ds] = work
  BY <1>1 DEF IInv, TypeOK
<1>3. Atomic!Makes(req, data[req.ds], work)
  BY PlainMakes, PatchMakes
<1> QED
  BY <1>1, <1>2, <1>3, AnswerIsTrue DEF Atomic!Commit

\* A YANG patch without an edit to apply has been answered, or is empty.
LEMMA EmptyPatchEnds ==
  ASSUME IInv, EInv, HasRequest, ProcessYangPatch, pc' = "idle"
  PROVE  Atomic!Fail \/ Atomic!Commit
<1>1. /\ pc = "body" /\ ~Plain /\ WellFormed(req) /\ merged = << >> /\ Finish(200)
      /\ ~(done < Len(req.edits)) /\ data' = data
  BY DEF ProcessYangPatch, IInv, Control, Plain
<1>2. CASE response # 0
  BY <1>1, <1>2, EndIsFailure
<1>3. CASE response = 0
  <2>1. PICK n \in Nat : n = Len(req.edits)
    BY SMT, <1>1 DEF WellFormed
  <2>2. done = n /\ Len(merged) = done
    BY SMT, <1>1, <1>3, <2>1
       DEF IInv, TypeOK, NoEditMissing, Plain
  <2>3. n = 0
    BY SMT, <1>1, <2>2
  <2>4. req.ds \in Datastores /\ data[req.ds] \in Trees
    BY <1>1 DEF WellFormed, IInv, TypeOK
  <2>5. PICK trail : trail = [i \in 0 .. 0 |-> data[req.ds]]
    OBVIOUS
  <2>6. /\ trail \in [0 .. 0 -> Trees] /\ trail[0] = data[req.ds]
        /\ \A i \in 1 .. 0 : FALSE
    BY SMT, <2>4, <2>5
  <2>7. Atomic!Makes(req, data[req.ds], data[req.ds]) /\ Atomic!AllWellMade(req)
    BY <2>1, <2>3, <2>6 DEF Atomic!Makes, Atomic!AllWellMade
  <2>8. data' = [data EXCEPT ![req.ds] = data'[req.ds]]
    BY SMT, <1>1, <2>4 DEF IInv, TypeOK
  <2>9. req # NoRequest /\ req' = NoRequest /\ response' = 200
    BY <1>1, <1>3 DEF HasRequest, Finish, Respond
  <2>10. req.method = "YANG-PATCH"
    BY <1>1 DEF Plain
  <2>11. /\ Atomic!Applicable(req, data[req.ds])
         /\ 200 \in Atomic!Answers(req, data[req.ds])
    BY ZenonT(30), <2>7, <2>10 DEF Atomic!Applicable, Atomic!Answers
  <2> QED
    BY <1>1, <1>3, <2>7, <2>8, <2>9, <2>11 DEF Atomic!Commit
<1> QED
  BY <1>2, <1>3

\* Every step of DataEdits is a step of AtomicEdits, or none.
LEMMA StepRefines ==
  ASSUME IInv, EInv, HasRequest, [Next]_vars
  PROVE  [Atomic!Next]_(Atomic!vars)
<1>1. CASE UNCHANGED <<data, req, response>>
  BY <1>1 DEF Atomic!vars
<1>2. ASSUME NEW r \in Requests, Arrive(r)
      PROVE  Atomic!Accept \/ Atomic!Refuse
  <2>1. req = NoRequest
    BY <1>2 DEF Arrive, HasRequest
  <2> QED
    BY SMT, <1>2, <2>1 DEF Arrive, Atomic!Accept, Atomic!Refuse
<1>3. CASE ClientLeaves
  <2>1. req # NoRequest
    BY <1>3 DEF ClientLeaves, HasRequest
  <2> QED
    BY <1>3, <2>1 DEF ClientLeaves, Atomic!Next, Atomic!Fail
<1>4. CASE DeleteNode
  BY <1>1, <1>4 DEF DeleteNode
<1>5. CASE PrepareEdit \/ TakeLock \/ NodeExisted \/ RefuseYangPatch
  <2>1. CASE pc' = "idle"
    <3>1. pc # "idle"
      BY <1>5 DEF PrepareEdit, TakeLock, NodeExisted, RefuseYangPatch
    <3> QED
      BY <1>5, <2>1, <3>1, EarlyErrors DEF Atomic!Next
  <2>2. CASE pc' # "idle"
    BY <1>1, <1>5, <2>2 DEF PrepareEdit, TakeLock, NodeExisted, RefuseYangPatch, Finish
  <2> QED
    BY <2>1, <2>2
<1>6. CASE ProcessYangPatch
  <2>1. CASE pc' = "idle"
    BY <1>6, <2>1, EmptyPatchEnds DEF Atomic!Next
  <2>2. CASE pc' # "idle" /\ UNCHANGED response
    BY <1>1, <1>6, <2>2 DEF ProcessYangPatch, Finish
  <2>3. CASE pc' # "idle" /\ response' # response
    <3>1. /\ req.method = "YANG-PATCH" /\ UNCHANGED <<data, req>> /\ pc = "body"
          /\ done < Len(req.edits) /\ ~req.edits[done + 1].ok
          /\ response = 0 /\ response' \in {400, 500} /\ WellFormed(req)
      <4>1. /\ req.method = "YANG-PATCH" /\ UNCHANGED <<data, req>> /\ pc = "body"
            /\ done < Len(req.edits) /\ ~req.edits[done + 1].ok
            /\ \E code \in Refusals : Respond(code)
        BY <1>6, <2>3 DEF ProcessYangPatch, Finish
      <4>2. response = 0 /\ response' \in {400, 500}
        BY SMT, <2>3, <4>1 DEF Respond, Refusals
      <4> QED
        BY <4>1, <4>2 DEF IInv, Control
    <3>2. done + 1 \in 1 .. Len(req.edits)
      BY SMT, <3>1 DEF IInv, TypeOK, WellFormed
    <3>3. ~Atomic!AllWellMade(req) /\ req # NoRequest
      BY SMT, <3>1, <3>2 DEF Atomic!AllWellMade, Atomic!WellMade, HasRequest
    <3> QED
      BY <3>1, <3>3 DEF Atomic!Next, Atomic!Complain
  <2> QED
    BY <2>1, <2>2, <2>3
<1>7. CASE ApplyChanges \/ ApplyEdit \/ ApplyRefused
  <2>1. CASE pc' = "idle"
    <3>1. pc # "idle"
      BY <1>7 DEF ApplyChanges, ApplyEdit, ApplyRefused
    <3> QED
      BY <1>7, <2>1, <3>1, SysrepoErrors DEF Atomic!Next
  <2>2. CASE pc' # "idle"
    BY <1>1, <1>7, <2>2 DEF ApplyChanges, ApplyEdit, ApplyRefused, Finish
  <2> QED
    BY <2>1, <2>2
<1>8. CASE Applied
  BY <1>8, AppliedCommits DEF Atomic!Next
<1>9. ASSUME NEW d \in Writable, OtherWrites(d) \/ OtherLocks(d) \/ OtherUnlocks(d)
      PROVE  Atomic!Other \/ UNCHANGED <<data, req, response>>
  <2>1. CASE OtherWrites(d)
    <3>1. d \in Datastores
      BY DEF Writable, Datastores
    <3>2. data[d] \in Trees
      BY <3>1 DEF IInv, TypeOK
    <3>3. PICK t \in Trees : data' = [data EXCEPT ![d] = t]
      BY <2>1, <3>2, PutIsTree DEF OtherWrites
    <3> QED
      BY <2>1, <3>1, <3>3 DEF OtherWrites, Atomic!Other
  <2>2. CASE OtherLocks(d) \/ OtherUnlocks(d)
    BY <2>2 DEF OtherLocks, OtherUnlocks
  <2> QED
    BY <1>9, <2>1, <2>2
<1>10. CASE UNCHANGED vars
  BY <1>1, <1>10 DEF vars
<1> QED
  BY <1>1, <1>2, <1>3, <1>4, <1>5, <1>6, <1>7, <1>8, <1>9, <1>10
     DEF Next, Handler, Atomic!Next

\* The handlers implement AtomicEdits: every request is applied as a whole to
\* the tree that is there at that moment, or not at all, and its status is true
\* of that tree, whatever other clients of sysrepo do meanwhile.
THEOREM EditsAreAtomic == Spec => ImplementsAtomicEdits
<1>1. Init => Atomic!Init /\ HasRequest
  <2>1. Empty \in Trees
    BY DEF Empty, Trees
  <2> QED
    BY <2>1 DEF Init, Atomic!Init, HasRequest
<1>2. HasRequest /\ [Next]_vars => HasRequest'
  BY RequestStep
<1>3. IInv /\ EInv /\ HasRequest /\ [Next]_vars => [Atomic!Next]_(Atomic!vars)
  BY StepRefines
<1> QED
  BY <1>1, <1>2, <1>3, Invariance, EditsAreInOrder, PTL
     DEF Spec, ImplementsAtomicEdits, Atomic!Spec
=============================================================================
