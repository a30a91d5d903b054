--------------------------- MODULE RequestsProofs ---------------------------
(***************************************************************************)
(* Proofs about Requests, for every schema, every request and every NACM   *)
(* configuration.  IInv, the inductive invariant, is in HandlersProofs.    *)
(***************************************************************************)
EXTENDS HandlersProofs

\* Zenon does the first-order leaves; a leaf that reasons about numbers,
\* functions, records or sequences cites SMT.
USE Zenon

-----------------------------------------------------------------------------
(* Edits *)

\* processPost() and processPutOrPlainPatch()
LEMMA PlainEditBranch ==
  ASSUME RequestFacts, Untouched, encoding.code = 0, UNCHANGED <<request, user>>,
         asked.type \in PlainEdits, ~ReadOnly, user # NoUser, faulted = FALSE, PlainEdit
  PROVE  stage' = "done" /\ Settled' /\ faulted' = FALSE
<1>0. asked.type \in EditTypes /\ user' = user
  BY DEF PlainEdits, EditTypes
<1>1. ASSUME NEW s \in Errors, Refused(s) PROVE stage' = "done" /\ Settled'
  BY <1>1, Rejecting DEF Refused
<1>2. CASE \E s \in {400, 403, 409, 500} : Refused(s) /\ UNCHANGED faulted
  BY SMT, <1>1, <1>2 DEF Errors
<1>3. CASE asked.node = NoNode /\ asked.type # "CreateChildren" /\ EditDatastore
  <2>1. req.method # "DELETE"
    BY <1>0, EditRequest DEF PlainEdits
  <2>2. Fits(user', Effect("edit", Datastore, {NoNode}))
    BY <1>0, <1>3, <2>1, EditFitsRequest DEF Nodes
  <2>3. effects' = Append(effects, Effect("edit", Datastore, {NoNode})) /\ faulted' = faulted
    BY <1>3 DEF EditDatastore, Edit
  <2>4. PICK s \in {201, 204} : Bare(s)
    BY <1>3 DEF EditDatastore
  <2>5. s \in {200, 201, 204, 500}
    OBVIOUS
  <2>6. PICK e : e = Effect("edit", Datastore, {NoNode})
    OBVIOUS
  <2>7. effects' = Append(effects, e) /\ Fits(user', e)
    BY <2>2, <2>3, <2>6
  <2>8. stage' = "done" /\ Settled'
    BY SMT, <2>4, <2>5, <2>7, Acting
  <2> QED
    BY <2>3, <2>8
<1>4. ASSUME asked.node # NoNode \/ asked.type = "CreateChildren",
             NEW payload \in Payloads,
             createEditForPutAndPatch(payload), EditNodes(payload)
      PROVE  stage' = "done" /\ Settled' /\ faulted' = FALSE
  <2>1. payload[1] \in SchemaNodes
    BY PayloadNodes
  <2>2. faulted' = FALSE
    BY <1>4, <2>1, PointExists DEF EditNodes
  <2>3. CASE yangInsert(payload[1]) # 0
    <3>1. yangInsert(payload[1]) = 400
      BY SMT, <2>3 DEF yangInsert
    <3>2. Refused(400)
      BY SMT, <1>4, <2>3, <3>1 DEF EditNodes
    <3> QED
      BY SMT, <1>1, <2>2, <3>2 DEF Errors
  <2>4. CASE yangInsert(payload[1]) = 0
    <3>1. PICK s \in {201, 204} : InBody(s) \/ Bare(s)
      BY SMT, <1>4, <2>4 DEF EditNodes
    <3>2. effects' = Append(effects, Effect("edit", Datastore, Range(payload)))
      BY <1>4, <2>4 DEF EditNodes, Edit
    <3>3. Fits(user', Effect("edit", Datastore, Range(payload)))
      BY <1>0, <1>4, PayloadFits
    <3> QED
      BY SMT, <2>2, <3>1, <3>2, <3>3, Acting
  <2> QED
    BY <2>3, <2>4
<1>5. \/ \E s \in {400, 403, 409, 500} : Refused(s) /\ UNCHANGED faulted
      \/ asked.node = NoNode /\ asked.type # "CreateChildren" /\ EditDatastore
      \/ /\ asked.node # NoNode \/ asked.type = "CreateChildren"
         /\ \E payload \in Payloads :
              createEditForPutAndPatch(payload) /\ EditNodes(payload)
  <2>1. CASE asked.node = NoNode /\ asked.type # "CreateChildren"
    BY SMT, <2>1 DEF PlainEdit
  <2>2. CASE ~(asked.node = NoNode /\ asked.type # "CreateChildren")
    BY SMT, <2>2 DEF PlainEdit
  <2> QED
    BY <2>1, <2>2
<1>6. CASE /\ asked.node # NoNode \/ asked.type = "CreateChildren"
           /\ \E payload \in Payloads :
                createEditForPutAndPatch(payload) /\ EditNodes(payload)
  <2>1. PICK payload \in Payloads :
          createEditForPutAndPatch(payload) /\ EditNodes(payload)
    BY <1>6
  <2> QED
    BY <1>4, <1>6, <2>1
<1> QED
  BY <1>2, <1>3, <1>5, <1>6

\* processYangPatch(), which may answer twice.
LEMMA YangPatchBranch ==
  ASSUME RequestFacts, Untouched, encoding.code = 0, UNCHANGED <<request, user>>,
         AsksYangPatch, ~ReadOnly, user # NoUser, YangPatch
  PROVE  stage' = "done" /\ Settled'
<1>0. /\ asked.type = "MergeData" /\ asked.type \in EditTypes
      /\ effects = <<>> /\ answers = 0
  BY DEF AsksYangPatch, EditTypes, Untouched
<1>1. CASE \E s \in {400, 500} : Refused(s)
  BY SMT, <1>1, Rejecting DEF Refused, Errors
<1>2. CASE UNCHANGED effects \/ Edit({asked.node})
  <2>1. Fits(user', Effect("edit", Datastore, {asked.node}))
    <3>1. /\ req.method # "DELETE" /\ asked.node \in Nodes
          /\ asked.node # NoNode => IsData(asked.node)
      BY <1>0, EditRequest
    <3> QED
      BY <1>0, <3>1, EditFitsRequest
  <2>2. \A i \in DOMAIN effects' : Fits(user', effects'[i])
    <3>1. PICK e : e = Effect("edit", Datastore, {asked.node})
      OBVIOUS
    <3>2. effects' = <<>> \/ effects' = <<e>>
      BY SMT, <1>0, <1>2, <3>1 DEF Edit
    <3> QED
      BY SMT, <2>1, <3>1, <3>2
  <2>3. ASSUME answer'.status \in Statuses \ {406, 415},
               answer'.format = encoding.response, answer'.allow \subseteq Methods,
               answer'.locations = {}, answer'.read = <<>>, answers' \in Nat
        PROVE  Settled'
    <3>1. req' = req /\ asked' = asked /\ encoding' = encoding /\ AsksYangPatch'
      BY DEF request, AsksYangPatch
    <3>2. AnsweredOnce' /\ StatusTellsExecution'
      BY <3>1 DEF AnsweredOnce, StatusTellsExecution
    <3>3. LocationsResolve' /\ ReadFollows'
      BY <2>3 DEF LocationsResolve, ReadFollows
    <3>4. FormatFollows'
      BY <2>3, <3>1 DEF FormatFollows
    <3>5. (\A i \in DOMAIN effects : Fits(user, effects[i]))'
      BY <2>2, <3>1 DEF Fits, uri
    <3>6. answer'.status \in Statuses /\ answer'.format \in AnswerFormats
          /\ answer'.allow \subseteq Methods
      BY SMT, <2>3 DEF AnswerFormats, RequestFacts
    <3> QED
      BY <2>3, <3>2, <3>3, <3>4, <3>5, <3>6 DEF Settled
  <2>4. CASE InBody(200)
    <3>1. Said(200, encoding.response)
      BY <2>4, Responses
    <3> QED
      BY SMT, <2>3, <3>1 DEF Said, Statuses
  <2>5. ASSUME NEW s \in {400, 403, 409, 500}, NEW x,
               x = [NoAnswer EXCEPT !.status = s, !.format = encoding.response],
               answer' = x, answers' = answers + 2, stage' = "done"
        PROVE  stage' = "done" /\ Settled'
    <3>1. /\ x.status = s /\ x.format = encoding.response /\ x.allow = {}
          /\ x.locations = {} /\ x.read = <<>>
      BY SMT, <2>5 DEF NoAnswer
    <3>2. /\ answer'.status \in Statuses \ {406, 415}
          /\ answer'.format = encoding.response /\ answer'.allow \subseteq Methods
          /\ answer'.locations = {} /\ answer'.read = <<>>
      BY SMT, <2>5, <3>1 DEF Statuses
    <3>3. Settled'
      BY SMT, <1>0, <2>3, <2>5, <3>2
    <3> QED
      BY <2>5, <3>3
  <2> QED
    BY SMT, <1>1, <2>4, <2>5 DEF YangPatch
<1> QED
  BY SMT, <1>1, <1>2 DEF YangPatch

\* The payload of an edit.
LEMMA EditPayloadStep ==
  ASSUME RequestFacts, Core, EditPayload
  PROVE  Core' /\ UNCHANGED <<request, nacm>>
<1>0. /\ stage = "payload" /\ asked.type \in PlainEdits
      /\ UNCHANGED <<request, nacm, alive, user, parentExists>>
  BY DEF EditPayload, PlainEdits
<1>1. Untouched /\ StageInv /\ faulted = FALSE
  BY <1>0 DEF Core, Pending, Stages
<1>2. user # NoUser /\ encoding.code = 0 /\ ~ReadOnly
  BY <1>0, <1>1 DEF StageInv
<1>3. (alive \in BOOLEAN)' /\ (parentExists \in BOOLEAN)' /\ (user \in Users)'
  BY <1>0, <1>1 DEF StageInv, Users
<1>4. CASE AsksYangPatch
  <2>1. YangPatch /\ faulted' = faulted
    BY SMT, <1>4 DEF EditPayload, YangPatch
  <2>2. stage' = "done" /\ Settled'
    BY <1>0, <1>1, <1>2, <1>4, <2>1, YangPatchBranch
  <2> QED
    BY <1>0, <1>1, <1>3, <2>1, <2>2, CoreDone
<1>5. CASE ~AsksYangPatch
  <2>1. PlainEdit
    BY <1>5 DEF EditPayload
  <2>2. stage' = "done" /\ Settled' /\ faulted' = FALSE
    BY <1>0, <1>1, <1>2, <2>1, PlainEditBranch
  <2> QED
    BY <1>0, <1>3, <2>2, CoreDone
<1> QED
  BY <1>4, <1>5

-----------------------------------------------------------------------------
(* RPCs and actions, timers, the client *)

\* The first half of processActionOrRPC().
LEMMA CheckOperationStep ==
  ASSUME RequestFacts, Core, CheckOperation
  PROVE  Core' /\ UNCHANGED <<request, nacm>>
<1>0. /\ stage = "payload" /\ asked.type \in OperationTypes
      /\ UNCHANGED <<request, nacm, alive, user, parentExists, effects, faulted>>
  BY DEF CheckOperation, OperationTypes, NoEffect
<1>1. Untouched /\ StageInv /\ faulted = FALSE
  BY <1>0 DEF Core, Pending, Stages
<1>2. encoding.code = 0
  BY <1>0, <1>1 DEF StageInv
<1>3. (alive \in BOOLEAN)' /\ (parentExists \in BOOLEAN)' /\ (user \in Users)' /\ faulted' = FALSE
  BY <1>0, <1>1 DEF StageInv, Users
<1>4. CASE stage' = "operation" /\ Proceed
  <2>1. StageInv'
    BY <1>0, <1>1, <1>4 DEF StageInv, Stages, request
  <2> QED
    BY <1>0, <1>1, <1>4, <2>1, CoreMove DEF Proceed
<1>5. CASE \E s \in Errors : rejectWithError(s)
  <2>1. stage' = "done" /\ Settled'
    BY <1>0, <1>1, <1>2, <1>5, Rejecting
  <2> QED
    BY <1>0, <1>3, <2>1, CoreDone
<1> QED
  BY SMT, <1>4, <1>5 DEF CheckOperation, Errors

\* sendRPC() and processInternalRPC() refuse without an effect, or run the
\* operation once.
LEMMA OperationOutcome ==
  ASSUME SendOperation
  PROVE  \/ \E s \in Errors : rejectWithError(s) /\ NoEffect
         \/ /\ Carry(Effect("exec", "operational", {asked.node}))
            /\ NacmPermits(user, Exec(asked.node))
            /\ \E s \in {200, 204, 500} : InBody(s) \/ Bare(s) \/ rejectWithError(s)
<1>1. CASE (\E s \in {400, 500} : rejectWithError(s)) /\ NoEffect
  BY SMT, <1>1 DEF Errors
<1>2. CASE sendRPC
  BY SMT, <1>2 DEF sendRPC, Done, Errors
<1>3. CASE processInternalRPC
  <2>1. PICK permitted, valid, accepted \in BOOLEAN :
          /\ permitted => NacmPermits(user, Exec(asked.node))
          /\ IF ~permitted THEN rejectWithError(403) /\ NoEffect
             ELSE IF Schema[asked.node].name \notin HandledRPCs
             THEN rejectWithError(501) /\ NoEffect
             ELSE IF ~valid
             THEN (\E s \in {400, 500} : rejectWithError(s)) /\ NoEffect
             ELSE IF ~accepted
             THEN (\E s \in {400, 403, 404, 409, 500} : rejectWithError(s)) /\ NoEffect
             ELSE \E s \in {200, 204} : Done(s)
    BY <1>3 DEF processInternalRPC
  <2>2. CASE permitted /\ \E s \in {200, 204} : Done(s)
    BY SMT, <2>1, <2>2 DEF Done
  <2> QED
    BY SMT, <2>1, <2>2 DEF Errors
<1> QED
  BY SMT, <1>1, <1>2, <1>3 DEF SendOperation

\* The second half.
LEMMA SendOperationStep ==
  ASSUME RequestFacts, Core, SendOperation
  PROVE  Core' /\ UNCHANGED <<request, nacm>>
<1>0. /\ stage = "operation"
      /\ UNCHANGED <<request, nacm, alive, user, parentExists>>
  BY DEF SendOperation
<1>1. Untouched /\ StageInv /\ faulted = FALSE
  BY <1>0 DEF Core, Pending, Stages
<1>2. encoding.code = 0 /\ user # NoUser /\ asked.type \in OperationTypes
  BY <1>0, <1>1 DEF StageInv
<1>3. (alive \in BOOLEAN)' /\ (parentExists \in BOOLEAN)' /\ (user \in Users)'
  BY <1>0, <1>1 DEF StageInv, Users
<1>4. CASE \E s \in Errors : rejectWithError(s) /\ NoEffect
  <2>1. stage' = "done" /\ Settled' /\ faulted' = faulted
    BY <1>0, <1>1, <1>2, <1>4, Rejecting DEF NoEffect
  <2> QED
    BY <1>0, <1>1, <1>3, <2>1, CoreDone
<1>5. CASE /\ Carry(Effect("exec", "operational", {asked.node}))
           /\ \E s \in {200, 204, 500} : InBody(s) \/ Bare(s) \/ rejectWithError(s)
  <2>1. PICK e : e = Effect("exec", "operational", {asked.node})
    OBVIOUS
  <2>2. effects' = Append(effects, e) /\ Fits(user', e) /\ faulted' = faulted
    <3>1. Fits(user, e)
      BY <1>2, <2>1, ExecFitsRequest
    <3>2. effects' = Append(effects, e) /\ user' = user /\ faulted' = faulted
      BY SMT, <1>0, <1>5, <2>1 DEF Carry
    <3> QED
      BY <3>1, <3>2, Zenon
  <2>3. PICK s \in {200, 201, 204, 500} : InBody(s) \/ Bare(s) \/ rejectWithError(s)
    BY SMT, <1>5
  <2>4. stage' = "done" /\ Settled'
    BY SMT, <1>0, <1>1, <1>2, <2>2, <2>3, Acting
  <2> QED
    BY <1>0, <1>1, <1>3, <2>2, <2>4, CoreDone
<1> QED
  BY <1>4, <1>5, OperationOutcome

\* The delayed rejection, the client, the data of an action.
LEMMA OtherStep ==
  ASSUME RequestFacts, Core, TimerExpires \/ DelayedReject \/ ClientCloses \/ DataChanges
  PROVE  Core' /\ UNCHANGED <<request, nacm>>
<1>1. StageInv /\ faulted = FALSE /\ Settled /\ (stage \in Pending => Untouched)
  BY DEF Core
<1>2. CASE TimerExpires
  <2>1. Untouched
    BY <1>1, <1>2 DEF TimerExpires, Pending, Stages
  <2>2. StageInv'
    BY <1>1, <1>2 DEF TimerExpires, StageInv, Stages, request
  <2> QED
    BY <1>1, <1>2, <2>1, <2>2, CoreMove DEF TimerExpires
<1>3. CASE DelayedReject
  <2>0. /\ stage = "expired" /\ Reject401
        /\ UNCHANGED <<request, nacm, alive, user, parentExists, effects, faulted>>
    BY <1>3 DEF DelayedReject
  <2>1. Untouched
    BY <1>1, <2>0 DEF Pending, Stages
  <2>2. stage' = "done" /\ Settled'
    <3>1. CASE req.route = "restconf"
      <4>1. encoding.code = 0
        BY <1>1, <2>0, <3>1 DEF StageInv
      <4> QED
        BY SMT, <2>0, <2>1, <3>1, <4>1, Rejecting DEF Reject401, Errors
    <3>2. CASE req.route # "restconf"
      BY SMT, <2>0, <2>1, <3>2, PlainAnswer DEF Reject401, Statuses
    <3> QED
      BY <3>1, <3>2
  <2>3. (alive \in BOOLEAN)' /\ (parentExists \in BOOLEAN)' /\ (user \in Users)'
    BY <1>1, <2>0 DEF StageInv, Users
  <2> QED
    BY <1>1, <2>0, <2>2, <2>3, CoreDone
<1>4. CASE ClientCloses
  <2>1. Settled' /\ faulted' = FALSE
    BY <1>1, <1>4, SettledFrame DEF ClientCloses
  <2>2. StageInv'
    BY <1>1, <1>4 DEF ClientCloses, StageInv, Stages, request
  <2>3. (stage \in Pending => Untouched)'
    BY <1>1, <1>4 DEF ClientCloses, Pending, Stages, Untouched
  <2> QED
    BY <1>4, <2>1, <2>2, <2>3 DEF Core, ClientCloses
<1>5. CASE DataChanges
  <2>1. Settled' /\ faulted' = FALSE
    BY <1>1, <1>5, SettledFrame DEF DataChanges
  <2>2. StageInv'
    BY <1>1, <1>5 DEF DataChanges, StageInv, Stages, request, ReadOnly
  <2>3. (stage \in Pending => Untouched)'
    BY <1>1, <1>5 DEF DataChanges, Pending, Stages, Untouched
  <2> QED
    BY <1>5, <2>1, <2>2, <2>3 DEF Core, DataChanges
<1> QED
  BY <1>2, <1>3, <1>4, <1>5

-----------------------------------------------------------------------------
(* The inductive invariant *)

\* Core does not depend on the NACM configuration.
LEMMA CoreFrame ==
  ASSUME Core,
         UNCHANGED <<request, stage, alive, user, answer, answers, parentExists,
                     effects, faulted>>
  PROVE  Core'
<1>1. StageInv /\ faulted = FALSE /\ Settled /\ (stage \in Pending => Untouched)
  BY DEF Core
<1>2. Settled' /\ faulted' = FALSE
  BY <1>1, SettledFrame
<1>3. StageInv'
  BY <1>1 DEF StageInv, request, ReadOnly
<1>4. (stage \in Pending => Untouched)'
  BY <1>1 DEF Untouched
<1> QED
  BY <1>2, <1>3, <1>4 DEF Core

\* The rules change, and the callback looks at them.
LEMMA NacmStep ==
  ASSUME NacmInv, Core, NacmCommit \/ NacmCallback
  PROVE  NacmInv' /\ Core' /\ UNCHANGED request
<1>1. Core' /\ UNCHANGED request
  BY CoreFrame DEF NacmCommit, NacmCallback
<1>2. CASE NacmCommit
  <2>1. coming \in Seq(NacmConfigs) /\ coming # <<>>
    BY <1>2 DEF NacmInv, NacmCommit
  <2>2. Head(coming) \in NacmConfigs /\ Tail(coming) \in Seq(NacmConfigs)
    BY SMT, <2>1
  <2>3. changes' \in Nat /\ changes' # 0
    BY SMT, <1>2 DEF NacmInv, NacmCommit
  <2> QED
    BY <1>1, <1>2, <2>2, <2>3 DEF NacmInv, NacmCommit
<1>3. CASE NacmCallback
  <2>1. changes' \in Nat
    BY SMT, <1>3 DEF NacmInv, NacmCallback
  <2>2. validAnonymousNacmRules(config) \in BOOLEAN
    BY DEF validAnonymousNacmRules
  <2>3. anonymousEnabled' = validAnonymousNacmRules(config) /\ config' = config
        /\ coming' = coming
    BY <1>3 DEF NacmCallback
  <2> QED
    BY <1>1, <2>1, <2>2, <2>3 DEF NacmInv
<1> QED
  BY <1>2, <1>3

\* The inductive invariant holds when the handler is called.
LEMMA IInvInit == Init => IInv
<1> SUFFICES ASSUME Init PROVE IInv
  OBVIOUS
<1>1. PICK s \in Scenarios : req = s.req /\ config = s.config /\ coming = s.coming
  BY DEF Init
<1>2. RequestInv
  BY <1>1 DEF Init, RequestInv, uri
<1>3. NacmInv
  <2>1. validAnonymousNacmRules(config) \in BOOLEAN
    BY DEF validAnonymousNacmRules
  <2>2. config \in NacmConfigs /\ coming \in Seq(NacmConfigs)
    BY <1>1, ScenarioAssumption
  <2>3. changes = 0 /\ anonymousEnabled = validAnonymousNacmRules(config)
    BY DEF Init
  <2> QED
    BY <2>1, <2>2, <2>3 DEF NacmInv
<1>4. Untouched /\ faulted = FALSE
  BY DEF Init, Untouched
<1>5. StageInv
  BY DEF Init, StageInv, Stages
<1> QED
  BY <1>2, <1>3, <1>4, <1>5, UntouchedIsSettled DEF IInv, Core

\* Every step keeps it.
LEMMA IInvStep == IInv /\ [Next]_vars => IInv'
<1> SUFFICES ASSUME IInv, [Next]_vars PROVE IInv'
  OBVIOUS
<1>0. RequestInv /\ NacmInv /\ Core /\ RequestFacts
  BY FactsOfRequest DEF IInv
<1>1. ASSUME UNCHANGED request PROVE RequestInv'
  BY <1>0, <1>1 DEF RequestInv, request, uri
<1>2. ASSUME UNCHANGED nacm PROVE NacmInv'
  BY <1>0, <1>2 DEF NacmInv, nacm
<1>3. CASE HandleRestconf
  BY <1>0, <1>1, <1>2, <1>3, HandleRestconfStep DEF IInv
<1>4. CASE HandleStreams \/ HandleYang \/ HandleOther
  BY <1>0, <1>1, <1>2, <1>4, OtherHandlersStep DEF IInv
<1>5. CASE EditPayload
  BY <1>0, <1>1, <1>2, <1>5, EditPayloadStep DEF IInv
<1>6. CASE CheckOperation
  BY <1>0, <1>1, <1>2, <1>6, CheckOperationStep DEF IInv
<1>7. CASE SendOperation
  BY <1>0, <1>1, <1>2, <1>7, SendOperationStep DEF IInv
<1>8. CASE TimerExpires \/ DelayedReject \/ ClientCloses \/ DataChanges
  BY <1>0, <1>1, <1>2, <1>8, OtherStep DEF IInv
<1>9. CASE NacmCommit \/ NacmCallback
  BY <1>0, <1>1, <1>9, NacmStep DEF IInv
<1>10. CASE UNCHANGED vars
  BY <1>0, <1>1, <1>2, <1>10, CoreFrame DEF IInv, vars
<1> QED
  BY <1>3, <1>4, <1>5, <1>6, <1>7, <1>8, <1>9, <1>10 DEF Next

\* So it always holds.
THEOREM RequestInvariance == Spec => []IInv
BY IInvInit, IInvStep, PTL DEF Spec

-----------------------------------------------------------------------------
(* Theorems *)

\* Every variable keeps its type, every status is one of the statuses.
THEOREM TypeCorrect == Spec => []TypeOK
<1>1. IInv => TypeOK
  <2> SUFFICES ASSUME IInv PROVE TypeOK
    OBVIOUS
  <2>1. NacmInv /\ StageInv /\ Settled /\ faulted = FALSE
    BY DEF IInv, Core
  <2>2. \A i \in DOMAIN effects : effects[i].nodes \subseteq SchemaNodes \cup {NoNode}
    BY <2>1 DEF Settled, Fits, Nodes
  <2>3. faulted \in BOOLEAN
    BY <2>1
  <2>4. /\ config \in NacmConfigs /\ coming \in Seq(NacmConfigs) /\ changes \in Nat
        /\ anonymousEnabled \in BOOLEAN
    BY <2>1 DEF NacmInv
  <2>5. /\ stage \in Stages /\ user \in PamUsers \cup {NoUser, Anonymous}
        /\ alive \in BOOLEAN /\ parentExists \in BOOLEAN
    BY <2>1 DEF StageInv
  <2>6. /\ answers \in Nat /\ answer.allow \subseteq Methods
        /\ answer.status \in Statuses /\ answer.format \in AnswerFormats
    BY <2>1 DEF Settled
  <2> QED
    BY ONLY <2>2, <2>3, <2>4, <2>5, <2>6 DEF TypeOK, Statuses, AnswerFormats
<1> QED
  BY <1>1, RequestInvariance, PTL

\* No handler of /restconf lets the std::logic_error of asRestconfRequest()
\* out, whatever the method, the path, the query and the schema are.
THEOREM ClassificationHolds == Spec => []ClassificationIsTotal
<1>1. IInv => ClassificationIsTotal
  BY DEF IInv, Core, StageInv, ClassificationIsTotal
<1> QED
  BY <1>1, RequestInvariance, PTL

\* Edits and operations are those the method and the URI stand for, for every
\* schema: in particular PUT and PATCH change the node of the URI although
\* another module may have added a sibling of the same name.
THEOREM EffectsFit == Spec => []EffectsFitRequest
<1>1. IInv => EffectsFitRequest
  BY DEF IInv, Core, Settled, Fits, EffectsFitRequest, uri
<1> QED
  BY <1>1, RequestInvariance, PTL

\* yangInsert() never takes the value or the last element of a point that is
\* not there.
THEOREM PointHolds == Spec => []PointIsThere
<1>1. IInv => PointIsThere
  BY DEF IInv, Core, PointIsThere
<1> QED
  BY <1>1, RequestInvariance, PTL

\* Every location in an answer leads to what it is the location of.
THEOREM LocationsHold == Spec => []LocationsResolve
<1>1. IInv => LocationsResolve
  BY DEF IInv, Core, Settled
<1> QED
  BY <1>1, RequestInvariance, PTL

\* The status tells whether something was done.
THEOREM StatusHolds == Spec => []StatusTellsExecution
<1>1. IInv => StatusTellsExecution
  BY DEF IInv, Core, Settled
<1> QED
  BY <1>1, RequestInvariance, PTL

\* One answer per request, but for a YANG patch.
THEOREM OneAnswer == Spec => []AnsweredOnce
<1>1. IInv => AnsweredOnce
  BY DEF IInv, Core, Settled
<1> QED
  BY <1>1, RequestInvariance, PTL

\* The encoding of every answer is acceptable, and none is better, as far as
\* the order of the server agrees with RFC 9110 (see FormatIsAcceptable).
THEOREM FormatHolds == Spec => []FormatIsAcceptable
<1>1. ASSUME IInv, req.route = "restconf", answers > 0, NEW items, items = req.accept.items
      PROVE  /\ answer.status = 406 <=> Wanted(items) # {} /\ Served(items) = {}
             /\ (/\ WildcardsComeLast(items)
                 /\ answer.format # "none" /\ answer.status # 415) =>
                  \A g \in Formats : AsGoodAs(items, answer.format, g)
  <2>1. RequestInv /\ RequestFacts /\ FormatFollows
    BY <1>1, FactsOfRequest DEF IInv, Core, Settled
  <2>2. IsHeader(req.accept)
    <3>1. PICK s \in Scenarios : req = s.req
      BY <2>1 DEF RequestInv
    <3> QED
      BY <3>1, ScenarioAssumption
  <2>3. PICK accept, contentType :
          /\ accept = req.accept /\ IsHeader(accept)
          /\ encoding = chooseDataEncoding(accept, contentType)
    BY <2>1, <2>2 DEF RequestInv
  <2>4. encoding.code = 406 <=> Wanted(items) # {} /\ Served(items) = {}
    <3>1. PICK e : e = chooseDataEncoding(accept, contentType)
      OBVIOUS
    <3>2. e.code = 406 <=> Wanted(accept.items) # {} /\ Served(accept.items) = {}
      BY SMT, <2>3, <3>1, Negotiation
    <3> QED
      BY <1>1, <2>3, <3>1, <3>2
  <2>5. ASSUME WildcardsComeLast(items), encoding.code # 415
        PROVE  \A g \in Formats : AsGoodAs(items, encoding.response, g)
    <3>1. WildcardsComeLast(accept.items) /\ chooseDataEncoding(accept, contentType).code # 415
      BY <1>1, <2>3, <2>5
    <3>2. ASSUME NEW g \in Formats
          PROVE  AsGoodAs(accept.items, chooseDataEncoding(accept, contentType).response, g)
      BY SMT, <2>3, <3>1, <3>2, BestFormat
    <3> QED
      BY <1>1, <2>3, <3>2
  <2>6. /\ answer.format \in {"none", encoding.response}
        /\ answer.status \in {406, 415} => encoding.code = answer.status
        /\ encoding.code # 0 => answer.status = encoding.code
    BY <1>1, <2>1 DEF FormatFollows
  <2>7. answer.status = 406 <=> encoding.code = 406
    BY SMT, <2>6
  <2>8. ASSUME WildcardsComeLast(items), answer.format # "none", answer.status # 415
        PROVE  \A g \in Formats : AsGoodAs(items, answer.format, g)
    <3>1. encoding.code # 415 /\ answer.format = encoding.response
      BY SMT, <2>6, <2>8
    <3> QED
      BY <2>5, <2>8, <3>1
  <2> QED
    BY ZenonT(30), <2>4, <2>7, <2>8
<1>2. IInv => FormatIsAcceptable
  BY SMT, <1>1 DEF FormatIsAcceptable
<1> QED
  BY <1>2, RequestInvariance, PTL

\* A GET with fields reads the union of the paths they stand for.
THEOREM FieldsHold == Spec => []FieldsReadTheirUnion
<1>1. ASSUME IInv, answer.read # <<>>, Has(req.query, "fields")
      PROVE  Range(answer.read[1].paths) =
               {uri.segs \o d : d \in Denotes[Param(req.query, "fields").expr]}
  <2>1. RequestInv /\ RequestFacts /\ ReadFollows
    BY <1>1, FactsOfRequest DEF IInv, Core, Settled
  <2>2. asked.type = "GetData" /\ answer.read[1].paths = reading.paths
    BY <1>1, <2>1 DEF ReadFollows
  <2>3. PICK q : q = Param(req.query, "fields")
    OBVIOUS
  <2>4. ParsesParam(q) /\ q.name = "fields"
    <3>1. parseQueryParams(req.query)
      BY ZenonT(30), <2>1, <2>2 DEF RequestFacts, Classified, ForDatastore
    <3> QED
      BY <1>1, <2>3, <3>1 DEF parseQueryParams, Param, Params, Has
  <2>5. q.expr \in FieldNodes /\ q.expr.kind = "Semi"
    BY SMT, <2>4 DEF ParsesParam
  <2>6. reading.paths = fieldsToXPath(uri.segs, q.expr)
    <3>1. reading = ReadPaths(uri.segs, req.query)
      BY <2>1, <2>2 DEF RequestInv
    <3>2. ReadPaths(uri.segs, req.query).paths = fieldsToXPath(uri.segs, q.expr)
      BY <1>1, <2>3 DEF ReadPaths
    <3> QED
      BY <3>1, <3>2
  <2>7. uri.segs \in Seq(Elements)
    BY SMT, <2>1, SegmentsType DEF RequestFacts, uri
  <2> QED
    BY <2>2, <2>3, <2>5, <2>6, <2>7, FieldsCollectTheirUnion
<1>2. IInv => FieldsReadTheirUnion
  BY <1>1 DEF FieldsReadTheirUnion, uri
<1> QED
  BY <1>2, RequestInvariance, PTL

-----------------------------------------------------------------------------
(* Anonymous access *)

\* The user becomes the anonymous one only while the flag is set.
THEOREM AnonymousHolds == Spec => AnonymousNeedsValidRules
<1>1. ASSUME IInv, [Next]_vars, user' = Anonymous, user # Anonymous
      PROVE  validAnonymousNacmRules(config) \/ changes > 0
  <2>1. HandleRestconf \/ HandleStreams \/ HandleYang
    BY <1>1 DEF Next, vars, HandleOther, EditPayload, CheckOperation, SendOperation,
                TimerExpires, DelayedReject, ClientCloses, NacmCommit, NacmCallback,
                DataChanges
  <2>2. PICK result \in authorizeRequest(req.auth) : result.ok /\ user' = result.user
    <3>1. CASE HandleRestconf
      BY <1>1, <3>1 DEF HandleRestconf, processAuthError
    <3>2. CASE HandleStreams
      BY <1>1, <3>2 DEF HandleStreams, processAuthError
    <3>3. CASE HandleYang
      BY <1>1, <3>3 DEF HandleYang, processAuthError
    <3> QED
      BY <2>1, <3>1, <3>2, <3>3
  <2>3. anonymousEnabled
    BY <1>1, <2>2, Authorized
  <2> QED
    BY SMT, <1>1, <2>3 DEF IInv, NacmInv
<1>2. IInv /\ [Next]_vars =>
        [user' = Anonymous /\ user # Anonymous =>
           validAnonymousNacmRules(config) \/ changes > 0]_vars
  BY <1>1
<1> QED
  BY <1>2, RequestInvariance, PTL DEF Spec, AnonymousNeedsValidRules

\* What AnonymousOnlyReads supposes of the rules.
StrictRules == validAnonymousNacmRules(config) /\ RulesAreInForce(config)

\* What rules that validAnonymousNacmRules() accepts permit the anonymous
\* user, when they are in force: reading, and the execution of
\* establish-subscription.  The last rule of the first rule-list matches every
\* access, so one of the rules before it decides, or it denies.
LEMMA ValidRulesPermit ==
  ASSUME NacmInv, StrictRules, NEW access,
         Permitted(config, AnonymousGroups(config), access)
  PROVE  \/ access.op = "read"
         \/ /\ access.op = "exec"
            /\ access.module = "ietf-subscribed-notifications"
            /\ access.rpc = "establish-subscription"
<1> DEFINE first == config.lists[1]
           n == Len(first.rules)
           A(l, i) == Applies(config, AnonymousGroups(config), access, l, i)
           Rules == Seq([action : {"permit", "deny"}, module : STRING,
                         ops : SUBSET (Operations \cup {"*"}),
                         type : RuleTypes, name : STRING])
<1>0. /\ config.enabled /\ AnonymousGroups(config) = {AnonymousGroup}
      /\ first.rules[n].type = "all"
  BY DEF StrictRules, RulesAreInForce, LastRuleIsUnrestricted, AnonymousGroups
<1>1. /\ config.lists # <<>> /\ AnonymousGroup \in first.groups
      /\ n > 0 /\ (\A i \in 1 .. (n - 1) : isRuleForAnonymousAccess(first.rules[i]))
      /\ isRuleWildcardDeny(first.rules[n])
  BY DEF StrictRules, validAnonymousNacmRules
<1>2. config.lists \in Seq([groups : SUBSET STRING, rules : Rules])
  BY NacmAssumption DEF NacmInv
<1>3. 1 \in DOMAIN config.lists /\ first.rules \in Rules /\ n \in Nat
  <2> HIDE DEF Rules
  <2>1. PICK L : L = [groups : SUBSET STRING, rules : Rules]
    OBVIOUS
  <2>2. config.lists \in Seq(L) /\ config.lists # <<>>
    BY <1>1, <1>2, <2>1
  <2>3. 1 \in DOMAIN config.lists /\ first \in L
    BY SMT, <2>2
  <2>4. first.rules \in Rules
    BY <2>1, <2>3
  <2> QED
    BY SMT, <2>3, <2>4 DEF Rules
<1>4. n \in DOMAIN first.rules /\ DOMAIN first.rules = 1 .. n
  <2>1. PICK rs : rs = first.rules
    OBVIOUS
  <2> HIDE DEF Rules
  <2>2. PICK S : Rules = Seq(S)
    BY DEF Rules
  <2>3. rs \in Seq(S) /\ Len(rs) > 0
    BY <1>1, <1>3, <2>1, <2>2
  <2>4. Len(rs) \in DOMAIN rs /\ DOMAIN rs = 1 .. Len(rs)
    BY ONLY <2>3
  <2> QED
    BY ONLY Zenon, <2>1, <2>4
<1>5. A(1, n)
  BY <1>0, <1>1 DEF Applies, Matches, isRuleWildcardDeny
<1>6. PICK l \in DOMAIN config.lists : \E i \in DOMAIN config.lists[l].rules :
        /\ A(l, i) /\ config.lists[l].rules[i].action = "permit"
        /\ \A k \in 1 .. (l - 1) : \A j \in DOMAIN config.lists[k].rules : ~A(k, j)
  <2> HIDE DEF first, n
  <2>1. ~ \A k \in DOMAIN config.lists : \A j \in DOMAIN config.lists[k].rules : ~A(k, j)
    BY <1>3, <1>4, <1>5 DEF first
  <2> QED
    BY <1>0, <2>1 DEF Permitted
<1>7. l = 1
  <2>1. l \in Nat /\ l >= 1
    BY SMT, <1>2
  <2>2. l > 1 => 1 \in 1 .. (l - 1)
    BY SMT, <2>1
  <2> HIDE DEF A
  <2>3. ~(l > 1)
    BY <1>4, <1>5, <1>6, <2>2
  <2> QED
    BY SMT, <2>1, <2>3
<1>8. PICK i \in 1 .. n : A(1, i) /\ first.rules[i].action = "permit"
  BY <1>4, <1>6, <1>7
<1> DEFINE rule == first.rules[i]
<1>9. i # n
  BY <1>1, <1>8 DEF isRuleWildcardDeny
<1>10. isRuleForAnonymousAccess(rule)
  <2>1. i \in 1 .. (n - 1)
    <3>1. PICK N : N = n
      OBVIOUS
    <3>2. N \in Nat /\ i \in 1 .. N /\ i # N
      BY ONLY Zenon, <1>3, <1>8, <1>9, <3>1
    <3>3. i \in 1 .. (N - 1)
      BY ONLY <3>2
    <3> QED
      BY ONLY Zenon, <3>1, <3>3
  <2> QED
    BY <1>1, <2>1, Zenon
<1>11. Matches(rule, access)
  BY <1>8 DEF Applies
<1> HIDE DEF rule
<1>12. CASE rule.ops = {"read"}
  BY <1>11, <1>12 DEF Matches
<1>13. CASE rule.ops = {"exec"} /\ isWhitelistedRPC(rule)
  <2>1. /\ rule.module = "ietf-subscribed-notifications"
        /\ rule.type = "rpc" /\ rule.name = "establish-subscription"
    BY <1>13 DEF isWhitelistedRPC
  <2>2. /\ access.op = "exec" /\ rule.module \in {"*", access.module}
        /\ rule.name \in {"*", access.rpc}
    BY <1>11, <1>13, <2>1 DEF Matches
  <2> QED
    BY <2>1, <2>2
<1> QED
  BY <1>10, <1>12, <1>13 DEF isRuleForAnonymousAccess

\* Under such rules sysrepo refuses every write of the anonymous user.
LEMMA NoWrites ==
  ASSUME NacmInv, StrictRules, NEW op \in {"create", "update", "delete"}, NEW n
  PROVE  ~NacmPermits(Anonymous, Write(op, n))
<1>1. PICK access : access = Write(op, n)
  OBVIOUS
<1>2. access.op = op
  BY <1>1 DEF Write
<1>3. access.op \notin {"read", "exec"}
  BY <1>2
<1>4. ~Permitted(config, AnonymousGroups(config), access)
  BY <1>3, ValidRulesPermit
<1> QED
  BY <1>1, <1>4 DEF NacmPermits

\* Hence none of their edits succeeds.
LEMMA NoEdits ==
  ASSUME NacmInv, StrictRules, user = Anonymous, NEW nodes, nodes # {}
  PROVE  ~MayWrite(nodes)
<1>1. PICK n \in nodes : TRUE
  OBVIOUS
<1> QED
  BY <1>1, NoWrites DEF MayWrite

\* Under rules that validAnonymousNacmRules() accepts and that are in force, an
\* anonymous user changes nothing, and runs nothing but establish-subscription,
\* whatever follows the first rule-list and whatever the defaults are.
THEOREM AnonymousReads == Spec => AnonymousOnlyReads
<1> DEFINE Allowed(e) ==
             /\ e.kind = "exec"
             /\ \A n \in e.nodes :
                  /\ Schema[n].module = "ietf-subscribed-notifications"
                  /\ Schema[n].name = "establish-subscription"
<1>1. ASSUME IInv, [Next]_vars, user' = Anonymous, effects' # effects, StrictRules
      PROVE  Allowed(Last(effects'))
  <2>0. NacmInv /\ Core
    BY <1>1 DEF IInv
  <2>1. HandleRestconf \/ EditPayload \/ SendOperation
    BY <1>1 DEF Next, vars, NoEffect, HandleStreams, HandleYang, HandleOther,
                processAuthError, CheckOperation, TimerExpires, DelayedReject,
                ClientCloses, NacmCommit, NacmCallback, DataChanges
  <2>2. ~HandleRestconf
    <3> SUFFICES ASSUME HandleRestconf PROVE FALSE
      OBVIOUS
    <3>1. PICK result \in authorizeRequest(req.auth) :
            user' = result.user /\ DeleteNode(result.user)
      BY <1>1 DEF HandleRestconf, NoEffect, processAuthError, ApiResource, OptionsQuery,
                  RefuseRequest, GetData, BeginEdit, BeginExecute
    <3>2. NacmPermits(Anonymous, Write("delete", asked.node))
      BY SMT, <1>1, <3>1 DEF DeleteNode, NoEffect
    <3> QED
      BY <1>1, <2>0, <3>2, NoWrites
  <2>3. ~EditPayload
    <3> SUFFICES ASSUME EditPayload PROVE FALSE
      OBVIOUS
    <3>1. user = Anonymous /\ (YangPatch \/ PlainEdit)
      BY <1>1 DEF EditPayload
    <3>2. ~MayWrite({asked.node}) /\ ~MayWrite({NoNode})
      BY <1>1, <2>0, <3>1, NoEdits
    <3>3. ~YangPatch
      BY SMT, <1>1, <3>2 DEF YangPatch, Refused, Edit
    <3>4. PICK payload \in Payloads : MayWrite(Range(payload))
      BY SMT, <1>1, <3>1, <3>2, <3>3 DEF PlainEdit, EditDatastore, EditNodes, Refused, Edit
    <3>5. Range(payload) # {}
      BY PayloadNodes DEF Range
    <3> QED
      BY <1>1, <2>0, <3>1, <3>4, <3>5, NoEdits
  <2>4. CASE SendOperation
    <3>1. user = Anonymous /\ effects = <<>>
      BY <1>1, <2>0, <2>4 DEF SendOperation, Core, Untouched, Pending, Stages
    <3>2. PICK e : e = Effect("exec", "operational", {asked.node})
      OBVIOUS
    <3>3. effects' = Append(effects, e) /\ NacmPermits(user, Exec(asked.node))
      BY <1>1, <2>4, <3>2, OperationOutcome DEF Carry, NoEffect
    <3>4. Last(effects') = e
      BY SMT, <3>1, <3>3 DEF Last
    <3>5. PICK access : access = Exec(asked.node)
      OBVIOUS
    <3>6. /\ access.op = "exec" /\ access.module = Schema[asked.node].module
          /\ access.rpc \in {NoRPC, Schema[asked.node].name}
      BY <3>5 DEF Exec
    <3>7. Permitted(config, AnonymousGroups(config), access)
      BY <3>1, <3>3, <3>5 DEF NacmPermits
    <3>8. /\ access.module = "ietf-subscribed-notifications"
          /\ access.rpc = "establish-subscription"
      BY <1>1, <2>0, <3>6, <3>7, ValidRulesPermit
    <3>10. NoRPC # "establish-subscription"
      BY DEF NoRPC
    <3>9. e.kind = "exec" /\ e.nodes = {asked.node}
      BY <3>2 DEF Effect
    <3> QED
      BY <3>4, <3>6, <3>8, <3>9, <3>10
  <2> QED
    BY <2>1, <2>2, <2>3, <2>4
<1>2. IInv /\ [Next]_vars =>
        [user' = Anonymous /\ effects' # effects /\ StrictRules => Allowed(Last(effects'))]_vars
  BY <1>1
<1>3. IInv /\ [Next]_vars =>
        [(/\ user' = Anonymous /\ effects' # effects
          /\ validAnonymousNacmRules(config) /\ RulesAreInForce(config)) =>
           Allowed(Last(effects'))]_vars
  BY <1>2 DEF StrictRules
<1> QED
  BY <1>3, RequestInvariance, PTL DEF Spec, AnonymousOnlyReads
=============================================================================
