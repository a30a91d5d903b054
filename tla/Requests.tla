------------------------------ MODULE Requests ------------------------------
(***************************************************************************)
(* One HTTP request, from the call of its handler to its last word         *)
(* (src/src/restconf/Server.cpp, src/src/auth): the routes of the server,  *)
(* the choice of encodings, authentication, what the request asks for, and *)
(* the answer.  The handlers run on the only thread of the server, one     *)
(* request cannot see another; the request meets the threads of sysrepo    *)
(* (NACM changes, data that comes and goes), its own timer, and the client *)
(* closing the connection.                                                 *)
(*                                                                         *)
(* What the edits do to the datastore is in DataEdits, what a stream does  *)
(* after its headers in EventStream and DynamicSubscriptions.              *)
(***************************************************************************)
EXTENDS Uri, MediaTypes, Nacm

CONSTANTS
  Anonymous,   \* ANONYMOUS_USER
  PamUsers,    \* users PAM may return
  Scenarios    \* a request, the NACM configuration, the ones to come

Routes == {"restconf", "streams", "yang", "telemetry", "host-meta", "other"}

\* raw_path is what the client sent, path what nghttp2 decodes it to.  auth:
\* the authorization header is absent, malformed or well-formed.
ASSUME ScenarioAssumption ==
  \A s \in Scenarios :
    /\ DOMAIN s = {"req", "config", "coming"}
    /\ DOMAIN s.req = {"route", "method", "raw_path", "path", "query",
                       "accept", "contentType", "forward", "auth"}
    /\ s.req.raw_path \in Seq(Elements)
    /\ s.req.path = Decoded(s.req.raw_path)
    /\ IsHeader(s.req.accept) /\ IsHeader(s.req.contentType)
    /\ s.req.forward \in Seq([proto : STRING, host : STRING])
    /\ s.req.route \in Routes
    /\ s.req.auth \in {"none", "malformed", "basic"}
    /\ s.config \in NacmConfigs
    /\ s.coming \in Seq(NacmConfigs)

NoUser == ""

\* A session never runs as the user without a name.
ASSUME UserAssumption == NoUser \notin PamUsers \cup {Anonymous}

VARIABLES
  req,              \* the request
  asked,            \* what its method, path and query ask for
  allowed,          \* the methods its decoded path allows
  encoding,         \* the encodings its headers ask for
  reading,          \* the paths a GET asks sysrepo for, or its error
  config,           \* the NACM rules in the running datastore
  coming,           \* the ones an administrator is going to commit
  changes,          \* commits the server has not been called back for
  anonymousEnabled, \* m_anonymousEnabled
  stage,            \* how far the request is
  alive,            \* the connection, and req and res with it, exists
  user,             \* the session's NACM user, NoUser before there is one
  answer,           \* what the client gets
  answers,          \* how often a response was started
  parentExists,     \* the data node of the requested action exists
  effects,          \* edits and operations the request has carried out
  faulted           \* something absent was dereferenced

request == <<req, asked, allowed, encoding, reading>>
nacm == <<config, coming, changes, anonymousEnabled>>

vars == <<request, nacm, stage, alive, user, answer, answers, parentExists,
          effects, faulted>>

Stages == {"new", "payload", "operation", "delayed", "expired", "done",
           "escaped"}

\* What a GET reads: the resource, or what fields selects below it.
ReadPaths(segs, query) ==
  IF ~Has(query, "fields") THEN [code |-> 0, paths |-> <<segs>>]
  ELSE LET expr == Param(query, "fields").expr
       IN  [code |-> FieldsError(segs, expr),
            paths |-> fieldsToXPath(segs, expr)]

NoAnswer == [status |-> 0, format |-> "none", allow |-> {},
             locations |-> {}, read |-> <<>>]

\* The callback runs once while the subscription is made (Enabled).
Init ==
  /\ \E s \in Scenarios :
       /\ req = s.req
       /\ config = s.config
       /\ coming = s.coming
  /\ asked = asRestconfRequest(req.method, req.raw_path, req.query)
  /\ allowed = allowedHttpMethodsForUri(req.path)
  /\ encoding = chooseDataEncoding(req.accept, req.contentType)
  /\ reading = IF asked.type # "GetData" THEN [code |-> 0, paths |-> <<>>]
               ELSE ReadPaths(parseUriPath(req.raw_path).segs, req.query)
  /\ changes = 0
  /\ anonymousEnabled = validAnonymousNacmRules(config)
  /\ stage = "new"
  /\ alive = TRUE
  /\ user = NoUser
  /\ answer = NoAnswer
  /\ answers = 0
  /\ parentExists \in BOOLEAN
  /\ effects = <<>>
  /\ faulted = FALSE

-----------------------------------------------------------------------------
(* Answers *)

\* nghttp2 ignores a response after the first one.
Respond(a) ==
  /\ answer' = IF answers = 0 THEN a ELSE answer
  /\ answers' = answers + 1
  /\ stage' = "done"

Plain(status) ==
  Respond([NoAnswer EXCEPT !.status = status, !.format = "text"])

InBody(status) ==
  Respond([NoAnswer EXCEPT !.status = status, !.format = encoding.response])

Bare(status) == Respond([NoAnswer EXCEPT !.status = status])

\* 405 tells the methods the decoded path of the URI allows.
rejectWithError(status) ==
  Respond([NoAnswer EXCEPT
             !.status = status,
             !.format = encoding.response,
             !.allow = IF status = 405 THEN allowed ELSE {}])

Proceed == UNCHANGED <<answer, answers>>
NoEffect == UNCHANGED <<effects, faulted>>

-----------------------------------------------------------------------------
(* Who asks *)

AuthResult(u, ok, delay) == [user |-> u, ok |-> ok, delay |-> delay]

\* Mutant of authenticate_pam: the name the client typed, not PAM_USER.
authenticate_pam_typed(header) ==
  {AuthResult("Alice", TRUE, FALSE), AuthResult(NoUser, FALSE, FALSE)}

\* PAM fails in one of its calls; it may have asked for a delay from
\* pam_authenticate() on.
authenticate_pam(header) ==
  IF header = "malformed" THEN {AuthResult(NoUser, FALSE, FALSE)}
  ELSE {AuthResult(u, TRUE, FALSE) : u \in PamUsers}
       \cup {AuthResult(NoUser, FALSE, delay) : delay \in BOOLEAN}

\* Nacm::authorize()
authorize(u) == u # Anonymous \/ anonymousEnabled

authorizeRequest(header) ==
  {IF r.ok /\ ~authorize(r.user) THEN AuthResult(NoUser, FALSE, FALSE) ELSE r :
     r \in IF header = "none" THEN {AuthResult(Anonymous, TRUE, FALSE)}
           ELSE authenticate_pam(header)}

Reject401 == IF req.route = "restconf" THEN rejectWithError(401) ELSE Plain(401)

\* Mutant of processAuthError: the answer of the other branch is sent as well.
processAuthErrorBoth(result) ==
  /\ answer' = [NoAnswer EXCEPT !.status = 401]
  /\ answers' = answers + 1
  /\ stage' = IF result.delay THEN "delayed" ELSE "done"
  /\ NoEffect
  /\ UNCHANGED user

\* Mutant of processAuthError: nothing keeps the timer, so it is cancelled.
processAuthErrorLocalTimer(result) ==
  /\ IF result.delay THEN stage' = "done" /\ Proceed ELSE Reject401
  /\ NoEffect
  /\ UNCHANGED user

processAuthError(result) ==
  /\ IF result.delay THEN stage' = "delayed" /\ Proceed ELSE Reject401
  /\ NoEffect
  /\ UNCHANGED user

\* sysrepo's NACM decides; what it decides for the user of the anonymous
\* access follows from the rules.
NacmPermits(u, access) ==
  u = Anonymous => Permitted(config, AnonymousGroups(config), access)

\* The node and those above it.
DataPath[n \in SchemaNodes \cup {NoNode}] ==
  IF n = NoNode THEN {} ELSE {n} \cup DataPath[Schema[n].parent]

Exec(n) ==
  [op |-> "exec", module |-> Schema[n].module,
   rpc |-> IF Schema[n].kind = "RPC" THEN Schema[n].name ELSE NoRPC,
   path |-> IF Schema[n].kind = "RPC" THEN {} ELSE DataPath[n]]
Write(op, n) ==
  [op |-> op, module |-> IF n = NoNode THEN NoText ELSE Schema[n].module,
   rpc |-> NoRPC, path |-> DataPath[n]]

-----------------------------------------------------------------------------
(* GET *)

Location(host, root, path, of) ==
  [host |-> host, root |-> root, path |-> path, of |-> of]

\* The scheme that marks the location of a stream until it is replaced.
rousetteURIScheme == "x-cesnet-rousette:"

\* The streams the server reports: name and encoding.
notificationStreamList ==
  {Location(rousetteURIScheme, "streams", <<Word("NETCONF"), Word(e)>>, NoText) :
     e \in {"XML", "JSON"}}

\* Mutant of replaceYangLibraryLocations: the revision is always appended.
replaceYangLibraryLocationsRev(schemeAndHost, found) ==
  IF schemeAndHost = NoPart THEN {}
  ELSE {Location(schemeAndHost, "yang", <<Word(m.name), Word(m.rev)>>, m) :
          m \in found}

\* found: the modules with a location in the data.
replaceYangLibraryLocations(schemeAndHost, found) ==
  IF schemeAndHost = NoPart THEN {}
  ELSE {Location(schemeAndHost, "yang",
          IF m.rev = NoText THEN <<Word(m.name)>>
          ELSE <<Word(m.name), Word(m.rev)>>, m) : m \in found}

replaceStreamLocations(schemeAndHost, found) ==
  IF schemeAndHost = NoPart THEN {}
  ELSE {[l EXCEPT !.host = schemeAndHost] : l \in found}

\* What to read: the paths, the depth (0: unbounded) and the nodes.
ReadOf(paths) ==
  [paths |-> paths,
   depth |-> IF Has(req.query, "depth")
                  /\ Param(req.query, "depth").value = "number"
             THEN Param(req.query, "depth").num ELSE 0,
   content |-> IF Has(req.query, "content")
               THEN Param(req.query, "content").value ELSE "all"]

GetData ==
  /\ asked.type = "GetData"
  /\ IF reading.code # 0 THEN rejectWithError(reading.code)
     ELSE \/ rejectWithError(404)   \* no data
          \/ rejectWithError(500)   \* sysrepo fails
          \/ \E modules \in {{}, Library},
                streams \in {{}, notificationStreamList} :
               Respond([NoAnswer EXCEPT
                 !.status = 200,
                 !.format = encoding.response,
                 !.locations =
                   replaceYangLibraryLocations(parseUrlPrefix(req.forward),
                                               modules)
                   \cup replaceStreamLocations(parseUrlPrefix(req.forward),
                                               streams),
                 !.read = <<ReadOf(reading.paths)>>])
  /\ NoEffect

-----------------------------------------------------------------------------
(* The other requests for /restconf *)

ApiResource ==
  /\ asked.type \in {"RestconfRoot", "YangLibraryVersion", "ListRPC"}
  /\ InBody(200)
  /\ NoEffect

OptionsQuery ==
  /\ asked.type = "OptionsQuery"
  /\ IF allowed = {} THEN Bare(404)
     ELSE Respond([NoAnswer EXCEPT !.status = 200, !.allow = allowed])
  /\ NoEffect

\* The std::logic_error of a request no type fits leaves the handler.
RefuseRequest ==
  /\ asked.type \in {"Error", "Unhandled"}
  /\ IF asked.type = "Unhandled" THEN stage' = "escaped" /\ Proceed
     ELSE rejectWithError(asked.code)
  /\ NoEffect

ReadOnly == asked.ds \in {"factory-default", "operational"}
Datastore == IF asked.ds = NoText THEN "running" ELSE asked.ds

Effect(kind, ds, nodes) == [kind |-> kind, ds |-> ds, nodes |-> nodes]
Carry(e) == effects' = Append(effects, e) /\ UNCHANGED faulted

BeginEdit ==
  /\ asked.type \in {"CreateOrReplaceThisNode", "CreateChildren", "MergeData"}
  /\ IF ReadOnly THEN rejectWithError(405)
     ELSE IF encoding.request = "none" THEN rejectWithError(400)
     ELSE stage' = "payload" /\ Proceed
  /\ NoEffect

\* u: the user who has just been authorized.
DeleteNode(u) ==
  /\ asked.type = "DeleteNode"
  /\ IF ReadOnly THEN rejectWithError(405) /\ NoEffect
     ELSE \/ \E s \in {403, 404, 500} : rejectWithError(s) /\ NoEffect
          \/ /\ NacmPermits(u, Write("delete", asked.node))
             /\ Bare(204)
             /\ Carry(Effect("edit", Datastore, {asked.node}))

BeginExecute ==
  /\ asked.type \in {"Execute", "ExecuteInternal"}
  /\ stage' = "payload"
  /\ Proceed
  /\ NoEffect

HandleRestconf ==
  /\ stage = "new" /\ req.route = "restconf"
  /\ IF encoding.code # 0
     THEN rejectWithError(encoding.code) /\ NoEffect /\ UNCHANGED user
     ELSE \E result \in authorizeRequest(req.auth) :
            IF ~result.ok THEN processAuthError(result)
            ELSE /\ user' = result.user
                 /\ \/ ApiResource
                    \/ OptionsQuery
                    \/ RefuseRequest
                    \/ GetData
                    \/ BeginEdit
                    \/ DeleteNode(result.user)
                    \/ BeginExecute
  /\ UNCHANGED <<request, nacm, alive, parentExists>>

-----------------------------------------------------------------------------
(* Edits, once the payload is complete *)

Point ==
  IF Has(req.query, "point") THEN Segments(Param(req.query, "point").segs)
  ELSE <<>>

InsertAtPoint ==
  /\ Has(req.query, "insert")
  /\ Param(req.query, "insert").value \in {"before", "after"}

\* yangInsert(): 0, or the error for the list entry n.
yangInsert(n) ==
  IF Has(req.query, "insert") /\ ~Schema[n].ordered THEN 400
  ELSE IF InsertAtPoint /\ asLibyangPath(Point) # {n}
  THEN 400 ELSE 0

\* It takes the value of point, and the last element of its path, without
\* looking whether they are there.
InsertFaults(n) ==
  /\ InsertAtPoint
  /\ \/ ~Has(req.query, "point")
     \/ yangInsert(n) = 0 /\ Point = <<>>

IsData(n) == Schema[n].kind \notin {"RPC", "Action", "Notification"}

\* The data nodes that may stand where the request wants its payload.
Siblings ==
  {n \in SchemaNodes :
     /\ IsData(n)
     /\ Schema[n].parent = IF asked.type = "CreateChildren" THEN asked.node
                           ELSE Schema[asked.node].parent}

\* A payload: one or two of them.
Payloads == {<<n>> : n \in Siblings} \cup {<<n, m>> : n, m \in Siblings}

\* Mutant of isSameNode: the module is not compared.
isSameNodeByName(n, segment) == Schema[n].name = segment.name

isSameNode(n, segment) ==
  Schema[n].module = segment.mod /\ Schema[n].name = segment.name

\* createEditForPutAndPatch() looks at every node of the payload, but at the
\* first one only for a node without a parent; processPost() wants one.
createEditForPutAndPatch(payload) ==
  IF asked.type = "CreateChildren" THEN Len(payload) = 1
  ELSE LET split == asLibyangPathSplit(parseUriPath(req.raw_path).segs)
       IN  \A i \in IF split.parent = <<>> THEN {1} ELSE DOMAIN payload :
             isSameNode(payload[i], split.last)

Refused(s) == rejectWithError(s) /\ UNCHANGED effects

MayWrite(nodes) ==
  \A n \in nodes : \E op \in {"create", "update", "delete"} :
    NacmPermits(user, Write(op, n))

Edit(nodes) ==
  /\ MayWrite(nodes)
  /\ effects' = Append(effects, Effect("edit", Datastore, nodes))

\* PUT or PATCH of a whole datastore.
EditDatastore ==
  /\ Bare(IF asked.type = "MergeData" THEN 204 ELSE 201)
  /\ Edit({NoNode})
  /\ UNCHANGED faulted

EditNodes(payload) ==
  /\ faulted' = (faulted \/ InsertFaults(payload[1]))
  /\ IF yangInsert(payload[1]) # 0 THEN Refused(yangInsert(payload[1]))
     ELSE /\ CASE asked.type = "CreateChildren" -> InBody(201)
               [] asked.type = "MergeData" -> Bare(204)
               [] OTHER -> \E s \in {201, 204} : Bare(s)
          /\ Edit(Range(payload))

\* processPost() and processPutOrPlainPatch().
PlainEdit ==
  \/ \E s \in {400, 403, 409, 500} : Refused(s) /\ UNCHANGED faulted
  \/ IF asked.node = NoNode /\ asked.type # "CreateChildren"
     THEN EditDatastore
     ELSE \E payload \in Payloads :
            /\ createEditForPutAndPatch(payload)
            /\ EditNodes(payload)

\* processYangPatch(): one payload without a patch, one that goes well (it
\* may have no edits), and one of which an edit is refused; that is answered,
\* yet the other edits may be applied, and one more answer follows.
YangPatch ==
  /\ \/ \E s \in {400, 500} : Refused(s)
     \/ InBody(200) /\ (UNCHANGED effects \/ Edit({asked.node}))
     \/ \E s \in {400, 403, 409, 500} :
          /\ answer' = [NoAnswer EXCEPT !.status = s,
                                        !.format = encoding.response]
          /\ answers' = answers + 2
          /\ stage' = "done"
          /\ UNCHANGED effects \/ Edit({asked.node})
  /\ UNCHANGED faulted

AsksYangPatch == asked.type = "MergeData" /\ isYangPatch(req.contentType)

EditPayload ==
  /\ stage = "payload"
  /\ asked.type \in {"CreateOrReplaceThisNode", "CreateChildren", "MergeData"}
  /\ IF AsksYangPatch THEN YangPatch ELSE PlainEdit
  /\ UNCHANGED <<request, nacm, alive, user, parentExists>>

-----------------------------------------------------------------------------
(* RPCs and actions: processActionOrRPC() *)

\* A data format is needed for an input; an action needs its data node.
\* (The race with DataChanges is the one the comment in the code admits.)
CheckOperation ==
  /\ stage = "payload"
  /\ asked.type \in {"Execute", "ExecuteInternal"}
  /\ \/ IF \/ encoding.request = "none" /\ Schema[asked.node].input
           \/ Schema[asked.node].kind = "Action" /\ ~parentExists
        THEN rejectWithError(400)
        ELSE stage' = "operation" /\ Proceed
     \/ \* sysrepo fails to read the data node
        Schema[asked.node].kind = "Action" /\ rejectWithError(500)
  /\ NoEffect
  /\ UNCHANGED <<request, nacm, alive, user, parentExists>>

Done(s) ==
  /\ IF s = 200 THEN InBody(200) ELSE Bare(204)
  /\ Carry(Effect("exec", "operational", {asked.node}))

\* sendRPC(): sysrepo validates, checks the access and calls the provider of
\* the operation.  After a timeout nobody knows.
sendRPC ==
  \/ /\ NacmPermits(user, Exec(asked.node))
     /\ Schema[asked.node].kind = "Action" => parentExists
     /\ \/ \E s \in {200, 204} : Done(s)
        \/ rejectWithError(500)
           /\ Carry(Effect("exec", "operational", {asked.node}))
  \/ \E s \in {400, 403, 500} : rejectWithError(s) /\ NoEffect

\* The RPCs of handlers; modify-subscription has none.
HandledRPCs == {"establish-subscription", "kill-subscription",
                "delete-subscription"}

\* Mutant of processInternalRPC: the input is validated after the handler.
processInternalRPCLate ==
  \E s \in {200, 400} :
    /\ NacmPermits(user, Exec(asked.node))
    /\ IF s = 400 THEN rejectWithError(400) ELSE InBody(200)
    /\ Carry(Effect("exec", "operational", {asked.node}))

processInternalRPC ==
  \E permitted, valid, accepted \in BOOLEAN :
    /\ permitted => NacmPermits(user, Exec(asked.node))
    /\ IF ~permitted THEN rejectWithError(403) /\ NoEffect
       ELSE IF Schema[asked.node].name \notin HandledRPCs
       THEN rejectWithError(501) /\ NoEffect
       ELSE IF ~valid
       THEN (\E s \in {400, 500} : rejectWithError(s)) /\ NoEffect
       ELSE IF ~accepted
       THEN (\E s \in {400, 403, 404, 409, 500} : rejectWithError(s)) /\ NoEffect
       ELSE \E s \in {200, 204} : Done(s)

\* parseOp() refuses a payload that is not an input of the operation.  For an
\* operation without input it may read the format of a payload that came
\* without one: any of the outcomes below.
SendOperation ==
  /\ stage = "operation"
  /\ \/ (\E s \in {400, 500} : rejectWithError(s)) /\ NoEffect
     \/ asked.type = "Execute" /\ sendRPC
     \/ asked.type = "ExecuteInternal" /\ processInternalRPC
  /\ UNCHANGED <<request, nacm, alive, user, parentExists>>

-----------------------------------------------------------------------------
(* The other routes *)

ReadMethods == {"GET", "HEAD"}

\* The exceptions of sysrepo are not caught here.
OpenStream(stream) ==
  IF stream.type = "Error" THEN Plain(stream.code)
  ELSE IF stream.type = "SubscribedStream"
  THEN \E s \in {200, 404, 409} : Plain(s)
  ELSE IF req.path[1].name # "NETCONF" THEN Plain(404)
  ELSE \/ \E s \in {200, 400} : Plain(s)
       \/ stage' = "escaped" /\ Proceed

HandleStreams ==
  /\ stage = "new" /\ req.route = "streams"
  /\ IF req.method = "OPTIONS" THEN Bare(200) /\ NoEffect /\ UNCHANGED user
     ELSE \E result \in authorizeRequest(req.auth) :
            IF ~result.ok THEN processAuthError(result)
            ELSE /\ user' = result.user
                 /\ OpenStream(
                      asRestconfStreamRequest(req.method, req.path, req.query))
                 /\ NoEffect
  /\ UNCHANGED <<request, nacm, alive, parentExists>>

\* A module is hidden from users who may not read its location; asking
\* sysrepo for it may fail, and is not caught either.
ServeSchema ==
  IF ~parseModuleWithRevision(req.path) THEN Plain(400)
  ELSE IF asYangModule(req.path) = {} THEN Plain(404)
  ELSE \/ \E s \in {200, 404} : Plain(s)
       \/ stage' = "escaped" /\ Proceed

HandleYang ==
  /\ stage = "new" /\ req.route = "yang"
  /\ IF req.method \notin ReadMethods
     THEN /\ Bare(IF req.method = "OPTIONS" THEN 200 ELSE 405)
          /\ NoEffect
          /\ UNCHANGED user
     ELSE \E result \in authorizeRequest(req.auth) :
            IF ~result.ok THEN processAuthError(result)
            ELSE user' = result.user /\ ServeSchema /\ NoEffect
  /\ UNCHANGED <<request, nacm, alive, parentExists>>

\* /, /.well-known/host-meta and /telemetry/optics ask nobody.
HandleOther ==
  /\ stage = "new" /\ req.route \in {"telemetry", "host-meta", "other"}
  /\ Plain(IF req.route = "other" THEN 404 ELSE 200)
  /\ NoEffect
  /\ UNCHANGED <<request, nacm, alive, user, parentExists>>

-----------------------------------------------------------------------------
(* The delayed rejection, and the client *)

\* The timer's completion handler is queued.
TimerExpires ==
  /\ stage = "delayed"
  /\ stage' = "expired"
  /\ UNCHANGED <<request, nacm, alive, user, answer, answers, parentExists,
                 effects, faulted>>

\* The completion handler runs.
DelayedReject ==
  /\ stage = "expired"
  /\ Reject401
  /\ UNCHANGED <<request, nacm, alive, user, parentExists, effects, faulted>>

\* on_close cancels a timer that is still waiting; no more payload comes.
ClientCloses ==
  /\ alive /\ stage \in {"payload", "delayed", "expired", "done"}
  /\ alive' = FALSE
  /\ stage' = IF stage = "expired" THEN stage ELSE "done"
  /\ UNCHANGED <<request, nacm, user, answer, answers, parentExists, effects,
                 faulted>>

-----------------------------------------------------------------------------
(* sysrepo *)

NacmCommit ==
  /\ coming # <<>>
  /\ config' = Head(coming)
  /\ coming' = Tail(coming)
  /\ changes' = changes + 1
  /\ UNCHANGED <<request, anonymousEnabled, stage, alive, user, answer, answers,
                 parentExists, effects, faulted>>

\* Mutant of NacmCallback: access is enabled and never disabled again.
NacmCallbackEnables ==
  /\ changes > 0
  /\ changes' = changes - 1
  /\ anonymousEnabled' = (anonymousEnabled \/ validAnonymousNacmRules(config))
  /\ UNCHANGED <<request, config, coming, stage, alive, user, answer, answers,
                 parentExists, effects, faulted>>

\* The module change callback reads the rules there are now.
NacmCallback ==
  /\ changes > 0
  /\ changes' = changes - 1
  /\ anonymousEnabled' = validAnonymousNacmRules(config)
  /\ UNCHANGED <<request, config, coming, stage, alive, user, answer, answers,
                 parentExists, effects, faulted>>

\* The data node of an action is created or deleted.
DataChanges ==
  /\ stage \in {"payload", "operation"}
  /\ asked.node # NoNode /\ Schema[asked.node].kind = "Action"
  /\ parentExists' = ~parentExists
  /\ UNCHANGED <<request, nacm, stage, alive, user, answer, answers, effects,
                 faulted>>

-----------------------------------------------------------------------------

Handle == HandleRestconf \/ HandleStreams \/ HandleYang \/ HandleOther

Next ==
  \/ HandleRestconf
  \/ HandleStreams
  \/ HandleYang
  \/ HandleOther
  \/ EditPayload
  \/ CheckOperation
  \/ SendOperation
  \/ TimerExpires
  \/ DelayedReject
  \/ ClientCloses
  \/ NacmCommit
  \/ NacmCallback
  \/ DataChanges

Spec == Init /\ [][Next]_vars

\* The event loop and the timer go on; a payload ends or its connection
\* times out (read_timeout, 60 s).
FairSpec ==
  /\ Spec
  /\ WF_vars(Handle)
  /\ WF_vars(EditPayload \/ CheckOperation \/ (stage = "payload" /\ ClientCloses))
  /\ WF_vars(SendOperation)
  /\ WF_vars(TimerExpires)
  /\ WF_vars(DelayedReject)

-----------------------------------------------------------------------------
(* Properties *)

\* The state keeps its shape: every status is one the handlers send.
TypeOK ==
  /\ config \in NacmConfigs /\ coming \in Seq(NacmConfigs)
  /\ changes \in Nat
  /\ anonymousEnabled \in BOOLEAN
  /\ stage \in Stages
  /\ alive \in BOOLEAN
  /\ user \in PamUsers \cup {NoUser, Anonymous}
  /\ answer.status \in {0, 200, 201, 204, 400, 401, 403, 404, 405, 406, 409,
                        415, 500, 501}
  /\ answer.format \in {"none", "text", "JSON", "XML"}
  /\ answer.allow \subseteq Methods
  /\ answers \in Nat
  /\ parentExists \in BOOLEAN
  /\ \A i \in DOMAIN effects : effects[i].nodes \subseteq SchemaNodes \cup {NoNode}
  /\ faulted \in BOOLEAN

\* asRestconfRequest() has a type for every request its checks let through:
\* the std::logic_error at its end, which no handler catches, is not thrown.
\* (An error of sysrepo still leaves the handlers of streams and schemas.)
ClassificationIsTotal == stage = "escaped" => req.route # "restconf"

\* What a request changes is what its method and URI may change: GET, HEAD
\* and OPTIONS nothing; an edit only data, in a datastore that can be written,
\* never the datastore as a whole by DELETE; PUT and PATCH below the top level
\* the node of the URI and nothing else, although another module may have a
\* sibling of the same name; an RPC runs only by POST under /operations, and
\* an action never there.
EffectsFitRequest ==
  \A i \in DOMAIN effects :
    LET e == effects[i]
        uri == parseUriPath(req.raw_path)
    IN  /\ user # NoUser /\ req.method \notin {"GET", "HEAD", "OPTIONS"}
        /\ e.kind = "edit" =>
             /\ e.ds \in {"running", "candidate", "startup"}
             /\ uri.type \in DataPrefixes
             /\ \A n \in e.nodes \ {NoNode} : IsData(n)
             /\ NoNode \in e.nodes => req.method # "DELETE"
             /\ req.method # "POST" => The(asLibyangPath(uri.segs)) \in e.nodes
             /\ req.method # "POST" /\ Len(uri.segs) > 1 =>
                  e.nodes = asLibyangPath(uri.segs)
        /\ e.kind = "exec" =>
             \A n \in e.nodes :
               /\ req.method = "POST" /\ IsOperation(n)
               /\ Schema[n].kind = "RPC" <=>
                    uri.type = "BasicRestconfOperations"

\* yangInsert() dereferences the parameter point and takes the last element
\* of its path without a check; the checks of the query parameters and the
\* comparison of the schema nodes, elsewhere, see to it that both exist.
PointIsThere == ~faulted

\* The encoding of the answer against the accept header.  406 is for a header
\* that wants something and admits no format of the server.  Otherwise no other
\* format has a better quality than the one of the answer, where the quality of
\* a format is, as in RFC 9110, the one of the most specific range for it.  The
\* server sorts the ranges and takes the first that fits, JSON for a wildcard,
\* so this holds only when no wildcard has a better quality than a more specific
\* range for JSON; it does not for "json;q=0.5, xml;q=0.7, */*".
FormatIsAcceptable ==
  req.route = "restconf" /\ answers > 0 =>
    LET items == req.accept.items
    IN  /\ answer.status = 406 <=> Wanted(items) # {} /\ Served(items) = {}
        /\ (/\ WildcardsComeLast(items)
            /\ answer.format # "none" /\ answer.status # 415) =>
             \A g \in Formats : AsGoodAs(items, answer.format, g)

\* Every location in an answer can be followed: the URL of a YANG module
\* leads asYangModule() to that very module and revision, the URL of a stream
\* leads the stream parser to NETCONF, and the internal scheme never leaks.
LocationsResolve ==
  \A l \in answer.locations :
    /\ l.host = req.forward[1].host
    /\ l.root = "yang" =>
         parseModuleWithRevision(l.path) /\ asYangModule(l.path) = {l.of}
    /\ l.root = "streams" =>
         /\ l.path[1].name = "NETCONF"
         /\ asRestconfStreamRequest("GET", l.path, <<>>).type =
              "NotificationStream"

\* fieldsToXPath(), which shares one path between its branches and collects
\* at the ends the flag says, asks sysrepo for exactly those paths below the
\* resource.
FieldsReadTheirUnion ==
  answer.read # <<>> /\ Has(req.query, "fields") =>
    LET paths == answer.read[1].paths
        expr == Param(req.query, "fields").expr
    IN  Range(paths) = {parseUriPath(req.raw_path).segs \o d : d \in Denotes[expr]}

\* An anonymous request is let in only while the rules are valid, except in
\* the window between a commit and the callback that looks at it.
AnonymousNeedsValidRules ==
  [][user' = Anonymous /\ user # Anonymous =>
       validAnonymousNacmRules(config) \/ changes > 0]_vars

\* What the README asks of the rules (line 70): "The last rule in the first
\* rule-set must be a wildcard rule that disables all operations over all
\* modules", and anonymous access is disabled otherwise.  isRuleWildcardDeny()
\* also takes a rule that denies one RPC, notification or data node.
AnonymousNeedsDenyAll ==
  [][user' = Anonymous /\ user # Anonymous =>
       changes > 0 \/ LastRuleIsUnrestricted(config)]_vars

\* What validAnonymousNacmRules() is for: under rules it accepts, an anonymous
\* user changes nothing, and the only operation they run is
\* establish-subscription - provided that the rules are in force, that is, NACM
\* is enabled, the user is in the group, and the last rule is restricted to
\* nothing.  The code checks none of these three.
AnonymousOnlyReads ==
  [][(/\ user' = Anonymous /\ effects' # effects
      /\ validAnonymousNacmRules(config) /\ RulesAreInForce(config)) =>
       LET e == Last(effects')
       IN  /\ e.kind = "exec"
           /\ \A n \in e.nodes :
                /\ Schema[n].module = "ietf-subscribed-notifications"
                /\ Schema[n].name = "establish-subscription"]_vars

\* The status tells whether the request did something: an error of the
\* client (4xx) and 501 mean that nothing happened, success that it happened
\* once - also when the data node of an action goes between the check of
\* processActionOrRPC() and sendRPC().  (What a YANG patch tells is in DataEdits.)
StatusTellsExecution ==
  ~AsksYangPatch =>
    /\ answer.status \in (400..499) \cup {501} => effects = <<>>
    /\ (/\ req.route = "restconf" /\ answer.status \in 200..299
        /\ asked.type \in ForDatastore \ {"GetData"}) => Len(effects) = 1

\* No handler answers a request twice, but for a YANG patch of which an edit
\* is refused.
AnsweredOnce == answers <= 1 \/ AsksYangPatch

\* Every request gets an answer, unless its client leaves or an error of
\* sysrepo takes the thread of the server down: neither a payload nor the
\* delay after a failed authentication keeps it for ever.
EveryRequestIsAnswered == <>(answers > 0 \/ ~alive \/ stage = "escaped")

\* A comment of processAuthError() says that cancelling the timer lets its
\* completion handler know that the connection is gone: it never answers on
\* one that is.
CancelledTimerKnows == [][answers' # answers => alive]_vars
=============================================================================
