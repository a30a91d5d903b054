--------------------------- MODULE HandlersProofs ---------------------------
(***************************************************************************)
(* The invariant of Requests, and what the handlers do to it that answer   *)
(* without a payload.  The steps that take a payload, and the theorems,    *)
(* are in RequestsProofs.                                                  *)
(***************************************************************************)
EXTENDS Requests, UriProofs, MediaTypesProofs

\* Zenon does the first-order leaves; a leaf that reasons about numbers,
\* functions, records or sequences cites SMT.
USE Zenon

uri == parseUriPath(req.raw_path)

\* What Init derives from the request stays as it is.
RequestInv ==
  /\ \E s \in Scenarios : req = s.req
  /\ asked = asRestconfRequest(req.method, req.raw_path, req.query)
  /\ allowed = allowedHttpMethodsForUri(req.path)
  /\ encoding = chooseDataEncoding(req.accept, req.contentType)
  /\ reading = IF asked.type # "GetData" THEN [code |-> 0, paths |-> <<>>]
               ELSE ReadPaths(uri.segs, req.query)

\* The flag of the anonymous access lags behind the rules only while a
\* callback is due.
NacmInv ==
  /\ config \in NacmConfigs /\ coming \in Seq(NacmConfigs)
  /\ changes \in Nat
  /\ anonymousEnabled \in BOOLEAN
  /\ changes = 0 => (anonymousEnabled <=> validAnonymousNacmRules(config))

PlainEdits == {"CreateOrReplaceThisNode", "CreateChildren", "MergeData"}

\* Who is where: what a stage says about the request and its user.
StageInv ==
  /\ stage \in Stages
  /\ user \in PamUsers \cup {NoUser, Anonymous}
  /\ alive \in BOOLEAN /\ parentExists \in BOOLEAN
  /\ stage \in {"payload", "operation"} =>
       /\ req.route = "restconf" /\ user # NoUser /\ encoding.code = 0
  /\ stage = "payload" => asked.type \in PlainEdits \cup OperationTypes
  /\ stage = "payload" /\ asked.type \in PlainEdits => ~ReadOnly
  /\ stage = "operation" => asked.type \in OperationTypes
  /\ stage = "escaped" => req.route # "restconf"
  /\ stage \in {"delayed", "expired"} /\ req.route = "restconf" => encoding.code = 0

Pending == Stages \ {"done"}
Statuses == {0, 200, 201, 204, 400, 401, 403, 404, 405, 406, 409, 415, 500, 501}
AnswerFormats == {"none", "text", "JSON", "XML"}

\* Nothing was said and nothing was done.
Untouched == answers = 0 /\ answer = NoAnswer /\ effects = <<>>

\* EffectsFitRequest for one effect, carried out for u.
Fits(u, e) ==
  /\ u # NoUser /\ req.method \notin {"GET", "HEAD", "OPTIONS"}
  /\ e.nodes \subseteq Nodes
  /\ e.kind = "edit" =>
       /\ e.ds \in {"running", "candidate", "startup"}
       /\ uri.type \in DataPrefixes
       /\ \A n \in e.nodes \ {NoNode} : IsData(n)
       /\ NoNode \in e.nodes => req.method # "DELETE"
       /\ req.method # "POST" => The(asLibyangPath(uri.segs)) \in e.nodes
       /\ req.method # "POST" /\ Len(uri.segs) > 1 =>
            e.nodes = asLibyangPath(uri.segs)
  /\ e.kind = "exec" =>
       \A n \in e.nodes :
         /\ req.method = "POST" /\ IsOperation(n)
         /\ Schema[n].kind = "RPC" <=> uri.type = "BasicRestconfOperations"

\* The format and the status of an answer follow the choice of the encoding.
FormatFollows ==
  req.route = "restconf" /\ answers > 0 =>
    /\ answer.format \in {"none", encoding.response}
    /\ answer.status \in {406, 415} => encoding.code = answer.status
    /\ encoding.code # 0 => answer.status = encoding.code

\* Only a GET reads, and it reads what its query selects.
ReadFollows ==
  answer.read # <<>> => asked.type = "GetData" /\ answer.read[1].paths = reading.paths

\* What holds of the answer and of the effects at all times.
Settled ==
  /\ answers \in Nat /\ AnsweredOnce
  /\ answer.status \in Statuses
  /\ answer.format \in AnswerFormats
  /\ answer.allow \subseteq Methods
  /\ StatusTellsExecution
  /\ LocationsResolve
  /\ FormatFollows
  /\ ReadFollows
  /\ \A i \in DOMAIN effects : Fits(user, effects[i])

Core ==
  /\ StageInv
  /\ stage \in Pending => Untouched
  /\ Settled
  /\ faulted = FALSE

IInv == RequestInv /\ NacmInv /\ Core

-----------------------------------------------------------------------------
(* Facts about a request that no step changes *)

\* dataTypeFromMimeType() and chooseDataEncoding() return formats and codes.
LEMMA EncodingType ==
  ASSUME NEW accept, NEW contentType
  PROVE  /\ chooseDataEncoding(accept, contentType).code \in {0, 406, 415}
         /\ chooseDataEncoding(accept, contentType).response \in {"JSON", "XML"}
<1>1. \A m, w : dataTypeFromMimeType(m, w) \in {"JSON", "XML", "none"}
  BY DEF dataTypeFromMimeType
<1> DEFINE acceptTypes == parseAcceptHeader(accept)
           usable == {i \in DOMAIN acceptTypes :
                        dataTypeFromMimeType(acceptTypes[i], TRUE) # "none"}
           resAccept ==
             IF usable = {} THEN "none"
             ELSE dataTypeFromMimeType(
                    acceptTypes[CHOOSE i \in usable : \A j \in usable : i <= j],
                    TRUE)
           contentTypes == parseAcceptHeader(contentType)
           resContentType ==
             IF contentTypes = <<>> THEN "none"
             ELSE dataTypeFromMimeType(contentTypes[Len(contentTypes)], FALSE)
<1>2. resAccept \in {"JSON", "XML", "none"} /\ resContentType \in {"JSON", "XML", "none"}
  <2> HIDE DEF acceptTypes, usable, contentTypes
  <2> QED
    BY <1>1
<1>3. chooseDataEncoding(accept, contentType) =
        IF acceptTypes # <<>> /\ usable = {} THEN Encoding(406, "none", "JSON")
        ELSE IF contentTypes # <<>> /\ resContentType = "none"
        THEN Encoding(415, "none", "JSON")
        ELSE Encoding(0, resContentType,
               IF resAccept # "none" THEN resAccept
               ELSE IF resContentType # "none" THEN resContentType
               ELSE "JSON")
  BY DEF chooseDataEncoding
<1> HIDE DEF acceptTypes, usable, resAccept, contentTypes, resContentType
<1> QED
  BY SMT, <1>2, <1>3 DEF Encoding

\* The error of the parameter fields is one of a GET of the path.
LEMMA FieldsErrorType ==
  ASSUME NEW prefix, NEW expr
  PROVE  FieldsError(prefix, expr) \in {0, 400, 405}
<1> DEFINE paths == fieldsToXPath(prefix, expr)
           Code(p) ==
             IF FindPath(p) = {} THEN 400
             ELSE validateMethodForNode("GET",
                    UriPrefix("BasicRestconfData", NoText, <<>>), The(FindPath(p)))
           wrong == {i \in DOMAIN paths : Code(paths[i]) # 0}
<1>1. \A p : Code(p) \in {0, 400, 405}
  BY SMT, RefusalCodes
<1>2. FieldsError(prefix, expr) =
        IF wrong = {} THEN 0
        ELSE Code(paths[CHOOSE i \in wrong : \A j \in wrong : i <= j])
  BY DEF FieldsError
<1> HIDE DEF paths, Code, wrong
<1> QED
  BY SMT, <1>1, <1>2

\* What the steps need of RequestInv.
RequestFacts ==
  /\ req.raw_path \in Seq(Elements)
  /\ req.forward \in Seq([proto : STRING, host : STRING])
  /\ req.route \in Routes
  /\ Classified(asked, req.method, uri, req.query)
  /\ allowed \subseteq Methods
  /\ encoding.code \in {0, 406, 415}
  /\ encoding.response \in {"JSON", "XML"}
  /\ reading.code \in {0, 400, 405}

\* They follow.
LEMMA FactsOfRequest == RequestInv => RequestFacts
<1> SUFFICES ASSUME RequestInv PROVE RequestFacts
  OBVIOUS
<1>1. PICK s \in Scenarios : req = s.req
  BY DEF RequestInv
<1>2. /\ req.raw_path \in Seq(Elements)
      /\ req.forward \in Seq([proto : STRING, host : STRING])
      /\ req.route \in Routes
  BY <1>1, ScenarioAssumption
<1>3. Classified(asked, req.method, uri, req.query)
  BY <1>2, Classification DEF RequestInv, uri
<1>4. allowed \subseteq Methods
  <2>1. allowed = allowedHttpMethodsForUri(req.path)
    BY DEF RequestInv
  <2>2. "OPTIONS" \in Methods
    BY DEF Methods
  <2> QED
    BY <2>1, <2>2 DEF allowedHttpMethodsForUri
<1>5. encoding.code \in {0, 406, 415} /\ encoding.response \in {"JSON", "XML"}
  BY SMT, EncodingType DEF RequestInv
<1>6. reading.code \in {0, 400, 405}
  BY SMT, FieldsErrorType DEF RequestInv, ReadPaths
<1> QED
  BY ZenonT(30), <1>2, <1>3, <1>4, <1>5, <1>6 DEF RequestFacts

-----------------------------------------------------------------------------
(* Answers *)

\* The first answer, with status s and format f.
Said(s, f) ==
  /\ stage' = "done" /\ answers' = 1
  /\ answer'.status = s /\ answer'.format = f
  /\ answer'.allow \subseteq Methods
  /\ answer'.locations = {} /\ answer'.read = <<>>

\* What the functions that answer say, when they are the first to do so.
LEMMA Responses ==
  ASSUME RequestFacts, Untouched, NEW s
  PROVE  /\ Plain(s) => Said(s, "text")
         /\ InBody(s) => Said(s, encoding.response)
         /\ Bare(s) => Said(s, "none")
         /\ rejectWithError(s) => Said(s, encoding.response)
<1>1. allowed \subseteq Methods /\ answers = 0
  BY ZenonT(30) DEF RequestFacts, Untouched
<1>2. \A a : Respond(a) => stage' = "done" /\ answers' = 1 /\ answer' = a
  BY SMT, <1>1 DEF Respond
<1> DEFINE Is(x, f, al) ==
             /\ x.status = s /\ x.format = f /\ x.allow = al
             /\ x.locations = {} /\ x.read = <<>>
<1>3. \A x, f, al : Respond(x) /\ Is(x, f, al) /\ al \subseteq Methods => Said(s, f)
  BY <1>2 DEF Said
<1>4. Plain(s) => Said(s, "text")
  <2> DEFINE x == [NoAnswer EXCEPT !.status = s, !.format = "text"]
  <2>1. Is(x, "text", {})
    BY DEF NoAnswer
  <2>2. Plain(s) => Respond(x)
    BY DEF Plain
  <2> HIDE DEF x, Is
  <2> QED
    BY SMT, <1>3, <2>1, <2>2
<1>5. InBody(s) => Said(s, encoding.response)
  <2> DEFINE x == [NoAnswer EXCEPT !.status = s, !.format = encoding.response]
  <2>1. Is(x, encoding.response, {})
    BY DEF NoAnswer
  <2>2. InBody(s) => Respond(x)
    BY DEF InBody
  <2> HIDE DEF x, Is
  <2> QED
    BY SMT, <1>3, <2>1, <2>2
<1>6. Bare(s) => Said(s, "none")
  <2> DEFINE x == [NoAnswer EXCEPT !.status = s]
  <2>1. Is(x, "none", {})
    BY DEF NoAnswer
  <2>2. Bare(s) => Respond(x)
    BY DEF Bare
  <2> HIDE DEF x, Is
  <2> QED
    BY SMT, <1>3, <2>1, <2>2
<1>7. rejectWithError(s) => Said(s, encoding.response)
  <2> DEFINE al == IF s = 405 THEN allowed ELSE {}
             x == [NoAnswer EXCEPT !.status = s, !.format = encoding.response, !.allow = al]
  <2>1. al \subseteq Methods
    BY <1>1
  <2>2. rejectWithError(s) => Respond(x)
    BY DEF rejectWithError
  <2> HIDE DEF al
  <2>3. Is(x, encoding.response, al)
    BY DEF NoAnswer
  <2> HIDE DEF x, Is
  <2> QED
    BY <1>3, <2>1, <2>2, <2>3
<1> QED
  BY <1>4, <1>5, <1>6, <1>7

\* OPTIONS is answered without a body, with the methods allowed.
LEMMA AllowResponse ==
  ASSUME RequestFacts, Untouched, NEW s,
         Respond([NoAnswer EXCEPT !.status = s, !.allow = allowed])
  PROVE  Said(s, "none")
<1>1. allowed \subseteq Methods /\ answers = 0
  BY ZenonT(30) DEF RequestFacts, Untouched
<1> DEFINE x == [NoAnswer EXCEPT !.status = s, !.allow = allowed]
<1>2. /\ x.status = s /\ x.format = "none" /\ x.allow = allowed
      /\ x.locations = {} /\ x.read = <<>>
  BY DEF NoAnswer
<1>3. Respond(x)
  OBVIOUS
<1> HIDE DEF x
<1>4. stage' = "done" /\ answers' = 1 /\ answer' = x
  BY SMT, <1>1, <1>3 DEF Respond
<1> QED
  BY <1>1, <1>2, <1>4 DEF Said

\* The format and the status fit the choice of the encoding.
FitsEncoding(s, f) ==
  req.route = "restconf" =>
    /\ f \in {"none", encoding.response}
    /\ s \in {406, 415} => encoding.code = s
    /\ encoding.code # 0 => s = encoding.code

\* Before anything was said or done, all that Settled demands holds.
LEMMA UntouchedIsSettled ==
  ASSUME Untouched PROVE Settled
<1>1. /\ answer.status = 0 /\ answer.format = "none" /\ answer.allow = {}
      /\ answer.locations = {} /\ answer.read = <<>> /\ answers = 0 /\ effects = <<>>
  BY DEF Untouched, NoAnswer
<1> QED
  BY SMT, <1>1 DEF Settled, Statuses, AnswerFormats, AnsweredOnce, StatusTellsExecution,
              LocationsResolve, FormatFollows, ReadFollows

\* A first answer keeps Settled when its status tells what was done.
LEMMA Settling ==
  ASSUME RequestFacts, UNCHANGED request,
         NEW s \in Statuses, NEW f \in AnswerFormats, Said(s, f), FitsEncoding(s, f),
         s \in (400 .. 499) \cup {501} => effects' = <<>>,
         (req.route = "restconf" /\ s \in 200 .. 299
           /\ asked.type \in ForDatastore \ {"GetData"}) => Len(effects') = 1,
         \A i \in DOMAIN effects' : Fits(user', effects'[i])
  PROVE  Settled'
<1>1. req' = req /\ asked' = asked /\ encoding' = encoding /\ reading' = reading
  BY DEF request
<1>2. /\ answer'.status = s /\ answer'.format = f /\ answer'.allow \subseteq Methods
      /\ answer'.locations = {} /\ answer'.read = <<>> /\ answers' = 1
  BY DEF Said
<1>3. (answers \in Nat)' /\ AnsweredOnce'
  BY SMT, <1>2 DEF AnsweredOnce
<1>4. StatusTellsExecution'
  BY SMT, <1>1, <1>2 DEF StatusTellsExecution
<1>5. LocationsResolve' /\ ReadFollows'
  BY <1>2 DEF LocationsResolve, ReadFollows
<1>6. FormatFollows'
  BY SMT, <1>1, <1>2 DEF FormatFollows, FitsEncoding
<1>7. (\A i \in DOMAIN effects : Fits(user, effects[i]))'
  BY <1>1 DEF Fits, uri
<1> QED
  BY <1>2, <1>3, <1>4, <1>5, <1>6, <1>7 DEF Settled

\* A step that neither answers nor does anything keeps it.
LEMMA SettledFrame ==
  ASSUME Settled, UNCHANGED <<request, user, answer, answers, effects>>
  PROVE  Settled'
<1>1. /\ req' = req /\ asked' = asked /\ encoding' = encoding /\ reading' = reading
      /\ user' = user /\ answer' = answer /\ answers' = answers /\ effects' = effects
  BY DEF request
<1>2. StatusTellsExecution'
  BY SMT, <1>1 DEF Settled, StatusTellsExecution, AsksYangPatch
<1>3. AnsweredOnce'
  BY <1>1 DEF Settled, AnsweredOnce, AsksYangPatch
<1>4. LocationsResolve'
  BY <1>1 DEF Settled, LocationsResolve
<1>5. FormatFollows' /\ ReadFollows'
  BY SMT, <1>1 DEF Settled, FormatFollows, ReadFollows
<1>6. (\A i \in DOMAIN effects : Fits(user, effects[i]))'
  BY <1>1 DEF Settled, Fits, uri
<1> QED
  BY <1>1, <1>2, <1>3, <1>4, <1>5, <1>6 DEF Settled

Errors == {400, 401, 403, 404, 405, 409, 500, 501}

\* An error without an effect keeps it.
LEMMA Rejecting ==
  ASSUME RequestFacts, Untouched, UNCHANGED request, effects' = effects,
         encoding.code = 0, NEW s \in Errors, rejectWithError(s)
  PROVE  stage' = "done" /\ Settled'
<1>1. Said(s, encoding.response)
  BY Responses
<1>2. encoding.response \in AnswerFormats /\ s \in Statuses /\ s \notin 200 .. 299
  BY SMT DEF RequestFacts, AnswerFormats, Statuses, Errors
<1>3. FitsEncoding(s, encoding.response)
  BY SMT DEF FitsEncoding, Errors
<1>4. effects' = <<>>
  BY DEF Untouched
<1>5. \A i \in DOMAIN effects' : Fits(user', effects'[i])
  BY SMT, <1>4
<1>6. Settled'
  BY <1>1, <1>2, <1>3, <1>4, <1>5, Settling
<1> QED
  BY <1>1, <1>6 DEF Said

\* So does an answer in text on a route other than /restconf.
LEMMA PlainAnswer ==
  ASSUME RequestFacts, Untouched, UNCHANGED request, effects' = effects,
         req.route # "restconf", NEW s \in Statuses, Plain(s) \/ Bare(s)
  PROVE  stage' = "done" /\ Settled'
<1>1. PICK f \in {"text", "none"} : Said(s, f)
  BY Responses
<1>2. f \in AnswerFormats
  BY DEF AnswerFormats
<1>3. FitsEncoding(s, f)
  BY DEF FitsEncoding
<1>4. effects' = <<>>
  BY DEF Untouched
<1>5. \A i \in DOMAIN effects' : Fits(user', effects'[i])
  BY SMT, <1>4
<1>6. Settled'
  BY <1>1, <1>2, <1>3, <1>4, <1>5, Settling
<1> QED
  BY <1>1, <1>6 DEF Said

-----------------------------------------------------------------------------
(* The handlers *)

Users == PamUsers \cup {NoUser, Anonymous}

\* A step that ends the request.
LEMMA CoreDone ==
  ASSUME stage' = "done", Settled', faulted' = FALSE, (user \in Users)',
         (alive \in BOOLEAN)', (parentExists \in BOOLEAN)'
  PROVE  Core'
BY DEF Core, StageInv, Stages, Pending, Users

\* A step that goes on with it.
LEMMA CoreMove ==
  ASSUME Untouched, faulted = FALSE, UNCHANGED <<answer, answers, effects, faulted>>, StageInv'
  PROVE  Core'
<1>1. Untouched' /\ faulted' = FALSE
  BY DEF Untouched
<1>2. Settled'
  BY <1>1, UntouchedIsSettled, PTL
<1> QED
  BY <1>1, <1>2 DEF Core

\* Who is authorized has a name, and is anonymous only if that is enabled.
LEMMA Authorized ==
  ASSUME NEW header, NEW r \in authorizeRequest(header)
  PROVE  r.ok => /\ r.user \in PamUsers \cup {Anonymous}
                 /\ r.user # NoUser
                 /\ r.user = Anonymous => anonymousEnabled
<1> DEFINE S == IF header = "none" THEN {AuthResult(Anonymous, TRUE, FALSE)}
                ELSE authenticate_pam(header)
<1>1. \A x \in S : x.ok => x.user \in PamUsers \cup {Anonymous}
  <2>1. CASE header = "none"
    BY SMT, <2>1 DEF AuthResult
  <2>2. CASE header # "none"
    BY SMT, <2>2 DEF AuthResult, authenticate_pam
  <2> QED
    BY <2>1, <2>2
<1>2. PICK x \in S : r = IF x.ok /\ ~authorize(x.user)
                         THEN AuthResult(NoUser, FALSE, FALSE) ELSE x
  BY DEF authorizeRequest
<1> HIDE DEF S
<1>3. CASE x.ok /\ ~authorize(x.user)
  BY <1>2, <1>3 DEF AuthResult
<1>4. CASE ~(x.ok /\ ~authorize(x.user))
  <2>1. r = x
    BY <1>2, <1>4
  <2>2. r.ok => r.user \in PamUsers \cup {Anonymous}
    BY <1>1, <2>1
  <2>3. r.ok => (r.user = Anonymous => anonymousEnabled)
    BY <1>4, <2>1 DEF authorize
  <2> QED
    BY <2>2, <2>3, UserAssumption
<1> QED
  BY <1>3, <1>4

\* processAuthError(), at once or after a delay.
LEMMA AuthError ==
  ASSUME RequestFacts, Core, stage = "new",
         req.route = "restconf" => encoding.code = 0,
         NEW result, processAuthError(result),
         UNCHANGED <<request, alive, parentExists>>
  PROVE  Core'
<1>1. Untouched /\ StageInv /\ faulted = FALSE
  BY DEF Core, Pending, Stages
<1>2. /\ user' = user /\ effects' = effects /\ faulted' = faulted
      /\ alive' = alive /\ parentExists' = parentExists
  BY DEF processAuthError, NoEffect
<1>3. (user \in Users)' /\ (alive \in BOOLEAN)' /\ (parentExists \in BOOLEAN)' /\ faulted' = FALSE
  BY <1>1, <1>2 DEF StageInv, Users
<1>4. CASE result.delay
  <2>1. stage' = "delayed" /\ UNCHANGED <<answer, answers>>
    BY <1>4 DEF processAuthError, Proceed
  <2>2. StageInv'
    BY <1>1, <1>2, <2>1 DEF StageInv, Stages, request
  <2> QED
    BY <1>1, <1>2, <2>1, <2>2, CoreMove
<1>5. CASE ~result.delay
  <2>1. Reject401
    BY <1>5 DEF processAuthError
  <2>2. stage' = "done" /\ Settled'
    <3>1. CASE req.route = "restconf"
      BY SMT, <1>1, <1>2, <2>1, <3>1, Rejecting DEF Reject401, Errors
    <3>2. CASE req.route # "restconf"
      BY SMT, <1>1, <1>2, <2>1, <3>2, PlainAnswer DEF Reject401, Statuses
    <3> QED
      BY <3>1, <3>2
  <2> QED
    BY <1>3, <2>2, CoreDone
<1> QED
  BY <1>4, <1>5

\* The branches of the handler for /restconf that change nothing.
LEMMA QuietBranches ==
  ASSUME RequestFacts, Untouched, req.route = "restconf", encoding.code = 0,
         UNCHANGED request, ApiResource \/ OptionsQuery \/ RefuseRequest
  PROVE  stage' = "done" /\ Settled' /\ faulted' = faulted
<1>0. effects' = effects /\ faulted' = faulted /\ effects' = <<>>
  BY DEF ApiResource, OptionsQuery, RefuseRequest, NoEffect, Untouched
<1>1. \A i \in DOMAIN effects' : Fits(user', effects'[i])
  BY SMT, <1>0
<1>2. {"none", encoding.response} \subseteq AnswerFormats
  BY SMT DEF RequestFacts, AnswerFormats
<1>3. ASSUME NEW s \in {200, 404}, NEW f \in {"none", encoding.response}, Said(s, f),
             asked.type \notin ForDatastore
      PROVE  stage' = "done" /\ Settled'
  <2>1. s \in Statuses /\ f \in AnswerFormats /\ FitsEncoding(s, f)
    BY SMT, <1>2 DEF Statuses, FitsEncoding
  <2> QED
    BY SMT, <1>0, <1>1, <1>3, <2>1, Settling DEF Said
<1>4. CASE ApiResource
  <2>1. asked.type \notin ForDatastore
    BY <1>4 DEF ApiResource, ForDatastore
  <2>2. Said(200, encoding.response)
    BY <1>4, Responses DEF ApiResource
  <2> QED
    BY ZenonT(30), <1>0, <1>3, <2>1, <2>2
<1>5. CASE OptionsQuery
  <2>1. asked.type \notin ForDatastore
    BY <1>5 DEF OptionsQuery, ForDatastore
  <2>2. Said(200, "none") \/ Said(404, "none")
    <3>1. Bare(404) => Said(404, "none")
      BY SMT, Responses
    <3>2. Respond([NoAnswer EXCEPT !.status = 200, !.allow = allowed])
            => Said(200, "none")
      BY AllowResponse, Zenon
    <3> QED
      BY <1>5, <3>1, <3>2, Zenon DEF OptionsQuery
  <2> QED
    BY SMT, <1>0, <1>3, <2>1, <2>2
<1>6. CASE RefuseRequest
  <2>1. asked.type = "Error" /\ asked.code \in {400, 405}
    BY SMT, <1>6 DEF RefuseRequest, RequestFacts, Classified
  <2>2. rejectWithError(asked.code)
    BY <1>6, <2>1 DEF RefuseRequest
  <2> QED
    BY SMT, <1>0, <2>1, <2>2, Rejecting DEF Errors
<1> QED
  BY <1>4, <1>5, <1>6

-----------------------------------------------------------------------------
(* GET *)

\* LocationsResolve for one location.
Resolves(l) ==
  /\ l.host = req.forward[1].host
  /\ l.root = "yang" =>
       parseModuleWithRevision(l.path) /\ asYangModule(l.path) = {l.of}
  /\ l.root = "streams" =>
       /\ l.path[1].name = "NETCONF"
       /\ asRestconfStreamRequest("GET", l.path, <<>>).type = "NotificationStream"

\* Every location the server fills in can be followed.
LEMMA FilledLocations ==
  ASSUME RequestFacts, NEW modules \in SUBSET Library,
         NEW streams \in SUBSET notificationStreamList,
         NEW l \in replaceYangLibraryLocations(parseUrlPrefix(req.forward), modules)
                   \cup replaceStreamLocations(parseUrlPrefix(req.forward), streams)
  PROVE  Resolves(l)
<1> DEFINE host == parseUrlPrefix(req.forward)
<1>1. req.forward \in Seq([proto : STRING, host : STRING])
  BY DEF RequestFacts
<1>2. host # NoPart
  BY DEF replaceYangLibraryLocations, replaceStreamLocations
<1>3. req.forward # <<>> /\ host = req.forward[1].host
  BY ONLY <1>1, <1>2 DEF parseUrlPrefix, parseForwardedHeader
<1> HIDE DEF host
<1>4. CASE l \in replaceYangLibraryLocations(host, modules)
  <2>1. PICK m \in modules :
          l = Location(host, "yang", IF m.rev = NoText THEN <<Word(m.name)>>
                                     ELSE <<Word(m.name), Word(m.rev)>>, m)
    BY <1>2, <1>4 DEF replaceYangLibraryLocations
  <2>2. /\ l.host = host /\ l.root = "yang" /\ l.of = m
        /\ l.path = IF m.rev = NoText THEN <<Word(m.name)>>
                    ELSE <<Word(m.name), Word(m.rev)>>
    BY <2>1 DEF Location
  <2>3. parseModuleWithRevision(l.path) /\ asYangModule(l.path) = {m}
    BY <2>2, ModuleUrl
  <2> QED
    BY <1>3, <2>2, <2>3 DEF Resolves
<1>5. CASE l \in replaceStreamLocations(host, streams)
  <2>1. PICK k \in streams : l = [k EXCEPT !.host = host]
    BY <1>2, <1>5 DEF replaceStreamLocations
  <2>2. PICK e \in {"XML", "JSON"} :
          k = Location(rousetteURIScheme, "streams", <<Word("NETCONF"), Word(e)>>, NoText)
    BY <2>1 DEF notificationStreamList
  <2>3. l.host = host /\ l.root = "streams" /\ l.path = <<Word("NETCONF"), Word(e)>>
    BY <2>1, <2>2 DEF Location
  <2>4. /\ l.path[1].name = "NETCONF"
        /\ asRestconfStreamRequest("GET", l.path, <<>>).type = "NotificationStream"
    BY <2>3, StreamUrl
  <2> QED
    BY <1>3, <2>3, <2>4 DEF Resolves
<1> QED
  BY <1>4, <1>5 DEF host

\* GET
LEMMA GetDataBranch ==
  ASSUME RequestFacts, Untouched, req.route = "restconf", encoding.code = 0,
         UNCHANGED request, GetData
  PROVE  stage' = "done" /\ Settled' /\ faulted' = faulted
<1>0. effects' = effects /\ faulted' = faulted /\ effects' = <<>> /\ asked.type = "GetData"
  BY DEF GetData, NoEffect, Untouched
<1>1. CASE \E s \in Errors : rejectWithError(s)
  BY <1>0, <1>1, Rejecting
<1>2. ASSUME NEW modules \in {{}, Library}, NEW streams \in {{}, notificationStreamList},
             NEW x,
             x = [NoAnswer EXCEPT
                    !.status = 200,
                    !.format = encoding.response,
                    !.locations =
                      replaceYangLibraryLocations(parseUrlPrefix(req.forward), modules)
                      \cup replaceStreamLocations(parseUrlPrefix(req.forward), streams),
                    !.read = <<ReadOf(reading.paths)>>],
             Respond(x)
      PROVE  stage' = "done" /\ Settled'
  <2> DEFINE L == replaceYangLibraryLocations(parseUrlPrefix(req.forward), modules)
                  \cup replaceStreamLocations(parseUrlPrefix(req.forward), streams)
             R == <<ReadOf(reading.paths)>>
  <2>1. \A l \in L : Resolves(l)
    BY <1>2, FilledLocations
  <2>2. R[1].paths = reading.paths
    BY DEF ReadOf
  <2> HIDE DEF L, R
  <2>3. /\ x.status = 200 /\ x.format = encoding.response /\ x.allow = {}
        /\ x.locations = L /\ x.read = R
    BY <1>2 DEF NoAnswer, L, R
  <2>4. stage' = "done" /\ answers' = 1 /\ answer' = x
    BY SMT, <1>2 DEF Respond, Untouched
  <2>5. req' = req /\ asked' = asked /\ encoding' = encoding /\ reading' = reading
    BY DEF request
  <2>6. (answers \in Nat)' /\ AnsweredOnce'
    BY SMT, <2>4 DEF AnsweredOnce
  <2>7. StatusTellsExecution'
    BY <1>0, <2>3, <2>4, <2>5 DEF StatusTellsExecution
  <2>8. LocationsResolve'
    <3>1. answer'.locations = L
      BY ONLY Zenon, <2>3, <2>4
    <3> QED
      BY ONLY Zenon, <2>1, <2>5, <3>1 DEF LocationsResolve, Resolves
  <2>9. ReadFollows'
    BY <1>0, <2>2, <2>3, <2>4, <2>5 DEF ReadFollows
  <2>10. FormatFollows'
    BY SMT, <2>3, <2>4, <2>5 DEF FormatFollows
  <2>11. (\A i \in DOMAIN effects : Fits(user, effects[i]))'
    BY SMT, <1>0
  <2>12. /\ answer'.status \in Statuses /\ answer'.format \in AnswerFormats
         /\ answer'.allow \subseteq Methods
    BY SMT, <2>3, <2>4 DEF Statuses, AnswerFormats, RequestFacts
  <2> QED
    BY <2>4, <2>6, <2>7, <2>8, <2>9, <2>10, <2>11, <2>12 DEF Settled
<1>3. CASE reading.code # 0
  <2>1. reading.code \in Errors /\ rejectWithError(reading.code)
    BY SMT, <1>3 DEF GetData, RequestFacts, Errors
  <2> QED
    BY <1>0, <1>1, <2>1
<1>4. CASE reading.code = 0
  <2>1. CASE rejectWithError(404) \/ rejectWithError(500)
    BY SMT, <1>0, <1>1, <2>1 DEF Errors
  <2>2. CASE ~(rejectWithError(404) \/ rejectWithError(500))
    BY SMT, <1>0, <1>2, <1>4, <2>2 DEF GetData
  <2> QED
    BY <2>1, <2>2
<1> QED
  BY <1>3, <1>4

-----------------------------------------------------------------------------
(* Effects *)

\* What the classification says of a request that edits.
LEMMA EditRequest ==
  ASSUME RequestFacts, asked.type \in EditTypes
  PROVE  /\ asLibyangPath(uri.segs) = {asked.node} /\ asked.node \in Nodes
         /\ uri.type \in DataPrefixes
         /\ asked.node # NoNode => IsData(asked.node)
         /\ req.method \in {"PUT", "POST", "PATCH", "DELETE"}
         /\ req.method = "POST" <=> asked.type = "CreateChildren"
         /\ req.method = "DELETE" <=> asked.type = "DeleteNode"
         /\ req.method = "DELETE" => asked.node # NoNode
         /\ ~ReadOnly => Datastore \in {"running", "candidate", "startup"}
<1>1. asked.type \in ForDatastore
  BY DEF EditTypes, ForDatastore
<1>2. Classified(asked, req.method, uri, req.query)
  BY DEF RequestFacts
<1>3. /\ asLibyangPath(uri.segs) = {asked.node} /\ asked.node \in Nodes
      /\ req.method \in Methods
      /\ validateMethodForNode(req.method, uri, asked.node) = 0
      /\ asked.type = RequestType(req.method, uri, asked.node)
      /\ asked.ds \in KnownDatastores
  BY <1>1, <1>2 DEF Classified
<1>4. /\ uri.type \in DataPrefixes
      /\ asked.node # NoNode =>
           Schema[asked.node].kind \notin {"RPC", "Action", "Notification"}
      /\ req.method \in {"PUT", "POST", "PATCH", "DELETE"}
      /\ req.method = "POST" <=> asked.type = "CreateChildren"
      /\ req.method = "DELETE" <=> asked.type = "DeleteNode"
      /\ req.method = "DELETE" => asked.node # NoNode
  BY SMT, <1>3, EditFits
<1>5. ~ReadOnly => Datastore \in {"running", "candidate", "startup"}
  BY <1>3 DEF KnownDatastores, ReadOnly, Datastore
<1> QED
  BY <1>3, <1>4, <1>5 DEF IsData

\* And of one that runs an RPC or action.
LEMMA OperationRequest ==
  ASSUME RequestFacts, asked.type \in OperationTypes
  PROVE  /\ asked.node \in SchemaNodes
         /\ req.method = "POST" /\ IsOperation(asked.node)
         /\ Schema[asked.node].kind = "RPC" <=> uri.type = "BasicRestconfOperations"
<1>1. asked.type \in ForDatastore
  BY DEF OperationTypes, ForDatastore
<1>2. Classified(asked, req.method, uri, req.query)
  BY DEF RequestFacts
<1>3. /\ asked.node \in Nodes /\ req.method \in Methods
      /\ validateMethodForNode(req.method, uri, asked.node) = 0
      /\ asked.type = RequestType(req.method, uri, asked.node)
  BY <1>1, <1>2 DEF Classified
<1>4. /\ req.method = "POST" /\ asked.node # NoNode /\ IsOperation(asked.node)
      /\ Schema[asked.node].kind = "RPC" <=> uri.type = "BasicRestconfOperations"
  BY <1>3, OperationFits
<1> QED
  BY <1>3, <1>4 DEF Nodes

\* When an edit of some nodes fits the request.
LEMMA EditFitsRequest ==
  ASSUME RequestFacts, asked.type \in EditTypes, ~ReadOnly, NEW u, u # NoUser,
         NEW nodes \in SUBSET Nodes,
         \A n \in nodes \ {NoNode} : IsData(n),
         NoNode \in nodes => req.method # "DELETE",
         req.method # "POST" => asked.node \in nodes,
         req.method # "POST" /\ Len(uri.segs) > 1 => nodes = {asked.node}
  PROVE  Fits(u, Effect("edit", Datastore, nodes))
<1> DEFINE e == Effect("edit", Datastore, nodes)
<1>1. e.kind = "edit" /\ e.ds = Datastore /\ e.nodes = nodes
  BY DEF Effect
<1>2. The(asLibyangPath(uri.segs)) = asked.node
  BY EditRequest DEF The
<1> HIDE DEF e
<1>3. Fits(u, e)
  BY <1>1, <1>2, EditRequest DEF Fits
<1> QED
  BY <1>3 DEF e

\* The execution of the operation of the URI fits the request.
LEMMA ExecFitsRequest ==
  ASSUME RequestFacts, asked.type \in OperationTypes, NEW u, u # NoUser
  PROVE  Fits(u, Effect("exec", "operational", {asked.node}))
<1> DEFINE e == Effect("exec", "operational", {asked.node})
<1>1. e.kind = "exec" /\ e.nodes = {asked.node}
  BY DEF Effect
<1> HIDE DEF e
<1>2. Fits(u, e)
  BY <1>1, OperationRequest DEF Fits, Nodes
<1> QED
  BY <1>2 DEF e

\* An answer that follows an effect: success, or an error of the server.
LEMMA Acting ==
  ASSUME RequestFacts, Untouched, UNCHANGED request, encoding.code = 0,
         NEW e, effects' = Append(effects, e), Fits(user', e),
         NEW s \in {200, 201, 204, 500},
         InBody(s) \/ Bare(s) \/ rejectWithError(s)
  PROVE  stage' = "done" /\ Settled'
<1>1. PICK f \in {"none", encoding.response} : Said(s, f)
  <2>1. /\ InBody(s) => Said(s, encoding.response)
        /\ Bare(s) => Said(s, "none")
        /\ rejectWithError(s) => Said(s, encoding.response)
    BY ONLY RequestFacts, Untouched, Responses
  <2> QED
    BY SMT, <2>1
<1>2. f \in AnswerFormats /\ s \in Statuses /\ FitsEncoding(s, f)
  BY SMT DEF RequestFacts, AnswerFormats, Statuses, FitsEncoding
<1>3. effects' = <<e>>
  BY SMT DEF Untouched
<1>4. Len(effects') = 1 /\ \A i \in DOMAIN effects' : Fits(user', effects'[i])
  BY SMT, <1>3
<1>5. s \notin (400 .. 499) \cup {501}
  BY SMT
<1>6. Settled'
  BY SMT, <1>1, <1>2, <1>4, <1>5, Settling
<1> QED
  BY <1>1, <1>6 DEF Said

-----------------------------------------------------------------------------
(* Every action keeps Core *)

\* DELETE
LEMMA DeleteBranch ==
  ASSUME RequestFacts, Untouched, req.route = "restconf", encoding.code = 0,
         UNCHANGED request, NEW u, u # NoUser, user' = u, DeleteNode(u)
  PROVE  stage' = "done" /\ Settled' /\ faulted' = faulted
<1>0. asked.type = "DeleteNode" /\ asked.type \in EditTypes /\ faulted' = faulted
  BY DEF DeleteNode, EditTypes, NoEffect, Carry
<1>1. CASE \E s \in Errors : rejectWithError(s) /\ NoEffect
  BY <1>0, <1>1, Rejecting DEF NoEffect
<1>2. CASE /\ ~ReadOnly /\ Bare(204)
           /\ Carry(Effect("edit", Datastore, {asked.node}))
  <2>0. PICK e : e = Effect("edit", Datastore, {asked.node})
    OBVIOUS
  <2>1. req.method = "DELETE" /\ asked.node # NoNode /\ asked.node \in Nodes
        /\ IsData(asked.node)
    BY <1>0, EditRequest
  <2>2. Fits(user', e)
    BY <1>0, <1>2, <2>0, <2>1, EditFitsRequest
  <2>3. effects' = Append(effects, e) /\ Bare(204)
    BY <1>2, <2>0 DEF Carry
  <2>4. stage' = "done" /\ Settled'
    BY SMT, <2>2, <2>3, Acting
  <2> QED
    BY <1>0, <2>4
<1>3. \/ \E s \in Errors : rejectWithError(s) /\ NoEffect
      \/ ~ReadOnly /\ Bare(204) /\ Carry(Effect("edit", Datastore, {asked.node}))
  <2>1. CASE ReadOnly
    BY SMT, <2>1 DEF DeleteNode, Errors
  <2>2. CASE ~ReadOnly
    BY SMT, <2>2 DEF DeleteNode, Errors
  <2> QED
    BY <2>1, <2>2
<1> QED
  BY <1>1, <1>2, <1>3

\* Requests that wait for their payload.
LEMMA BeginBranches ==
  ASSUME RequestFacts, Core, Untouched, req.route = "restconf", encoding.code = 0,
         UNCHANGED <<request, alive, parentExists>>, user' # NoUser, (user \in Users)',
         BeginEdit \/ BeginExecute
  PROVE  Core'
<1>0. StageInv /\ faulted = FALSE /\ effects' = effects /\ faulted' = faulted
  BY DEF Core, BeginEdit, BeginExecute, NoEffect
<1>1. (alive \in BOOLEAN)' /\ (parentExists \in BOOLEAN)' /\ faulted' = FALSE
  BY <1>0 DEF StageInv
<1>2. CASE stage' = "payload" /\ Proceed
  <2>1. asked.type \in PlainEdits \cup OperationTypes
        /\ (asked.type \in PlainEdits => ~ReadOnly)
    <3>1. CASE BeginExecute
      BY <3>1 DEF BeginExecute, PlainEdits, OperationTypes
    <3>2. CASE BeginEdit
      <4>1. ~ReadOnly
        BY <1>2, <3>2 DEF BeginEdit, rejectWithError, Respond
      <4> QED
        BY <3>2, <4>1 DEF BeginEdit, PlainEdits
    <3> QED
      BY <3>1, <3>2
  <2>2. StageInv'
    BY <1>0, <1>1, <1>2, <2>1 DEF StageInv, Stages, request, Users, ReadOnly
  <2> QED
    BY <1>0, <1>2, <2>2, CoreMove DEF Proceed
<1>3. CASE \E s \in Errors : rejectWithError(s)
  <2>1. stage' = "done" /\ Settled'
    BY <1>0, <1>3, Rejecting
  <2> QED
    BY <1>1, <2>1, CoreDone
<1> QED
  BY SMT, <1>2, <1>3 DEF BeginEdit, BeginExecute, Errors

\* The handler for /restconf.
LEMMA HandleRestconfStep ==
  ASSUME RequestFacts, Core, HandleRestconf
  PROVE  Core' /\ UNCHANGED <<request, nacm>>
<1>0. /\ stage = "new" /\ req.route = "restconf"
      /\ UNCHANGED <<request, nacm, alive, parentExists>>
  BY DEF HandleRestconf
<1>1. Untouched /\ StageInv /\ faulted = FALSE
  BY <1>0 DEF Core, Pending, Stages
<1>2. (alive \in BOOLEAN)' /\ (parentExists \in BOOLEAN)' /\ user \in Users
  BY <1>0, <1>1 DEF StageInv, Users
<1>3. CASE encoding.code # 0
  <2>1. rejectWithError(encoding.code) /\ NoEffect /\ user' = user
    BY <1>3 DEF HandleRestconf
  <2>2. Said(encoding.code, encoding.response)
    BY <1>1, <2>1, Responses
  <2>3. /\ encoding.code \in Statuses /\ ~(encoding.code \in 200 .. 299)
        /\ encoding.response \in AnswerFormats
    <3>1. encoding.code = 406 \/ encoding.code = 415
      BY ZenonT(30), <1>3 DEF RequestFacts
    <3>2. encoding.response \in AnswerFormats
      BY ZenonT(30) DEF RequestFacts, AnswerFormats
    <3> QED
      BY SMT, <3>1, <3>2 DEF Statuses
  <2>4. FitsEncoding(encoding.code, encoding.response)
    BY DEF FitsEncoding
  <2>5. effects' = <<>> /\ faulted' = faulted
    BY <1>1, <2>1 DEF NoEffect, Untouched
  <2>6. \A i \in DOMAIN effects' : Fits(user', effects'[i])
    BY SMT, <2>5
  <2>7. Settled'
    BY <1>0, <2>2, <2>3, <2>4, <2>5, <2>6, Settling
  <2> QED
    BY <1>0, <1>1, <1>2, <2>1, <2>2, <2>5, <2>7, CoreDone DEF Said
<1>4. CASE encoding.code = 0
  <2>1. PICK result \in authorizeRequest(req.auth) :
          IF ~result.ok THEN processAuthError(result)
          ELSE /\ user' = result.user
               /\ \/ ApiResource \/ OptionsQuery \/ RefuseRequest
                  \/ GetData \/ BeginEdit \/ DeleteNode(result.user) \/ BeginExecute
    BY <1>4 DEF HandleRestconf
  <2>2. CASE ~result.ok
    BY <1>0, <1>4, <2>1, <2>2, AuthError
  <2>3. CASE result.ok
    <3>1. user' = result.user /\ user' # NoUser /\ user' \in Users
      BY <2>1, <2>3, Authorized DEF Users
    <3>2. CASE BeginEdit \/ BeginExecute
      BY <1>0, <1>1, <1>4, <3>1, <3>2, BeginBranches
    <3>3. CASE ApiResource \/ OptionsQuery \/ RefuseRequest \/ GetData
               \/ DeleteNode(result.user)
      <4>1. stage' = "done" /\ Settled' /\ faulted' = faulted
        BY <1>0, <1>1, <1>4, <3>1, <3>3, QuietBranches, GetDataBranch, DeleteBranch
      <4> QED
        BY <1>0, <1>1, <1>2, <3>1, <4>1, CoreDone
    <3> QED
      BY <1>0, <2>1, <2>3, <3>2, <3>3
  <2> QED
    BY <1>0, <2>2, <2>3
<1> QED
  BY <1>0, <1>3, <1>4

\* The handlers for /streams, /yang and the rest.
LEMMA OtherHandlersStep ==
  ASSUME RequestFacts, Core, HandleStreams \/ HandleYang \/ HandleOther
  PROVE  Core' /\ UNCHANGED <<request, nacm>>
<1>0. /\ stage = "new" /\ req.route # "restconf"
      /\ UNCHANGED <<request, nacm, alive, parentExists>>
  BY DEF HandleStreams, HandleYang, HandleOther
<1>1. Untouched /\ StageInv /\ faulted = FALSE
  BY <1>0 DEF Core, Pending, Stages
<1>2. (alive \in BOOLEAN)' /\ (parentExists \in BOOLEAN)' /\ user \in Users
  BY <1>0, <1>1 DEF StageInv, Users
<1>3. CASE NoEffect /\ user' \in Users /\ \E s \in Statuses : Plain(s) \/ Bare(s)
  <2>1. stage' = "done" /\ Settled' /\ faulted' = faulted
    BY <1>0, <1>1, <1>3, PlainAnswer DEF NoEffect
  <2> QED
    BY <1>0, <1>1, <1>2, <1>3, <2>1, CoreDone
<1>4. CASE NoEffect /\ user' \in Users /\ stage' = "escaped" /\ Proceed
  <2>1. StageInv'
    BY <1>0, <1>2, <1>4 DEF StageInv, Stages, request, Users
  <2> QED
    BY <1>0, <1>1, <1>4, <2>1, CoreMove DEF NoEffect, Proceed
<1>5. ASSUME NEW result \in authorizeRequest(req.auth), ~result.ok, processAuthError(result)
      PROVE  Core' /\ UNCHANGED <<request, nacm>>
  BY <1>0, <1>5, AuthError
<1>6. \A result \in authorizeRequest(req.auth) : result.ok => result.user \in Users
  BY Authorized DEF Users
<1>7. CASE HandleStreams
  <2>1. CASE req.method = "OPTIONS"
    BY SMT, <1>2, <1>3, <1>7, <2>1 DEF HandleStreams, Statuses
  <2>2. CASE req.method # "OPTIONS"
    <3> DEFINE stream == asRestconfStreamRequest(req.method, req.path, req.query)
    <3>1. stream.type = "Error" => stream.code \in Statuses
      BY SMT DEF asRestconfStreamRequest, Error, Request, Statuses, parseStreamUri
    <3> HIDE DEF stream
    <3>2. PICK result \in authorizeRequest(req.auth) :
            IF ~result.ok THEN processAuthError(result)
            ELSE user' = result.user /\ OpenStream(stream) /\ NoEffect
      BY <1>7, <2>2 DEF HandleStreams, stream
    <3>3. CASE result.ok
      <4>1. user' \in Users /\ NoEffect /\ OpenStream(stream)
        BY <1>6, <3>2, <3>3
      <4>2. \/ \E s \in Statuses : Plain(s) \/ Bare(s)
            \/ stage' = "escaped" /\ Proceed
        <5>1. \/ stream.type = "Error" /\ Plain(stream.code)
              \/ \E s \in {200, 400, 404, 409} : Plain(s)
              \/ stage' = "escaped" /\ Proceed
          BY ONLY <4>1 DEF OpenStream
        <5>2. {200, 400, 404, 409} \subseteq Statuses
          BY ONLY DEF Statuses
        <5> QED
          BY ONLY <3>1, <5>1, <5>2
      <4> QED
        BY <1>3, <1>4, <4>1, <4>2
    <3> QED
      BY <1>5, <3>2, <3>3
  <2> QED
    BY <2>1, <2>2
<1>8. CASE HandleYang
  <2>1. CASE req.method \notin ReadMethods
    BY SMT, <1>2, <1>3, <1>8, <2>1 DEF HandleYang, Statuses
  <2>2. CASE req.method \in ReadMethods
    <3>1. PICK result \in authorizeRequest(req.auth) :
            IF ~result.ok THEN processAuthError(result)
            ELSE user' = result.user /\ ServeSchema /\ NoEffect
      BY <1>8, <2>2 DEF HandleYang
    <3>2. CASE result.ok
      <4>1. user' \in Users /\ NoEffect /\ ServeSchema
        BY <1>6, <3>1, <3>2
      <4>2. \/ \E s \in Statuses : Plain(s) \/ Bare(s)
            \/ stage' = "escaped" /\ Proceed
        BY SMT, <4>1 DEF ServeSchema, Statuses
      <4> QED
        BY <1>3, <1>4, <4>1, <4>2
    <3> QED
      BY <1>5, <3>1, <3>2
  <2> QED
    BY <2>1, <2>2
<1>9. CASE HandleOther
  BY SMT, <1>2, <1>3, <1>9 DEF HandleOther, Statuses
<1> QED
  BY <1>7, <1>8, <1>9

-----------------------------------------------------------------------------
(* What the payload of an edit touches *)

\* yangInsert() finds the parameter point and the last element of its path.
LEMMA PointExists ==
  ASSUME RequestFacts, asked.type \in PlainEdits, NEW n \in SchemaNodes
  PROVE  ~InsertFaults(n)
<1> SUFFICES ASSUME InsertAtPoint,
                    ~Has(req.query, "point") \/ (yangInsert(n) = 0 /\ Point = <<>>)
             PROVE  FALSE
  BY DEF InsertFaults
<1>1. validateQueryParameters(req.query, req.method)
  <2>1. asked.type \in ForDatastore
    BY DEF PlainEdits, ForDatastore
  <2> QED
    BY ZenonT(30), <2>1 DEF RequestFacts, Classified
<1>2. Has(req.query, "point")
  <2> DEFINE i == CHOOSE i \in Params(req.query, "insert") : TRUE
  <2>1. i \in Params(req.query, "insert") /\ req.query[i].value \in {"before", "after"}
    BY DEF InsertAtPoint, Has, Param
  <2> HIDE DEF i
  <2>2. /\ i \in DOMAIN req.query /\ req.query[i].name = "insert"
        /\ req.query[i].value \in {"before", "after"}
    BY <2>1 DEF Params
  <2>3. Has(req.query, "point") <=>
          \E k \in DOMAIN req.query : /\ req.query[k].name = "insert"
                                      /\ req.query[k].value \in {"after", "before"}
    BY <1>1 DEF validateQueryParameters
  <2> QED
    BY <2>2, <2>3
<1>3. yangInsert(n) = 0 /\ Point = <<>>
  BY <1>2
<1>4. asLibyangPath(<<>>) = {NoNode}
  <2>1. <<>> \in Seq(Elements)
    BY SMT
  <2> QED
    BY <2>1, PathLeadsToOne
<1>5. asLibyangPath(Point) = {n}
  BY SMT, <1>3 DEF yangInsert
<1>6. NoNode \notin SchemaNodes
  BY SchemaAssumption DEF SchemaAssumption
<1> QED
  BY <1>3, <1>4, <1>5, <1>6

\* A payload is one or two sibling data nodes.
LEMMA PayloadNodes ==
  ASSUME NEW payload \in Payloads
  PROVE  /\ payload \in Seq(SchemaNodes) /\ 1 \in DOMAIN payload
         /\ \A i \in DOMAIN payload :
              /\ payload[i] \in SchemaNodes /\ IsData(payload[i])
              /\ asked.type # "CreateChildren" =>
                   Schema[payload[i]].parent = Schema[asked.node].parent
<1>1. \/ \E n \in Siblings : payload = <<n>>
      \/ \E n, m \in Siblings : payload = <<n, m>>
  BY SMT DEF Payloads
<1>2. payload \in Seq(Siblings) /\ 1 \in DOMAIN payload
  <2>1. CASE \E n \in Siblings : payload = <<n>>
    <3>1. PICK n \in Siblings : payload = <<n>>
      BY <2>1
    <3>2. <<n>> \in Seq(Siblings) /\ 1 \in DOMAIN <<n>>
      BY SMT
    <3> QED
      BY <3>1, <3>2
  <2>2. CASE \E n, m \in Siblings : payload = <<n, m>>
    <3>1. PICK n \in Siblings, m \in Siblings : payload = <<n, m>>
      BY <2>2
    <3>2. <<n, m>> \in Seq(Siblings) /\ 1 \in DOMAIN <<n, m>>
      BY SMT
    <3> QED
      BY <3>1, <3>2
  <2> QED
    BY <1>1, <2>1, <2>2
<1>3. \A i \in DOMAIN payload : payload[i] \in Siblings
  BY SMT, <1>2
<1>4. payload \in Seq(SchemaNodes)
  <2>1. Siblings \subseteq SchemaNodes
    BY DEF Siblings
  <2> QED
    BY ONLY <1>2, <2>1
<1> QED
  BY <1>2, <1>3, <1>4 DEF Siblings

\* A node of the payload that createEditForPutAndPatch() compares with the
\* URI and accepts is the node of the URI.
LEMMA SameNode ==
  ASSUME RequestFacts, asked.type \in EditTypes, asked.node # NoNode,
         NEW n \in SchemaNodes, Schema[n].parent = Schema[asked.node].parent,
         isSameNode(n, asLibyangPathSplit(uri.segs).last)
  PROVE  n = asked.node /\ uri.segs # <<>>
<1> DEFINE segs == uri.segs
           last == Last(segs)
<1>1. segs \in Seq(Elements)
  <2>1. req.raw_path \in Seq(Elements)
    BY DEF RequestFacts
  <2> QED
    BY ONLY Zenon, <2>1, SegmentsType DEF uri
<1>2. asLibyangPath(segs) = {asked.node}
  BY EditRequest
<1>3. segs # <<>>
  BY <1>1, <1>2, PathLeadsToOne
<1>4. PICK p \in Nodes : asked.node \in findChildSchemaNode(p, segs[Len(segs)])
  BY <1>1, <1>2, <1>3, PathLeadsToOne
<1>5. last = segs[Len(segs)] /\ last \in Elements
  <2>1. PICK s : s = segs
    OBVIOUS
  <2>2. s[Len(s)] \in Elements
    BY ONLY <1>1, <1>3, <2>1
  <2> QED
    BY ONLY Zenon, <2>1, <2>2 DEF Last
<1>6. /\ asked.node \in SchemaNodes
      /\ Schema[asked.node].name = last.name
      /\ last.mod # NoText => Schema[asked.node].module = last.mod
  BY <1>4, <1>5 DEF findChildSchemaNode
<1>7. The(asLibyangPath(segs)) = asked.node
  BY <1>2 DEF The
<1> DEFINE split == asLibyangPathSplit(segs)
<1>8. split.last = IF last.mod # NoText THEN last
                   ELSE [last EXCEPT !.mod = Schema[asked.node].module]
  BY <1>7 DEF asLibyangPathSplit
<1> HIDE DEF last, split, segs
<1>9. split.last.name = last.name /\ split.last.mod = Schema[asked.node].module
  BY <1>5, <1>6, <1>8 DEF Elements
<1>10. Schema[n].module = Schema[asked.node].module /\ Schema[n].name = Schema[asked.node].name
  BY <1>6, <1>9 DEF isSameNode, split, segs
<1>11. n = asked.node
  BY <1>6, <1>10, SchemaAssumption, Zenon DEF SchemaAssumption
<1> QED
  BY <1>3, <1>11 DEF segs

\* The edit that PUT, POST and plain PATCH make of a payload fits the request.
LEMMA PayloadFits ==
  ASSUME RequestFacts, asked.type \in PlainEdits, ~ReadOnly, NEW u, u # NoUser,
         asked.node # NoNode \/ asked.type = "CreateChildren",
         NEW payload \in Payloads, createEditForPutAndPatch(payload)
  PROVE  Fits(u, Effect("edit", Datastore, Range(payload)))
<1> DEFINE nodes == Range(payload)
           segs == uri.segs
<1>0. asked.type \in EditTypes
  BY DEF PlainEdits, EditTypes
<1>1. /\ payload \in Seq(SchemaNodes) /\ 1 \in DOMAIN payload
      /\ \A i \in DOMAIN payload :
           /\ payload[i] \in SchemaNodes /\ IsData(payload[i])
           /\ asked.type # "CreateChildren" =>
                Schema[payload[i]].parent = Schema[asked.node].parent
  BY PayloadNodes
<1>2. nodes \in SUBSET Nodes /\ \A n \in nodes : n # NoNode /\ IsData(n)
  <2>1. NoNode \notin SchemaNodes
    BY SchemaAssumption DEF SchemaAssumption
  <2> QED
    BY <1>1, <2>1 DEF Range, Nodes
<1>3. req.method # "POST" => asked.type # "CreateChildren" /\ asked.node # NoNode
  BY <1>0, EditRequest
<1>4. ASSUME req.method # "POST"
      PROVE  asked.node \in nodes /\ (Len(segs) > 1 => nodes = {asked.node})
  <2> DEFINE split == asLibyangPathSplit(segs)
  <2>1. \A i \in IF split.parent = <<>> THEN {1} ELSE DOMAIN payload :
          isSameNode(payload[i], split.last)
    BY <1>3, <1>4 DEF createEditForPutAndPatch, uri
  <2>2. ASSUME NEW i \in DOMAIN payload, isSameNode(payload[i], split.last)
        PROVE  payload[i] = asked.node
    BY <1>0, <1>1, <1>3, <1>4, <2>2, SameNode
  <2>3. Len(segs) > 1 => split.parent # <<>>
    <3>1. segs \in Seq(Elements)
      BY SMT, SegmentsType DEF RequestFacts, uri
    <3>2. split.parent = SubSeq(segs, 1, Len(segs) - 1)
      BY DEF asLibyangPathSplit
    <3> HIDE DEF segs, split
    <3> SUFFICES ASSUME Len(segs) > 1 PROVE Len(split.parent) # 0
      OBVIOUS
    <3> QED
      BY SMT, <3>1, <3>2
  <2> HIDE DEF split, segs
  <2>4. payload[1] = asked.node
    BY <1>1, <2>1, <2>2
  <2>5. Len(segs) > 1 => \A i \in DOMAIN payload : payload[i] = asked.node
    BY <2>1, <2>2, <2>3
  <2> QED
    BY <1>1, <2>4, <2>5 DEF Range
<1>5. NoNode \in nodes => req.method # "DELETE"
  BY <1>2
<1> HIDE DEF nodes
<1>6. Fits(u, Effect("edit", Datastore, nodes))
  BY <1>0, <1>2, <1>4, <1>5, EditFitsRequest
<1> QED
  BY <1>6 DEF nodes
=============================================================================
