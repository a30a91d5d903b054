-------------------------------- MODULE Uri --------------------------------
(***************************************************************************)
(* How a method, a path and a query string become a request               *)
(* (src/src/restconf/uri.cpp).                                             *)
(*                                                                         *)
(* A path is the sequence of the elements between its slashes, after       *)
(* /restconf; a trailing slash leaves an Empty element.  An element is     *)
(* module:name=key,key; a key is the sequence of its parts between         *)
(* percent-encoded slashes.  Spelling below that level (characters of      *)
(* identifiers, percent-encoding of other octets) is left out: an element  *)
(* the grammar of identifiers refuses has the name NoText.                 *)
(***************************************************************************)
EXTENDS Naturals, Sequences, Functions

CONSTANTS
  SchemaNodes,  \* nodes of the YANG schema
  NoNode,       \* the datastore itself
  Schema,       \* Schema[n]: parent, name, module, kind, number of keys
  InternalRPCs, \* the nodes of isInternalRPCPath()
  FieldNodes,   \* nodes of the expressions of the parameter fields
  FieldHeight   \* how many levels of nodes there are below each of them

Kinds == {"Container", "Leaf", "AnyData", "Leaflist", "List", "RPC",
          "Action", "Notification"}

\* input: an RPC or action with input nodes.  ordered: a list or leaf-list
\* that is ordered-by user.  YANG has no two siblings with the same name from
\* the same module.
ASSUME SchemaAssumption ==
  /\ NoNode \notin SchemaNodes
  /\ Schema \in [SchemaNodes ->
       [parent : SchemaNodes \cup {NoNode}, name : STRING, module : STRING,
        kind : Kinds, keys : Nat, input : BOOLEAN, ordered : BOOLEAN]]
  /\ \A n \in SchemaNodes :
       Schema[n].ordered => Schema[n].kind \in {"List", "Leaflist"}
  /\ \A m, n \in SchemaNodes :
       /\ Schema[m].parent = Schema[n].parent
       /\ Schema[m].name = Schema[n].name
       /\ Schema[m].module = Schema[n].module
       => m = n
  /\ InternalRPCs \subseteq {n \in SchemaNodes : Schema[n].kind = "RPC"}

\* An optional text that is not there: a prefix, a datastore, a revision.
NoText == ""

\* PathSegment
Elements == [mod : STRING, name : STRING, keys : Seq(Seq(STRING))]
Element(mod, name, keys) == [mod |-> mod, name |-> name, keys |-> keys]
Empty == Element(NoText, NoText, <<>>)
Word(name) == Element(NoText, name, <<>>)

Last(s) == s[Len(s)]

\* nghttp2 decodes uri().path: an encoded slash in the last key of an
\* element becomes a separator.
Decoded(path) ==
  LET Split(e) ==
        IF e.keys = <<>> \/ Len(Last(e.keys)) < 2 THEN <<e>>
        ELSE <<[e EXCEPT !.keys[Len(e.keys)] = <<Head(Last(e.keys))>>]>>
             \o [i \in 1..(Len(Last(e.keys)) - 1) |->
                   Word(Last(e.keys)[i + 1])]
      upTo[i \in 0..Len(path)] ==
        IF i = 0 THEN <<>> ELSE upTo[i - 1] \o Split(path[i])
  IN  upTo[Len(path)]

-----------------------------------------------------------------------------
(* The grammars *)

Qualified(e) == e.mod # NoText /\ e.name # NoText

\* uriPath
IsUriPath(s) ==
  \/ s \in {<<>>, <<Empty>>}
  \/ s # <<>> /\ Qualified(s[1]) /\ \A i \in DOMAIN s : s[i].name # NoText

Segments(s) == IF s = <<Empty>> THEN <<>> ELSE s

UriPrefix(type, ds, segs) == [type |-> type, ds |-> ds, segs |-> segs]
SyntaxError == UriPrefix("SyntaxError", NoText, <<>>)

parseUriPath(p) ==
  LET Is(name) == p # <<>> /\ p[1] = Word(name)
      From(n) == SubSeq(p, n, Len(p))
  IN  IF p \in {<<>>, <<Empty>>} THEN UriPrefix("RestconfRoot", NoText, <<>>)
      ELSE IF Is("data") /\ IsUriPath(From(2))
      THEN UriPrefix("BasicRestconfData", NoText, Segments(From(2)))
      ELSE IF /\ Is("ds") /\ Len(p) > 1 /\ Qualified(p[2])
              /\ p[2].keys = <<>> /\ IsUriPath(From(3))
      THEN UriPrefix("NMDADatastore",
             IF p[2].mod = "ietf-datastores" THEN p[2].name ELSE "other",
             Segments(From(3)))
      ELSE IF Is("operations") /\ IsUriPath(From(2))
      THEN UriPrefix("BasicRestconfOperations", NoText, Segments(From(2)))
      ELSE IF Is("yang-library-version") /\ From(2) \in {<<>>, <<Empty>>}
      THEN UriPrefix("YangLibraryVersion", NoText, <<>>)
      ELSE SyntaxError

\* One query parameter: value is its text, num the number of depth, segs the
\* path of point, expr the expression of fields.
ParsesParam(q) ==
  CASE q.name = "depth" -> \/ q.value = "unbounded"
                           \/ q.value = "number" /\ q.num \in 1..65535
    [] q.name = "with-defaults" ->
         q.value \in {"trim", "explicit", "report-all", "report-all-tagged"}
    [] q.name = "content" -> q.value \in {"all", "nonconfig", "config"}
    [] q.name = "insert" -> q.value \in {"first", "last", "after", "before"}
    [] q.name = "point" -> IsUriPath(q.segs)
    [] q.name = "filter" -> q.value # NoText
    [] q.name \in {"start-time", "stop-time"} -> q.value = "time"
    [] q.name = "fields" -> q.expr \in FieldNodes /\ q.expr.kind = "Semi"
    [] OTHER -> FALSE

\* An empty path of point is recognised by the end of the query only.
parseQueryParams(query) ==
  \A i \in DOMAIN query :
    /\ ParsesParam(query[i])
    /\ query[i].name = "point" /\ Segments(query[i].segs) = <<>> =>
         i = Len(query)

Params(query, name) == {i \in DOMAIN query : query[i].name = name}
Has(query, name) == Params(query, name) # {}
Param(query, name) == query[CHOOSE i \in Params(query, name) : TRUE]

-----------------------------------------------------------------------------
(* Paths and the schema *)

\* The child of n an element names; a set of at most one node.
findChildSchemaNode(n, e) ==
  {c \in SchemaNodes :
     /\ Schema[c].parent = n
     /\ Schema[c].name = e.name
     /\ Schema[c].module = IF e.mod = NoText /\ n # NoNode THEN Schema[n].module
                           ELSE e.mod}

\* escapeListKey() finds a quote for every key but one with both kinds.
Quotable(key) == \A i \in DOMAIN key : key[i] # "mixed quotes"

KeysFit(n, e) ==
  /\ CASE Schema[n].kind = "List" ->
            Schema[n].keys > 0 /\ Len(e.keys) = Schema[n].keys
       [] Schema[n].kind = "Leaflist" -> Len(e.keys) = 1
       [] OTHER -> e.keys = <<>>
  /\ \A i \in DOMAIN e.keys : Quotable(e.keys[i])

IsOperation(n) == Schema[n].kind \in {"RPC", "Action"}

\* Where segment i leads from the nodes in found.
FollowSegment(found, segs, i) ==
  UNION {{c \in findChildSchemaNode(n, segs[i]) :
            /\ KeysFit(c, segs[i])
            /\ i < Len(segs) => ~IsOperation(c)} : n \in found}

\* The schema node a path leads to; {} when the path is refused (400).
asLibyangPath(segs) ==
  LET step[i \in 0..Len(segs)] ==
        IF i = 0 THEN {NoNode} ELSE FollowSegment(step[i - 1], segs, i)
  IN  step[Len(segs)]

The(found) == CHOOSE n \in found : TRUE

\* Parent path and last segment; the segment gets the module of its node.
asLibyangPathSplit(segs) ==
  [parent |-> SubSeq(segs, 1, Len(segs) - 1),
   last |-> IF Last(segs).mod # NoText THEN Last(segs)
            ELSE [Last(segs) EXCEPT
                    !.mod = Schema[The(asLibyangPath(segs))].module]]

-----------------------------------------------------------------------------
(* What a method may do where; 0 is no error *)

DataPrefixes == {"BasicRestconfData", "NMDADatastore"}

checkValidDataResource(n, type) ==
  IF type \notin DataPrefixes THEN 400
  ELSE IF IsOperation(n) THEN 405
  ELSE IF Schema[n].kind = "Notification" THEN 400 ELSE 0

\* Mutant of validateMethodForNode: DELETE of the datastore passes.
validateMethodForNodeDelete(method, uri, n) ==
  IF method = "OPTIONS" \/ (n = NoNode /\ uri.type \in DataPrefixes) THEN 0
  ELSE IF n = NoNode THEN IF method \in {"GET", "HEAD"} THEN 0 ELSE 405
  ELSE IF method = "POST" /\ IsOperation(n) THEN 0
  ELSE checkValidDataResource(n, uri.type)

validateMethodForNode(method, uri, n) ==
  IF method = "OPTIONS" THEN 0
  ELSE IF n = NoNode
  THEN IF uri.type \in DataPrefixes
       THEN (IF method = "DELETE" THEN 400 ELSE 0)
       ELSE IF method \in {"GET", "HEAD"} THEN 0 ELSE 405
  ELSE IF method = "POST" /\ Schema[n].kind = "RPC"
  THEN IF uri.type = "BasicRestconfOperations" THEN 0 ELSE 400
  ELSE IF method = "POST" /\ Schema[n].kind = "Action"
  THEN IF \/ uri.type = "BasicRestconfData"
          \/ uri.type = "NMDADatastore" /\ uri.ds = "operational"
       THEN 0 ELSE 400
  ELSE checkValidDataResource(n, uri.type)

Once(query) ==
  \A i, j \in DOMAIN query : query[i].name = query[j].name => i = j

\* Mutant of validateQueryParameters: insert and point are not compared.
validateQueryParametersNoPoint(query, method) ==
  /\ Once(query)
  /\ \A p \in {"filter", "start-time", "stop-time"} : ~Has(query, p)

validateQueryParameters(query, method) ==
  /\ Once(query)
  /\ method \notin {"GET", "HEAD"} =>
       \A p \in {"depth", "with-defaults", "content", "fields"} :
         ~Has(query, p)
  /\ method \notin {"POST", "PUT"} =>
       ~Has(query, "insert") /\ ~Has(query, "point")
  /\ \A p \in {"filter", "start-time", "stop-time"} : ~Has(query, p)
  /\ Has(query, "point") <=>
       \E i \in DOMAIN query : /\ query[i].name = "insert"
                               /\ query[i].value \in {"after", "before"}

validateQueryParametersForStream(query) ==
  /\ Once(query)
  /\ \A i \in DOMAIN query :
       query[i].name \in {"filter", "start-time", "stop-time"}

-----------------------------------------------------------------------------
(* Requests *)

Methods == {"GET", "PUT", "POST", "DELETE", "HEAD", "OPTIONS", "PATCH"}

Request(type, ds, node, code) ==
  [type |-> type, ds |-> ds, node |-> node, code |-> code]
Error(code) == Request("Error", NoText, NoNode, code)

RequestType(method, uri, n) ==
  IF method = "OPTIONS" THEN "OptionsQuery"
  ELSE IF uri.type = "RestconfRoot" THEN "RestconfRoot"
  ELSE IF uri.type = "YangLibraryVersion" THEN "YangLibraryVersion"
  ELSE IF uri.type = "BasicRestconfOperations" /\ n = NoNode THEN "ListRPC"
  ELSE IF method \in {"GET", "HEAD"} THEN "GetData"
  ELSE IF method = "PUT" THEN "CreateOrReplaceThisNode"
  ELSE IF method = "DELETE" /\ n # NoNode THEN "DeleteNode"
  ELSE IF method = "POST" /\ n # NoNode /\ IsOperation(n)
  THEN IF n \in InternalRPCs THEN "ExecuteInternal" ELSE "Execute"
  ELSE IF method = "POST" /\ uri.type \in DataPrefixes THEN "CreateChildren"
  ELSE IF method = "PATCH" THEN "MergeData"
  ELSE "Unhandled"

\* The types that keep the datastore of the URI.
ForDatastore == {"GetData", "CreateOrReplaceThisNode", "DeleteNode",
                 "Execute", "ExecuteInternal", "CreateChildren", "MergeData"}

\* datastoreFromString(); NoText is no datastore in the URI.
KnownDatastores ==
  {NoText, "running", "operational", "candidate", "startup", "factory-default"}

asRestconfRequest(method, path, query) ==
  LET uri == parseUriPath(path)
      found == asLibyangPath(uri.segs)
      refused == validateMethodForNode(method, uri, The(found))
      type == RequestType(method, uri, The(found))
  IN  IF method \notin Methods THEN Error(405)
      ELSE IF \/ uri = SyntaxError
              \/ ~parseQueryParams(query)
              \/ ~validateQueryParameters(query, method)
              \/ found = {}
      THEN Error(400)
      ELSE IF refused # 0 THEN Error(refused)
      ELSE IF type \notin ForDatastore THEN Request(type, NoText, NoNode, 0)
      ELSE IF uri.ds \notin KnownDatastores THEN Error(400)
      ELSE Request(type, uri.ds, The(found), 0)

\* OPTIONS is in the list when something else is.
allowedHttpMethodsForUri(path) ==
  LET accepted == {m \in Methods \ {"OPTIONS"} :
                     asRestconfRequest(m, path, <<>>).type # "Error"}
  IN  accepted \cup IF accepted = {} THEN {} ELSE {"OPTIONS"}

\* The path of a stream, after /streams: subscribed/<uuid> or <name>/<format>.
\* What begins like the former cannot be the latter.
parseStreamUri(path) ==
  CASE path = <<Word("subscribed"), Word("uuid")>> -> "SubscribedStream"
    [] /\ Len(path) = 2 /\ path[1].name \notin {NoText, "subscribed"}
       /\ path[1] = Word(path[1].name)
       /\ path[2] \in {Word("XML"), Word("JSON")} -> "NotificationStream"
    [] OTHER -> "SyntaxError"

asRestconfStreamRequest(method, path, query) ==
  LET type == parseStreamUri(path)
  IN  IF method \notin {"GET", "HEAD"} THEN Error(405)
      ELSE IF \/ type = "SyntaxError"
              \/ /\ type = "NotificationStream"
                 /\ ~(/\ parseQueryParams(query)
                      /\ validateQueryParametersForStream(query))
      THEN Error(400)
      ELSE Request(type, NoText, NoNode, 0)

-----------------------------------------------------------------------------
(***************************************************************************)
(* The query parameter fields.  A node of its expression is a Slash        *)
(* (identifier, then maybe a Slash), a Paren (a Slash, then maybe a Semi   *)
(* in parentheses) or a Semi (a Paren, then maybe a Semi after the         *)
(* semicolon); rhs is <<>> or <<node>>.  The code walks it depth first     *)
(* with one vector currentPath, passed by reference.                       *)
(***************************************************************************)

IsChild(c, n, kind) ==
  c \in FieldNodes /\ c.kind = kind /\ FieldHeight[c] < FieldHeight[n]

\* What the grammar builds: trees of these three types.
ASSUME FieldAssumption ==
  /\ FieldHeight \in [FieldNodes -> Nat]
  /\ \A n \in FieldNodes :
       \/ /\ n.kind = "Slash" /\ n.lhs \in Elements
          /\ n.rhs # <<>> => IsChild(n.rhs[1], n, "Slash")
       \/ /\ n.kind = "Paren" /\ IsChild(n.lhs, n, "Slash")
          /\ n.rhs # <<>> => IsChild(n.rhs[1], n, "Semi")
       \/ /\ n.kind = "Semi" /\ IsChild(n.lhs, n, "Paren")
          /\ n.rhs # <<>> => IsChild(n.rhs[1], n, "Semi")

\* Mutant of RightPath: all branches share one path.
RightPathShared(node, before, after) == after

\* Where the walk of the right side starts: a Semi goes on with the copy made
\* before its left side, a Paren with the path its left side has left.
RightPath(node, before, after) ==
  IF node.kind = "Semi" THEN before ELSE after

\* The arguments of a visit: node, currentPath and end.
Visits == FieldNodes \X Seq(Elements) \X BOOLEAN

\* One visit, which makes the visits walk: currentPath after it, and the paths
\* it adds to the output.
Visit(walk, a) ==
  LET node == a[1]
      pushed == Append(a[2], node.lhs)
      left == walk[<<node.lhs, a[2], node.rhs = <<>> >>]
      right == walk[<<node.rhs[1], RightPath(node, a[2], left.currentPath),
                      node.kind # "Semi" /\ a[3]>>]
  IN  CASE node.kind = "Slash" /\ node.rhs # <<>> ->
             walk[<<node.rhs[1], pushed, a[3]>>]
        [] node.kind = "Slash" /\ node.rhs = <<>> ->
             [currentPath |-> pushed,
              output |-> IF a[3] THEN <<pushed>> ELSE <<>>]
        [] node.kind # "Slash" /\ node.rhs = <<>> -> left
        [] OTHER ->
             [currentPath |-> IF node.kind = "Semi" THEN left.currentPath
                              ELSE right.currentPath,
              output |-> left.output \o right.output]

Walk[a \in Visits] == Visit(Walk, a)

fieldsToXPath(prefix, expr) == Walk[<<expr, prefix, FALSE>>].output

Joined(left, right) == {l \o r : l \in left, r \in right}

\* What an expression stands for, the reference for fieldsToXPath(): a slash
\* and parentheses concatenate, a semicolon is a union.
Meaning(denotes, node) ==
  LET left == IF node.kind = "Slash" THEN {<<node.lhs>>} ELSE denotes[node.lhs]
      right == denotes[node.rhs[1]]
  IN  IF node.rhs = <<>> THEN left
      ELSE IF node.kind = "Semi" THEN left \cup right
      ELSE Joined(left, right)

Denotes[node \in FieldNodes] == Meaning(Denotes, node)

\* libyang resolves a schema path without looking at keys.
FindPath(segs) ==
  LET step[i \in 0..Len(segs)] ==
        IF i = 0 THEN {NoNode}
        ELSE UNION {findChildSchemaNode(n, segs[i]) : n \in step[i - 1]}
  IN  step[Len(segs)]

\* The first path the schema does not allow decides the error.
FieldsError(prefix, expr) ==
  LET paths == fieldsToXPath(prefix, expr)
      Code(p) ==
        IF FindPath(p) = {} THEN 400
        ELSE validateMethodForNode("GET",
               UriPrefix("BasicRestconfData", NoText, <<>>), The(FindPath(p)))
      wrong == {i \in DOMAIN paths : Code(paths[i]) # 0}
  IN  IF wrong = {} THEN 0
      ELSE Code(paths[CHOOSE i \in wrong : \A j \in wrong : i <= j])

-----------------------------------------------------------------------------
(* /yang/<name>[@<revision>]; the path is <<name>> or <<name, revision>> *)

CONSTANT Library   \* the modules in sysrepo: name, rev (NoText: none), sub

\* Modules and submodules share one space of names.
ASSUME LibraryAssumption ==
  /\ Library \subseteq [name : STRING \ {NoText}, rev : STRING, sub : BOOLEAN]
  /\ \A m, n \in Library : m.name = n.name /\ m.rev = n.rev => m = n

parseModuleWithRevision(path) ==
  /\ Len(path) \in {1, 2}
  /\ \A i \in DOMAIN path : path[i].name # NoText /\ path[i] = Word(path[i].name)

\* A module first, then a submodule; at most one.  Without a revision
\* libyang looks for a module that has none.
getModuleOrSubmodule(name, revision) ==
  LET Of(sub) ==
        {m \in Library : m.name = name /\ m.rev = revision /\ m.sub = sub}
  IN  IF Of(FALSE) # {} THEN Of(FALSE) ELSE Of(TRUE)

asYangModule(path) ==
  getModuleOrSubmodule(path[1].name, IF Len(path) = 2 THEN path[2].name ELSE NoText)
=============================================================================
