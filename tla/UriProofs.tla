----------------------------- MODULE UriProofs -----------------------------
(***************************************************************************)
(* Proofs about Uri, for every schema, path, query and field expression.   *)
(***************************************************************************)
EXTENDS Uri, FiniteSetTheorems, TLAPS

\* Zenon does the first-order leaves; a leaf that reasons about numbers,
\* functions, records or sequences cites SMT.
USE Zenon

-----------------------------------------------------------------------------
(***************************************************************************)
(* Induction and recursion.  They are stated over sets and functions only, *)
(* so that they can be cited as they are: what is to be proved of every    *)
(* number is a set of numbers, and the body of a recursion is a function.  *)
(***************************************************************************)

\* Every non-empty set of natural numbers has a least element.
LEMMA LeastNumber ==
  ASSUME NEW T, T \subseteq Nat, T # {}
  PROVE  \E x \in T : \A y \in T : x <= y
<1> DEFINE Below == {1 .. n : n \in T}
<1>1. Below \subseteq FiniteSubsetsOf(Nat)
  <2> SUFFICES ASSUME NEW n \in T PROVE 1 .. n \in FiniteSubsetsOf(Nat)
    OBVIOUS
  <2>1. IsFiniteSet(1 .. n)
    BY SMT, FS_Interval
  <2> QED
    BY SMT, <2>1 DEF FiniteSubsetsOf
<1>2. Below # {}
  OBVIOUS
<1>3. PICK b \in Below : \A c \in Below : ~(<<c, b>> \in StrictSubsetOrdering(Nat))
  <2> HIDE DEF Below
  <2> QED
    BY <1>1, <1>2, FS_StrictSubsetOrderingWellFounded, WFMin
<1>4. PICK x \in T : b = 1 .. x
  OBVIOUS
<1>5. \A y \in T : x <= y
  <2> SUFFICES ASSUME NEW y \in T, y < x PROVE FALSE
    BY SMT
  <2> DEFINE c == 1 .. y
             d == 1 .. x
  <2>1. c \subseteq d /\ c # d /\ c \in SUBSET Nat /\ d \in SUBSET Nat
    BY SMT
  <2>2. c \in Below /\ b = d
    BY <1>4
  <2> HIDE DEF c, d, Below
  <2>3. <<c, d>> \in StrictSubsetOrdering(Nat)
    BY <2>1 DEF StrictSubsetOrdering
  <2> QED
    BY <1>3, <2>2, <2>3
<1> QED
  BY <1>5

\* A set that holds 0 and with every number the next one holds them all.
LEMMA SetInduction ==
  ASSUME NEW P, 0 \in P, \A n \in Nat : n \in P => n + 1 \in P
  PROVE  Nat \subseteq P
<1> SUFFICES ASSUME Nat \ P # {} PROVE FALSE
  OBVIOUS
<1>1. PICK x \in Nat \ P : \A y \in Nat \ P : x <= y
  BY LeastNumber
<1>2. x # 0 /\ x - 1 \in Nat
  BY SMT, <1>1
<1>3. x - 1 \in P
  BY SMT, <1>1, <1>2
<1> QED
  BY SMT, <1>1, <1>2, <1>3

\* Induction over the rank of the elements of a set.
LEMMA RankInduction ==
  ASSUME NEW S, NEW rank \in [S -> Nat], NEW P,
         \A x \in S : (\A y \in S : rank[y] < rank[x] => y \in P) => x \in P
  PROVE  S \subseteq P
<1> SUFFICES ASSUME S \ P # {} PROVE FALSE
  OBVIOUS
<1> DEFINE R == {rank[x] : x \in S \ P}
<1>1. R \subseteq Nat /\ R # {}
  BY SMT
<1>2. PICK r \in R : \A q \in R : r <= q
  <2> HIDE DEF R
  <2> QED
    BY <1>1, LeastNumber
<1>3. PICK x \in S \ P : rank[x] = r
  BY <1>2
<1>4. \A y \in S : rank[y] < rank[x] => y \in P
  <2> SUFFICES ASSUME NEW y \in S, rank[y] < rank[x], y \notin P PROVE FALSE
    OBVIOUS
  <2>1. rank[y] \in R
    OBVIOUS
  <2>2. r <= rank[y] /\ rank[y] \in Nat /\ rank[x] \in Nat
    BY <1>2, <2>1
  <2> QED
    BY SMT, <1>3, <2>2
<1> QED
  BY <1>3, <1>4

(***************************************************************************)
(* A recursive definition over S that refers to elements of a lower rank   *)
(* only has a solution.  Body[<<f, x>>] is the right-hand side.            *)
(***************************************************************************)
RefersBelow(Body, S, T, rank) ==
  \A f, g \in [S -> T], x \in S :
    (\A y \in S : rank[y] < rank[x] => f[y] = g[y])
      => Body[<<f, x>>] = Body[<<g, x>>]

Solves(f, Body, S) == \A x \in S : f[x] = Body[<<f, x>>]

\* It is built up rank by rank: the solutions below n agree with each other.
LEMMA RankRecursion ==
  ASSUME NEW S, NEW T, T # {}, NEW rank \in [S -> Nat],
         NEW Body \in [[S -> T] \X S -> T], RefersBelow(Body, S, T, rank)
  PROVE  \E f \in [S -> T] : Solves(f, Body, S)
<1>0. \A f, g \in [S -> T], x \in S :
        (\A y \in S : rank[y] < rank[x] => f[y] = g[y])
          => Body[<<f, x>>] = Body[<<g, x>>]
  BY DEF RefersBelow
<1> DEFINE Good(n, f) == \A x \in S : rank[x] < n => f[x] = Body[<<f, x>>]
           P == {n \in Nat : \E f \in [S -> T] : Good(n, f)}
<1>1. Nat \subseteq P
  <2>1. 0 \in P
    <3>1. PICK t \in T : TRUE
      OBVIOUS
    <3>2. [x \in S |-> t] \in [S -> T] /\ \A x \in S : ~(rank[x] < 0)
      BY SMT
    <3> QED
      BY <3>2
  <2>2. ASSUME NEW n \in Nat, n \in P PROVE n + 1 \in P
    <3>1. PICK f \in [S -> T] : Good(n, f)
      BY <2>2
    <3> DEFINE g == [x \in S |-> IF rank[x] = n THEN Body[<<f, x>>] ELSE f[x]]
    <3>2. g \in [S -> T]
      OBVIOUS
    <3>3. \A x \in S : rank[x] < n + 1 => g[x] = Body[<<f, x>>]
      BY SMT, <3>1
    <3>4. \A x \in S : rank[x] < n => g[x] = f[x]
      BY SMT
    <3> HIDE DEF g
    <3>5. \A x \in S : rank[x] < n + 1 => Body[<<f, x>>] = Body[<<g, x>>]
      <4> SUFFICES ASSUME NEW x \in S, rank[x] < n + 1
                   PROVE  Body[<<f, x>>] = Body[<<g, x>>]
        OBVIOUS
      <4>1. \A y \in S : rank[y] < rank[x] => f[y] = g[y]
        BY SMT, <3>4
      <4> QED
        BY <1>0, <3>2, <4>1
    <3>6. Good(n + 1, g)
      BY <3>3, <3>5
    <3> HIDE DEF Good
    <3> QED
      BY SMT, <3>2, <3>6
  <2> HIDE DEF P
  <2> QED
    BY <2>1, <2>2, SetInduction
<1>2. ASSUME NEW n \in Nat, NEW f \in [S -> T], NEW g \in [S -> T], Good(n, f), Good(n, g)
      PROVE  \A x \in S : rank[x] < n => f[x] = g[x]
  <2> DEFINE Same == {x \in S : rank[x] < n => f[x] = g[x]}
  <2>1. ASSUME NEW x \in S, \A y \in S : rank[y] < rank[x] => y \in Same
        PROVE  x \in Same
    <3> SUFFICES ASSUME rank[x] < n PROVE f[x] = g[x]
      OBVIOUS
    <3>1. \A y \in S : rank[y] < rank[x] => f[y] = g[y]
      BY SMT, <2>1
    <3>2. Body[<<f, x>>] = Body[<<g, x>>]
      BY <1>0, <3>1
    <3> QED
      BY <1>2, <3>2
  <2>2. S \subseteq Same
    <3> HIDE DEF Same
    <3> QED
      BY SMT, <2>1, RankInduction
  <2> QED
    BY <2>2
<1> DEFINE F(n) == CHOOSE f \in [S -> T] : Good(n, f)
           h == [x \in S |-> F(rank[x] + 1)[x]]
<1>3. \A n \in Nat : F(n) \in [S -> T] /\ Good(n, F(n))
  BY <1>1
<1> HIDE DEF F, P
<1>4. h \in [S -> T]
  <2>1. \A x \in S : rank[x] + 1 \in Nat
    BY SMT
  <2> HIDE DEF Good
  <2> QED
    BY <1>3, <2>1
<1>5. ASSUME NEW x \in S PROVE h[x] = Body[<<h, x>>]
  <2> DEFINE f == F(rank[x] + 1)
  <2>0. \A y \in S : rank[y] + 1 \in Nat
    BY SMT
  <2>1. f \in [S -> T] /\ Good(rank[x] + 1, f) /\ h[x] = f[x]
    <3> HIDE DEF Good
    <3> QED
      BY <1>3, <2>0
  <2>2. \A y \in S : rank[y] < rank[x] => h[y] = f[y]
    <3> SUFFICES ASSUME NEW y \in S, rank[y] < rank[x] PROVE h[y] = f[y]
      OBVIOUS
    <3> DEFINE n == rank[y] + 1
               g == F(n)
    <3>1. n \in Nat /\ rank[y] < n /\ n < rank[x] + 1
      BY SMT
    <3>2. g \in [S -> T] /\ Good(n, g) /\ h[y] = g[y]
      <4> HIDE DEF Good
      <4> QED
        BY <1>3, <2>0
    <3>3. Good(n, f)
      <4>1. \A z \in S : rank[z] < n => rank[z] < rank[x] + 1
        BY SMT, <3>1
      <4> HIDE DEF f, n
      <4> QED
        BY <2>1, <4>1
    <3> HIDE DEF Good, f, g, n, h
    <3> QED
      BY <1>2, <2>1, <3>1, <3>2, <3>3
  <2> HIDE DEF f, h
  <2>3. Body[<<h, x>>] = Body[<<f, x>>]
    BY <1>0, <1>4, <2>1, <2>2
  <2> QED
    BY SMT, <2>1, <2>3
<1> QED
  BY <1>4, <1>5 DEF Solves

-----------------------------------------------------------------------------
(* The path in the schema *)

Nodes == SchemaNodes \cup {NoNode}

\* One segment leads from schema nodes to schema nodes.
LEMMA FollowType ==
  ASSUME NEW found \in SUBSET Nodes, NEW segs, NEW i
  PROVE  FollowSegment(found, segs, i) \in SUBSET SchemaNodes
BY DEF FollowSegment, findChildSchemaNode

\* The recursion of asLibyangPath() over the segments is well defined.
LEMMA PathSteps ==
  ASSUME NEW segs \in Seq(Elements)
  PROVE  \E step \in [0 .. Len(segs) -> SUBSET Nodes] :
           /\ step[0] = {NoNode}
           /\ \A i \in 1 .. Len(segs) : step[i] = FollowSegment(step[i - 1], segs, i)
           /\ asLibyangPath(segs) = step[Len(segs)]
<1> DEFINE S == 0 .. Len(segs)
           T == SUBSET Nodes
           rank == [i \in S |-> i]
           Rhs(f, i) == IF i = 0 THEN {NoNode} ELSE FollowSegment(f[i - 1], segs, i)
           Body == [p \in [S -> T] \X S |-> Rhs(p[1], p[2])]
<1>0. Len(segs) \in Nat
  BY SMT
<1>1. T # {} /\ rank \in [S -> Nat]
  BY SMT, <1>0
<1>2. \A f \in [S -> T], i \in S : Rhs(f, i) \in T
  BY SMT, <1>0, FollowType DEF Nodes
<1>3. Body \in [[S -> T] \X S -> T]
  BY <1>2
<1>4. ASSUME NEW f \in [S -> T], NEW g \in [S -> T], NEW i \in S,
             \A j \in S : rank[j] < rank[i] => f[j] = g[j]
      PROVE  Body[<<f, i>>] = Body[<<g, i>>]
  <2>1. Body[<<f, i>>] = Rhs(f, i) /\ Body[<<g, i>>] = Rhs(g, i)
    OBVIOUS
  <2>2. CASE i = 0
    BY <2>1, <2>2
  <2>3. CASE i # 0
    <3>1. i - 1 \in S /\ rank[i - 1] < rank[i]
      BY SMT, <1>0, <2>3
    <3>2. f[i - 1] = g[i - 1]
      BY <3>1, <1>4
    <3> QED
      BY <2>1, <2>3, <3>2
  <2> QED
    BY <2>2, <2>3
<1>5. PICK f \in [S -> T] : \A i \in S : f[i] = Body[<<f, i>>]
  <2> HIDE DEF S, T, rank, Body
  <2>1. RefersBelow(Body, S, T, rank)
    BY <1>4 DEF RefersBelow
  <2>2. PICK f \in [S -> T] : Solves(f, Body, S)
    BY <1>1, <1>3, <2>1, RankRecursion
  <2> QED
    BY <2>2 DEF Solves
<1>6. f = [i \in S |-> Rhs(f, i)]
  BY <1>5
<1> DEFINE step == CHOOSE g : g = [i \in S |-> Rhs(g, i)]
<1>7. step = [i \in S |-> Rhs(step, i)]
  BY <1>6
<1>8. asLibyangPath(segs) = step[Len(segs)]
  BY DEF asLibyangPath
<1> HIDE DEF step
<1>9. DOMAIN step = S /\ \A i \in S : step[i] = Rhs(step, i)
  BY <1>7
<1>10. \A i \in S : step[i] \in T
  <2> DEFINE P == {k \in Nat : k \in S => step[k] \in T}
  <2>1. 0 \in P
    BY <1>9, <1>0 DEF Nodes
  <2>2. \A k \in P : k + 1 \in P
    <3> SUFFICES ASSUME NEW k \in P, k + 1 \in S
                 PROVE  step[k + 1] \in T
      BY SMT
    <3>1. k \in S /\ k + 1 # 0 /\ (k + 1) - 1 = k
      BY SMT, <1>0
    <3>2. step[k + 1] = FollowSegment(step[k], segs, k + 1)
      BY <3>1, <1>9
    <3> QED
      BY SMT, <3>1, <3>2, FollowType DEF Nodes
  <2> HIDE DEF P
  <2>3. Nat \subseteq P
    BY <2>1, <2>2, SetInduction
  <2> QED
    BY SMT, <2>3, <1>0 DEF P
<1>11. step \in [S -> T]
  BY <1>7, <1>10
<1>12. step[0] = {NoNode}
  BY SMT, <1>9, <1>0
<1>13. \A i \in 1 .. Len(segs) : step[i] = FollowSegment(step[i - 1], segs, i)
  BY SMT, <1>9, <1>0
<1> QED
  BY <1>8, <1>11, <1>12, <1>13

\* asLibyangPath() finds at most one node; the empty path leads to the
\* datastore, every other one to a node that its last segment names.
LEMMA PathLeadsToOne ==
  ASSUME NEW segs \in Seq(Elements)
  PROVE  /\ asLibyangPath(segs) \subseteq Nodes
         /\ \A a, b \in asLibyangPath(segs) : a = b
         /\ segs = <<>> => asLibyangPath(segs) = {NoNode}
         /\ segs # <<>> =>
              \A c \in asLibyangPath(segs) :
                /\ c \in SchemaNodes
                /\ \E n \in Nodes : c \in findChildSchemaNode(n, segs[Len(segs)])
<1>0. Len(segs) \in Nat /\ (segs = <<>> <=> Len(segs) = 0)
  BY SMT
<1>1. PICK step \in [0 .. Len(segs) -> SUBSET Nodes] :
        /\ step[0] = {NoNode}
        /\ \A i \in 1 .. Len(segs) : step[i] = FollowSegment(step[i - 1], segs, i)
        /\ asLibyangPath(segs) = step[Len(segs)]
  BY PathSteps
<1> DEFINE P == {k \in Nat : k <= Len(segs) => \A a, b \in step[k] : a = b}
<1>2. 0 \in P
  BY <1>1
<1>3. ASSUME NEW k \in P, k + 1 <= Len(segs), NEW a \in step[k + 1], NEW b \in step[k + 1]
      PROVE  a = b
  <2>1. k \in Nat /\ k + 1 \in 1 .. Len(segs) /\ (k + 1) - 1 = k /\ k \in 0 .. Len(segs)
    BY SMT, <1>0, <1>3
  <2>2. step[k + 1] = FollowSegment(step[k], segs, k + 1) /\ step[k] \in SUBSET Nodes
    BY <1>1, <2>1
  <2>3. PICK m \in step[k] : a \in findChildSchemaNode(m, segs[k + 1])
    BY <1>3, <2>2 DEF FollowSegment
  <2>4. PICK n \in step[k] : b \in findChildSchemaNode(n, segs[k + 1])
    BY <1>3, <2>2 DEF FollowSegment
  <2>5. m = n
    BY SMT, <2>1
  <2>6. /\ a \in SchemaNodes /\ b \in SchemaNodes
        /\ Schema[a].parent = Schema[b].parent
        /\ Schema[a].name = Schema[b].name
        /\ Schema[a].module = Schema[b].module
    BY <2>3, <2>4, <2>5 DEF findChildSchemaNode
  <2> QED
    BY <2>6, SchemaAssumption, Zenon DEF SchemaAssumption
<1>4. \A k \in P : k + 1 \in P
  BY SMT, <1>3
<1>5. Nat \subseteq P
  <2> HIDE DEF P
  <2> QED
    BY <1>2, <1>4, SetInduction
<1>6. \A a, b \in asLibyangPath(segs) : a = b
  BY SMT, <1>0, <1>1, <1>5
<1>7. ASSUME segs # <<>>, NEW c \in asLibyangPath(segs)
      PROVE  /\ c \in SchemaNodes
             /\ \E n \in Nodes : c \in findChildSchemaNode(n, segs[Len(segs)])
  <2>1. Len(segs) \in 1 .. Len(segs) /\ Len(segs) - 1 \in 0 .. Len(segs)
    BY SMT, <1>0, <1>7
  <2>2. c \in FollowSegment(step[Len(segs) - 1], segs, Len(segs))
    BY <1>1, <1>7, <2>1
  <2>3. step[Len(segs) - 1] \in SUBSET Nodes
    BY <1>1, <2>1
  <2>4. c \in SchemaNodes
    BY <2>2, <2>3, FollowType
  <2>5. PICK n \in step[Len(segs) - 1] : c \in findChildSchemaNode(n, segs[Len(segs)])
    BY <2>2 DEF FollowSegment
  <2> QED
    BY <2>3, <2>4, <2>5
<1>8. asLibyangPath(segs) \subseteq Nodes
  BY SMT, <1>0, <1>1
<1> QED
  BY <1>0, <1>1, <1>6, <1>7, <1>8

-----------------------------------------------------------------------------
(* Classification *)

\* The segments of a parsed path are path segments.
LEMMA SegmentsType ==
  ASSUME NEW path \in Seq(Elements)
  PROVE  parseUriPath(path).segs \in Seq(Elements)
<1> DEFINE From(n) == SubSeq(path, n, Len(path))
<1>1. \A n \in Nat \ {0} : From(n) \in Seq(Elements)
  BY SMT
<1>2. \A s \in Seq(Elements) : Segments(s) \in Seq(Elements)
  BY SMT DEF Segments
<1>3. From(2) \in Seq(Elements) /\ From(3) \in Seq(Elements)
  BY SMT, <1>1
<1>4. Segments(From(2)) \in Seq(Elements) /\ Segments(From(3)) \in Seq(Elements)
  BY <1>2, <1>3
<1>5. parseUriPath(path).segs \in {<<>>, Segments(From(2)), Segments(From(3))}
  BY DEF parseUriPath, UriPrefix, SyntaxError
<1>6. <<>> \in Seq(Elements)
  BY SMT
<1> HIDE DEF From
<1> QED
  BY <1>4, <1>5, <1>6

\* The codes of validateMethodForNode().
LEMMA RefusalCodes ==
  ASSUME NEW method, NEW uri, NEW n
  PROVE  validateMethodForNode(method, uri, n) \in {0, 400, 405}
BY SMT DEF validateMethodForNode, checkValidDataResource

\* The last throw of asRestconfRequest(), a std::logic_error, is out of
\* reach: validateMethodForNode() has refused every method and node it would
\* be thrown for.
THEOREM LastThrowIsUnreachable ==
  ASSUME NEW method \in Methods, NEW uri, NEW n,
         validateMethodForNode(method, uri, n) = 0
  PROVE  RequestType(method, uri, n) # "Unhandled"
BY SMT DEF Methods, validateMethodForNode, checkValidDataResource, RequestType,
       DataPrefixes, IsOperation

EditTypes == {"CreateOrReplaceThisNode", "CreateChildren", "MergeData", "DeleteNode"}
OperationTypes == {"Execute", "ExecuteInternal"}

\* What the type of a request that edits says about its method and node.
LEMMA EditFits ==
  ASSUME NEW method \in Methods, NEW uri, NEW n,
         validateMethodForNode(method, uri, n) = 0,
         RequestType(method, uri, n) \in EditTypes
  PROVE  /\ uri.type \in DataPrefixes
         /\ n # NoNode =>
              Schema[n].kind \notin {"RPC", "Action", "Notification"}
         /\ method \in {"PUT", "POST", "PATCH", "DELETE"}
         /\ method = "POST" <=> RequestType(method, uri, n) = "CreateChildren"
         /\ method = "DELETE" <=> RequestType(method, uri, n) = "DeleteNode"
         /\ method = "DELETE" => n # NoNode
<1>1. method \in {"PUT", "POST", "PATCH", "DELETE"}
  BY DEF Methods, validateMethodForNode, RequestType, EditTypes
<1>2. /\ uri.type \in DataPrefixes
      /\ n # NoNode => Schema[n].kind \notin {"RPC", "Action", "Notification"}
  BY SMT, <1>1 DEF validateMethodForNode, checkValidDataResource, RequestType,
              EditTypes, DataPrefixes, IsOperation
<1>3. /\ method = "POST" <=> RequestType(method, uri, n) = "CreateChildren"
      /\ method = "DELETE" <=> RequestType(method, uri, n) = "DeleteNode"
      /\ method = "DELETE" => n # NoNode
  BY <1>1, <1>2 DEF RequestType, EditTypes, DataPrefixes, IsOperation,
                    validateMethodForNode
<1> QED
  BY <1>1, <1>2, <1>3

\* The same for one that runs an RPC or action.
LEMMA OperationFits ==
  ASSUME NEW method \in Methods, NEW uri, NEW n,
         validateMethodForNode(method, uri, n) = 0,
         RequestType(method, uri, n) \in OperationTypes
  PROVE  /\ method = "POST" /\ n # NoNode /\ IsOperation(n)
         /\ Schema[n].kind = "RPC" <=> uri.type = "BasicRestconfOperations"
<1>1. method = "POST" /\ n # NoNode /\ IsOperation(n)
  BY DEF Methods, RequestType, OperationTypes
<1> QED
  BY SMT, <1>1 DEF validateMethodForNode, IsOperation

\* What asRestconfRequest() promises of its result r.
Classified(r, method, uri, query) ==
  /\ r.type # "Unhandled"
  /\ r.code \in {0, 400, 405}
  /\ r.type = "Error" => r.code # 0
  /\ r.node \in Nodes
  /\ r.type \in ForDatastore =>
       /\ method \in Methods
       /\ parseQueryParams(query)
       /\ validateQueryParameters(query, method)
       /\ asLibyangPath(uri.segs) = {r.node}
       /\ validateMethodForNode(method, uri, r.node) = 0
       /\ r.type = RequestType(method, uri, r.node)
       /\ r.ds \in KnownDatastores

\* It keeps the promise for every method, path and query.
THEOREM Classification ==
  ASSUME NEW method, NEW path \in Seq(Elements), NEW query
  PROVE  Classified(asRestconfRequest(method, path, query), method,
                    parseUriPath(path), query)
<1> DEFINE r == asRestconfRequest(method, path, query)
           uri == parseUriPath(path)
           found == asLibyangPath(uri.segs)
           n == The(found)
           refused == validateMethodForNode(method, uri, n)
           type == RequestType(method, uri, n)
           bad == \/ uri = SyntaxError
                  \/ ~parseQueryParams(query)
                  \/ ~validateQueryParameters(query, method)
                  \/ found = {}
<1>1. r = IF method \notin Methods THEN Error(405)
          ELSE IF bad THEN Error(400)
          ELSE IF refused # 0 THEN Error(refused)
          ELSE IF type \notin ForDatastore THEN Request(type, NoText, NoNode, 0)
          ELSE IF uri.ds \notin KnownDatastores THEN Error(400)
          ELSE Request(type, uri.ds, n, 0)
  BY DEF asRestconfRequest
<1>2. refused \in {0, 400, 405}
  BY SMT, RefusalCodes
<1>3. found # {} => found = {n} /\ n \in Nodes
  <2>1. uri.segs \in Seq(Elements)
    BY SegmentsType
  <2>2. found \subseteq Nodes /\ \A a, b \in found : a = b
    BY <2>1, PathLeadsToOne
  <2> HIDE DEF found
  <2> QED
    BY <2>2 DEF The
<1>4. method \in Methods /\ refused = 0 => type # "Unhandled"
  BY LastThrowIsUnreachable
<1>5. "Error" \notin ForDatastore /\ "Unhandled" \notin ForDatastore /\ type # "Error"
  BY DEF ForDatastore, RequestType
<1> HIDE DEF r, uri, found, n, refused, type, bad
<1> SUFFICES Classified(r, method, uri, query)
  BY DEF r, uri
<1>6. CASE r = Error(400) \/ r = Error(405)
  <2>1. CASE r = Error(400)
    BY SMT, <1>5, <2>1 DEF Classified, Nodes, Error, Request
  <2>2. CASE r = Error(405)
    BY SMT, <1>5, <2>2 DEF Classified, Nodes, Error, Request
  <2> QED
    BY <1>6, <2>1, <2>2
<1>7. CASE /\ method \in Methods /\ ~bad /\ refused = 0 /\ type \notin ForDatastore
           /\ r = Request(type, NoText, NoNode, 0)
  <2>1. r.type = type /\ r.code = 0 /\ r.node = NoNode
    BY <1>7 DEF Request
  <2> QED
    BY <1>4, <1>5, <1>7, <2>1 DEF Classified, Nodes
<1>8. CASE /\ method \in Methods /\ ~bad /\ refused = 0 /\ type \in ForDatastore
           /\ uri.ds \in KnownDatastores
           /\ r = Request(type, uri.ds, n, 0)
  <2>1. r.type = type /\ r.ds = uri.ds /\ r.node = n /\ r.code = 0
    BY <1>8 DEF Request
  <2>2. found = {n} /\ n \in Nodes /\ parseQueryParams(query)
        /\ validateQueryParameters(query, method)
    BY <1>3, <1>8 DEF bad
  <2>3. refused = validateMethodForNode(method, uri, n) /\ type = RequestType(method, uri, n)
        /\ found = asLibyangPath(uri.segs)
    BY DEF refused, type, found
  <2> QED
    BY <1>4, <1>5, <1>8, <2>1, <2>2, <2>3 DEF Classified
<1>9. \/ r = Error(400) \/ r = Error(405)
      \/ /\ method \in Methods /\ ~bad /\ refused = 0
         /\ IF type \notin ForDatastore THEN r = Request(type, NoText, NoNode, 0)
            ELSE uri.ds \in KnownDatastores /\ r = Request(type, uri.ds, n, 0)
  <2>1. CASE method \notin Methods \/ bad
    BY SMT, <1>1, <2>1
  <2>2. CASE method \in Methods /\ ~bad /\ refused # 0
    BY SMT, <1>1, <1>2, <2>2
  <2>3. CASE method \in Methods /\ ~bad /\ refused = 0
    BY SMT, <1>1, <2>3
  <2> QED
    BY <2>1, <2>2, <2>3
<1> QED
  BY <1>6, <1>7, <1>8, <1>9

-----------------------------------------------------------------------------
(* URLs the server hands out *)

\* The path a module's location is given leads back to that module: its name
\* with its revision, or alone when it has none.
LEMMA ModuleUrl ==
  ASSUME NEW m \in Library,
         NEW path, path = IF m.rev = NoText THEN <<Word(m.name)>>
                          ELSE <<Word(m.name), Word(m.rev)>>
  PROVE  parseModuleWithRevision(path) /\ asYangModule(path) = {m}
<1>1. m.name # NoText /\ m.sub \in BOOLEAN
  BY LibraryAssumption DEF LibraryAssumption
<1>2. \A x : Word(x).name = x
  BY DEF Word, Element
<1>3. parseModuleWithRevision(path)
  BY SMT, <1>1, <1>2 DEF parseModuleWithRevision
<1>4. asYangModule(path) = getModuleOrSubmodule(m.name, m.rev)
  BY SMT, <1>2 DEF asYangModule
<1>5. {x \in Library : x.name = m.name /\ x.rev = m.rev} = {m}
  BY LibraryAssumption DEF LibraryAssumption
<1>6. getModuleOrSubmodule(m.name, m.rev) = {m}
  BY <1>1, <1>5 DEF getModuleOrSubmodule
<1> QED
  BY <1>3, <1>4, <1>6

\* The path of a stream's location is one the stream parser accepts.
LEMMA StreamUrl ==
  ASSUME NEW e \in {"XML", "JSON"}, NEW path, path = <<Word("NETCONF"), Word(e)>>
  PROVE  /\ path[1].name = "NETCONF"
         /\ asRestconfStreamRequest("GET", path, <<>>).type = "NotificationStream"
<1>1. NoText # "NETCONF"
  BY Zenon DEF NoText
<1>2. \A x : Word(x).name = x
  BY DEF Word, Element
<1>3. Word("NETCONF") # Word("subscribed")
  BY SMT, <1>2
<1>4. path[1] = Word("NETCONF") /\ path[2] = Word(e) /\ Len(path) = 2
  OBVIOUS
<1>5. parseStreamUri(path) = "NotificationStream"
  BY <1>1, <1>2, <1>3, <1>4 DEF parseStreamUri
<1>6. parseQueryParams(<<>>) /\ validateQueryParametersForStream(<<>>)
  BY SMT DEF parseQueryParams, validateQueryParametersForStream, Once
<1> QED
  BY <1>2, <1>4, <1>5, <1>6 DEF asRestconfStreamRequest, Request

-----------------------------------------------------------------------------
(* The parameter fields *)

Results == [currentPath : Seq(Elements), output : Seq(Seq(Elements))]

\* How a result is made.
LEMMA ResultType ==
  ASSUME NEW path \in Seq(Elements), NEW output \in Seq(Seq(Elements))
  PROVE  [currentPath |-> path, output |-> output] \in Results
<1>1. \A A, B : path \in A /\ output \in B =>
        [currentPath |-> path, output |-> output] \in [currentPath : A, output : B]
  OBVIOUS
<1> QED
  BY <1>1 DEF Results

\* The nodes below a node, and what the grammar lets them be.
LEMMA Children ==
  ASSUME NEW n \in FieldNodes
  PROVE  /\ n.kind \in {"Slash", "Paren", "Semi"}
         /\ n.kind = "Slash" => n.lhs \in Elements
         /\ n.kind = "Paren" => IsChild(n.lhs, n, "Slash")
         /\ n.kind = "Semi" => IsChild(n.lhs, n, "Paren")
         /\ n.rhs # <<>> =>
              IsChild(n.rhs[1], n, IF n.kind = "Slash" THEN "Slash" ELSE "Semi")
BY FieldAssumption DEF FieldAssumption

\* A visit returns a path and adds paths when the visits it makes do.
LEMMA VisitType ==
  ASSUME NEW walk \in [Visits -> Results], NEW n \in FieldNodes,
         NEW path \in Seq(Elements), NEW end \in BOOLEAN
  PROVE  Visit(walk, <<n, path, end>>) \in Results
<1>1. \A c \in FieldNodes, p \in Seq(Elements), e \in BOOLEAN :
        walk[<<c, p, e>>] \in Results
  BY DEF Visits
<1>2. CASE n.kind = "Slash"
  <2>1. n.lhs \in Elements /\ (n.rhs # <<>> => n.rhs[1] \in FieldNodes)
    BY <1>2, Children DEF IsChild
  <2>2. Append(path, n.lhs) \in Seq(Elements)
    BY SMT, <2>1
  <2>3. CASE n.rhs # <<>>
    BY <1>1, <1>2, <2>1, <2>2, <2>3 DEF Visit
  <2>4. CASE n.rhs = <<>>
    <3> DEFINE pushed == Append(path, n.lhs)
    <3>1. Visit(walk, <<n, path, end>>) =
            [currentPath |-> pushed, output |-> IF end THEN <<pushed>> ELSE <<>>]
      BY <1>2, <2>4 DEF Visit
    <3>2. PICK P : P = Seq(Elements)
      OBVIOUS
    <3>3. pushed \in P /\ (IF end THEN <<pushed>> ELSE <<>>) \in Seq(P)
      <4>1. pushed \in P
        BY <2>2, <3>2
      <4> HIDE DEF pushed
      <4> QED
        BY SMT, <4>1
    <3> HIDE DEF pushed
    <3> QED
      BY <3>1, <3>2, <3>3, ResultType
  <2> QED
    BY <2>3, <2>4
<1>3. CASE n.kind # "Slash"
  <2>1. n.lhs \in FieldNodes /\ (n.rhs # <<>> => n.rhs[1] \in FieldNodes)
    BY <1>3, Children DEF IsChild
  <2> DEFINE left == walk[<<n.lhs, path, n.rhs = <<>> >>]
             right == walk[<<n.rhs[1], RightPath(n, path, left.currentPath),
                             n.kind # "Semi" /\ end>>]
  <2>2. left \in Results
    BY <1>1, <2>1
  <2>3. CASE n.rhs = <<>>
    BY <1>3, <2>2, <2>3 DEF Visit
  <2>4. CASE n.rhs # <<>>
    <3>1. Visit(walk, <<n, path, end>>) =
            [currentPath |-> IF n.kind = "Semi" THEN left.currentPath
                             ELSE right.currentPath,
             output |-> left.output \o right.output]
      BY <1>3, <2>4 DEF Visit
    <3>2. RightPath(n, path, left.currentPath) \in Seq(Elements)
      <4> HIDE DEF left
      <4> QED
        BY <2>2 DEF RightPath, Results
    <3>3. right \in Results
      <4> HIDE DEF left
      <4> QED
        BY <1>1, <2>1, <2>4, <3>2
    <3> HIDE DEF left, right
    <3>4. PICK P : P = Seq(Elements)
      OBVIOUS
    <3>5. /\ left.currentPath \in P /\ right.currentPath \in P
          /\ left.output \in Seq(P) /\ right.output \in Seq(P)
      BY <2>2, <3>3, <3>4 DEF Results
    <3>6. left.output \o right.output \in Seq(P)
      BY SMT, <3>5
    <3> QED
      BY <3>1, <3>4, <3>5, <3>6, ResultType
  <2> QED
    BY <2>3, <2>4
<1> QED
  BY <1>2, <1>3

\* A visit depends on the visits of lower nodes only.
LEMMA VisitBelow ==
  ASSUME NEW f \in [Visits -> Results], NEW g, NEW n \in FieldNodes,
         NEW path \in Seq(Elements), NEW end \in BOOLEAN,
         \A b \in Visits : FieldHeight[b[1]] < FieldHeight[n] => f[b] = g[b]
  PROVE  Visit(f, <<n, path, end>>) = Visit(g, <<n, path, end>>)
<1>1. \A c \in FieldNodes, p \in Seq(Elements), e \in BOOLEAN :
        /\ f[<<c, p, e>>] \in Results
        /\ FieldHeight[c] < FieldHeight[n] => f[<<c, p, e>>] = g[<<c, p, e>>]
  <2> SUFFICES ASSUME NEW c \in FieldNodes, NEW p \in Seq(Elements), NEW e \in BOOLEAN
               PROVE  /\ f[<<c, p, e>>] \in Results
                      /\ FieldHeight[c] < FieldHeight[n] =>
                           f[<<c, p, e>>] = g[<<c, p, e>>]
    OBVIOUS
  <2>1. <<c, p, e>> \in Visits /\ <<c, p, e>>[1] = c
    BY DEF Visits
  <2> QED
    BY <2>1
<1>2. CASE n.kind = "Slash"
  <2>1. Append(path, n.lhs) \in Seq(Elements)
    BY SMT, <1>2, Children
  <2>2. CASE n.rhs # <<>>
    <3>1. IsChild(n.rhs[1], n, "Slash")
      BY <1>2, <2>2, Children
    <3>2. f[<<n.rhs[1], Append(path, n.lhs), end>>] = g[<<n.rhs[1], Append(path, n.lhs), end>>]
      BY <1>1, <2>1, <3>1 DEF IsChild
    <3> QED
      BY <1>2, <2>2, <3>2 DEF Visit
  <2>3. CASE n.rhs = <<>>
    BY <1>2, <2>3 DEF Visit
  <2> QED
    BY <2>2, <2>3
<1>3. CASE n.kind # "Slash"
  <2> DEFINE Left(w) == w[<<n.lhs, path, n.rhs = <<>> >>]
             Right(w) == w[<<n.rhs[1], RightPath(n, path, Left(w).currentPath),
                             n.kind # "Semi" /\ end>>]
  <2>1. n.lhs \in FieldNodes /\ FieldHeight[n.lhs] < FieldHeight[n]
    BY <1>3, Children DEF IsChild
  <2>2. Left(f) \in Results /\ Left(f) = Left(g)
    BY <1>1, <2>1
  <2>3. CASE n.rhs = <<>>
    BY <1>3, <2>2, <2>3 DEF Visit
  <2>4. CASE n.rhs # <<>>
    <3>1. n.rhs[1] \in FieldNodes /\ FieldHeight[n.rhs[1]] < FieldHeight[n]
      BY <1>3, <2>4, Children DEF IsChild
    <3>2. PICK l : l = Left(f)
      OBVIOUS
    <3>3. RightPath(n, path, l.currentPath) \in Seq(Elements)
      BY <2>2, <3>2 DEF RightPath, Results
    <3>4. Right(f) = Right(g)
      <4> HIDE DEF Left
      <4>1. (n.kind # "Semi" /\ end) \in BOOLEAN
        OBVIOUS
      <4> QED
        BY <1>1, <2>2, <3>1, <3>2, <3>3, <4>1
    <3>5. \A w : Visit(w, <<n, path, end>>) =
            [currentPath |-> IF n.kind = "Semi" THEN Left(w).currentPath
                             ELSE Right(w).currentPath,
             output |-> Left(w).output \o Right(w).output]
      BY <1>3, <2>4 DEF Visit
    <3> HIDE DEF Left, Right
    <3> QED
      BY <2>2, <3>4, <3>5
  <2> QED
    BY <2>3, <2>4
<1> QED
  BY <1>2, <1>3

\* So the walk is well defined: every visit ends, and returns what its body
\* says about the visits it makes.
LEMMA WalkIsDefined ==
  /\ Walk \in [Visits -> Results]
  /\ \A a \in Visits : Walk[a] = Visit(Walk, a)
<1> DEFINE rank == [a \in Visits |-> FieldHeight[a[1]]]
           Body == [p \in [Visits -> Results] \X Visits |-> Visit(p[1], p[2])]
<1>0. \A a \in Visits : /\ a = <<a[1], a[2], a[3]>> /\ a[1] \in FieldNodes
                        /\ a[2] \in Seq(Elements) /\ a[3] \in BOOLEAN
  BY SMT DEF Visits
<1>1. rank \in [Visits -> Nat]
  BY <1>0, FieldAssumption DEF FieldAssumption
<1>2. Results # {}
  <2>1. <<>> \in Seq(Elements) /\ <<>> \in Seq(Seq(Elements))
    BY SMT
  <2> QED
    BY <2>1, ResultType
<1>3. \A f \in [Visits -> Results], a \in Visits : Visit(f, a) \in Results
  BY SMT, <1>0, VisitType
<1>4. Body \in [[Visits -> Results] \X Visits -> Results]
  BY <1>3
<1>5. ASSUME NEW f \in [Visits -> Results], NEW g, NEW a \in Visits,
             \A b \in Visits : rank[b] < rank[a] => f[b] = g[b]
      PROVE  Visit(f, a) = Visit(g, a)
  <2>1. PICK n \in FieldNodes, path \in Seq(Elements), end \in BOOLEAN :
          a = <<n, path, end>>
    BY SMT, <1>0
  <2>2. \A b \in Visits : FieldHeight[b[1]] < FieldHeight[n] => f[b] = g[b]
    BY <1>5, <2>1
  <2> HIDE DEF rank
  <2>3. Visit(f, <<n, path, end>>) = Visit(g, <<n, path, end>>)
    BY <2>2, VisitBelow
  <2> QED
    BY <2>1, <2>3
<1>6. \A f \in [Visits -> Results], a \in Visits : Body[<<f, a>>] = Visit(f, a)
  OBVIOUS
<1> HIDE DEF rank, Body
<1>7. RefersBelow(Body, Visits, Results, rank)
  BY SMT, <1>5, <1>6 DEF RefersBelow
<1>8. PICK f \in [Visits -> Results] : \A a \in Visits : f[a] = Visit(f, a)
  <2>1. PICK f \in [Visits -> Results] : Solves(f, Body, Visits)
    BY <1>1, <1>2, <1>4, <1>7, RankRecursion
  <2> QED
    BY <1>6, <2>1 DEF Solves
<1>9. Walk = [a \in Visits |-> Visit(Walk, a)]
  <2>1. f = [a \in Visits |-> Visit(f, a)]
    BY <1>8
  <2>2. Walk = CHOOSE w : w = [a \in Visits |-> Visit(w, a)]
    BY DEF Walk
  <2> QED
    BY <2>1, <2>2
<1>10. Visits \subseteq {a \in Visits : f[a] = Walk[a]}
  <2> DEFINE P == {a \in Visits : f[a] = Walk[a]}
  <2>1. ASSUME NEW a \in Visits, \A b \in Visits : rank[b] < rank[a] => b \in P
        PROVE  a \in P
    <3>1. Visit(f, a) = Visit(Walk, a)
      BY <1>5, <2>1
    <3> QED
      BY <1>8, <1>9, <3>1
  <2> HIDE DEF P
  <2>2. Visits \subseteq P
    BY <1>1, <2>1, RankInduction
  <2> QED
    BY <2>2 DEF P
<1>11. \A a \in Visits : Walk[a] \in Results
  BY <1>8, <1>10
<1> QED
  BY <1>9, <1>11

\* What is in a set of joined paths.
LEMMA JoinedPaths ==
  ASSUME NEW left, NEW right
  PROVE  \A p : p \in Joined(left, right) <=> \E l \in left, r \in right : p = l \o r
BY SMT DEF Joined

\* The same when one of the sets has one path.
LEMMA JoinedWithOne ==
  ASSUME NEW l, NEW right
  PROVE  \A p : p \in Joined({l}, right) <=> \E r \in right : p = l \o r
<1>1. PICK left : left = {l}
  OBVIOUS
<1>2. \A p : p \in Joined(left, right) <=> \E k \in left, r \in right : p = k \o r
  BY SMT, JoinedPaths
<1> QED
  BY <1>1, <1>2

\* The reference is well defined, too.
LEMMA DenotesIsDefined ==
  /\ Denotes \in [FieldNodes -> SUBSET Seq(Elements)]
  /\ \A n \in FieldNodes : Denotes[n] = Meaning(Denotes, n)
<1> DEFINE S == FieldNodes
           T == SUBSET Seq(Elements)
           Body == [p \in [S -> T] \X S |-> Meaning(p[1], p[2])]
<1>1. FieldHeight \in [S -> Nat] /\ T # {}
  BY FieldAssumption DEF FieldAssumption
<1>2. ASSUME NEW f \in [S -> T], NEW n \in S PROVE Meaning(f, n) \in T
  <2>1. PICK left \in T :
          left = IF n.kind = "Slash" THEN {<<n.lhs>>} ELSE f[n.lhs]
    <3>1. n.kind # "Slash" => n.lhs \in S
      BY Children DEF IsChild
    <3>2. n.kind = "Slash" => {<<n.lhs>>} \in T
      <4>1. n.kind = "Slash" => n.lhs \in Elements
        BY Children
      <4>2. \A e \in Elements : <<e>> \in Seq(Elements)
        BY SMT
      <4> QED
        BY <4>1, <4>2
    <3> QED
      BY <1>2, <3>1, <3>2
  <2>2. CASE n.rhs = <<>>
    BY <2>1, <2>2 DEF Meaning
  <2>3. CASE n.rhs # <<>>
    <3>1. PICK right \in T : right = f[n.rhs[1]]
      BY SMT, <1>2, <2>3, Children DEF IsChild
    <3>2. Meaning(f, n) = IF n.kind = "Semi" THEN left \cup right
                          ELSE Joined(left, right)
      BY <2>1, <2>3, <3>1 DEF Meaning
    <3>3. \A l \in left, r \in right : l \o r \in Seq(Elements)
      BY SMT
    <3>4. CASE n.kind = "Semi"
      BY <3>2, <3>4
    <3>5. CASE n.kind # "Semi"
      <4>1. Meaning(f, n) = Joined(left, right)
        BY <3>2, <3>5
      <4>2. Joined(left, right) \subseteq Seq(Elements)
        <5> SUFFICES ASSUME NEW p \in Joined(left, right) PROVE p \in Seq(Elements)
          OBVIOUS
        <5>1. PICK l \in left, r \in right : p = l \o r
          BY SMT, JoinedPaths
        <5> QED
          BY <3>3, <5>1
      <4> QED
        BY <4>1, <4>2
    <3> QED
      BY <3>4, <3>5
  <2> QED
    BY <2>2, <2>3
<1>3. ASSUME NEW f, NEW g, NEW n \in S,
             \A c \in S : FieldHeight[c] < FieldHeight[n] => f[c] = g[c]
      PROVE  Meaning(f, n) = Meaning(g, n)
  <2>1. n.kind # "Slash" => f[n.lhs] = g[n.lhs]
    BY <1>3, Children DEF IsChild
  <2>2. n.rhs # <<>> => f[n.rhs[1]] = g[n.rhs[1]]
    BY <1>3, Children DEF IsChild
  <2>3. PICK left : /\ left = IF n.kind = "Slash" THEN {<<n.lhs>>} ELSE f[n.lhs]
                    /\ left = IF n.kind = "Slash" THEN {<<n.lhs>>} ELSE g[n.lhs]
    BY <2>1
  <2>4. CASE n.rhs = <<>>
    BY <2>3, <2>4 DEF Meaning
  <2>5. CASE n.rhs # <<>>
    <3>1. PICK right : right = f[n.rhs[1]] /\ right = g[n.rhs[1]]
      BY <2>2, <2>5
    <3> DEFINE meaning == IF n.kind = "Semi" THEN left \cup right
                          ELSE Joined(left, right)
    <3>2. Meaning(f, n) = meaning
      BY <2>3, <2>5, <3>1 DEF Meaning
    <3>3. Meaning(g, n) = meaning
      BY <2>3, <2>5, <3>1 DEF Meaning
    <3> QED
      BY <3>2, <3>3
  <2> QED
    BY <2>4, <2>5
<1>4. Body \in [[S -> T] \X S -> T]
  BY <1>2
<1>5. \A f \in [S -> T], n \in S : Body[<<f, n>>] = Meaning(f, n)
  OBVIOUS
<1> HIDE DEF S, T, Body
<1>6. RefersBelow(Body, S, T, FieldHeight)
  BY SMT, <1>3, <1>5 DEF RefersBelow
<1>7. PICK f \in [S -> T] : \A n \in S : f[n] = Meaning(f, n)
  <2>1. PICK f \in [S -> T] : Solves(f, Body, S)
    BY <1>1, <1>4, <1>6, RankRecursion
  <2> QED
    BY <1>5, <2>1 DEF Solves
<1>8. Denotes = [n \in S |-> Meaning(Denotes, n)]
  <2>1. f = [n \in S |-> Meaning(f, n)]
    BY <1>7
  <2>2. Denotes = CHOOSE d : d = [n \in S |-> Meaning(d, n)]
    BY DEF Denotes, S
  <2> QED
    BY <2>1, <2>2
<1>9. \A n \in S : Denotes[n] = f[n]
  <2> DEFINE P == {n \in S : f[n] = Denotes[n]}
  <2>1. ASSUME NEW n \in S, \A c \in S : FieldHeight[c] < FieldHeight[n] => c \in P
        PROVE  n \in P
    <3>1. Meaning(f, n) = Meaning(Denotes, n)
      BY <1>3, <2>1
    <3> QED
      BY <1>7, <1>8, <3>1
  <2> HIDE DEF P
  <2>2. S \subseteq P
    BY <1>1, <2>1, RankInduction
  <2> QED
    BY <2>2 DEF P
<1> QED
  BY <1>7, <1>8, <1>9 DEF S, T

\* Facts about sequences: the paths form a monoid, and a set of elements is
\* the union of those of the parts.
LEMMA Concatenation ==
  ASSUME NEW S, NEW a \in Seq(S), NEW b \in Seq(S), NEW c \in Seq(S)
  PROVE  /\ a \o b \in Seq(S)
         /\ (a \o b) \o c = a \o (b \o c)
         /\ <<>> \o a = a
         /\ Range(a \o b) = Range(a) \cup Range(b)
         /\ \A x \in S : Append(a, x) = a \o <<x>> /\ <<x>> \in Seq(S)
<1>1. a \o b \in Seq(S) /\ (a \o b) \o c = a \o (b \o c) /\ <<>> \o a = a
  BY SMT
<1>2. \A x \in S : Append(a, x) = a \o <<x>> /\ <<x>> \in Seq(S)
  BY SMT
<1>3. Range(a \o b) = Range(a) \cup Range(b)
  <2>1. ASSUME NEW x \in Range(a \o b) PROVE x \in Range(a) \cup Range(b)
    <3>1. PICK i \in DOMAIN (a \o b) : x = (a \o b)[i]
      BY <2>1 DEF Range
    <3>2. CASE i <= Len(a)
      <4>1. i \in DOMAIN a /\ x = a[i]
        BY SMT, <3>1, <3>2
      <4> QED
        BY <4>1 DEF Range
    <3>3. CASE i > Len(a)
      <4>1. i - Len(a) \in DOMAIN b /\ x = b[i - Len(a)]
        BY SMT, <3>1, <3>3
      <4> QED
        BY <4>1 DEF Range
    <3> QED
      BY SMT, <3>1, <3>2, <3>3
  <2>2. ASSUME NEW i \in DOMAIN a PROVE a[i] \in Range(a \o b)
    <3>1. i \in DOMAIN (a \o b) /\ (a \o b)[i] = a[i]
      BY SMT
    <3> QED
      BY <3>1 DEF Range
  <2>3. ASSUME NEW i \in DOMAIN b PROVE b[i] \in Range(a \o b)
    <3>1. i + Len(a) \in DOMAIN (a \o b) /\ (a \o b)[i + Len(a)] = b[i]
      BY SMT
    <3> QED
      BY <3>1 DEF Range
  <2>4. Range(a) \subseteq Range(a \o b) /\ Range(b) \subseteq Range(a \o b)
    BY <2>2, <2>3 DEF Range
  <2> QED
    BY <2>1, <2>4
<1> QED
  BY <1>1, <1>2, <1>3

\* A Slash stands for one path; its visit goes there, and collects that path
\* where the flag says so.
Linear(n) ==
  \E d \in Seq(Elements) :
    /\ Denotes[n] = {d}
    /\ \A path \in Seq(Elements), end \in BOOLEAN :
         /\ Walk[<<n, path, end>>].currentPath = path \o d
         /\ Walk[<<n, path, end>>].output = IF end THEN <<path \o d>> ELSE <<>>

Beyond(path, ends) == {path \o d : d \in ends}

\* The visit of a Paren or a Semi collects, whatever the flag, all its paths.
Collects(n) ==
  \A path \in Seq(Elements), end \in BOOLEAN :
    Range(Walk[<<n, path, end>>].output) = Beyond(path, Denotes[n])

\* The visits that a visit makes.
LEMMA WalkCases ==
  ASSUME NEW n \in FieldNodes, NEW path \in Seq(Elements), NEW end \in BOOLEAN
  PROVE  /\ Walk[<<n, path, end>>] \in Results
         /\ Walk[<<n, path, end>>] = Visit(Walk, <<n, path, end>>)
<1>1. <<n, path, end>> \in Visits
  BY DEF Visits
<1> QED
  BY <1>1, WalkIsDefined

\* What fieldsToXPath() does with a SlashExpr.
LEMMA SlashIsLinear ==
  ASSUME NEW n \in FieldNodes, n.kind = "Slash",
         n.rhs # <<>> => Linear(n.rhs[1])
  PROVE  Linear(n)
<1>1. PICK first : first = <<n.lhs>>
  OBVIOUS
<1>2. /\ n.lhs \in Elements /\ first \in Seq(Elements)
      /\ n.rhs # <<>> => n.rhs[1] \in FieldNodes
  BY SMT, <1>1, Children DEF IsChild
<1>3. \A path \in Seq(Elements) :
        Append(path, n.lhs) = path \o first /\ path \o first \in Seq(Elements)
  BY SMT, <1>1, <1>2, Concatenation
<1>4. CASE n.rhs = <<>>
  <2>1. Denotes[n] = {first}
    BY <1>1, <1>4, DenotesIsDefined DEF Meaning
  <2>2. ASSUME NEW path \in Seq(Elements), NEW end \in BOOLEAN
        PROVE  /\ Walk[<<n, path, end>>].currentPath = path \o first
               /\ Walk[<<n, path, end>>].output =
                    IF end THEN <<path \o first>> ELSE <<>>
    <3>1. PICK pushed : pushed = Append(path, n.lhs) /\ pushed = path \o first
      BY <1>3
    <3>2. Walk[<<n, path, end>>] =
            [currentPath |-> pushed, output |-> IF end THEN <<pushed>> ELSE <<>>]
      <4>1. Visit(Walk, <<n, path, end>>) =
              [currentPath |-> pushed, output |-> IF end THEN <<pushed>> ELSE <<>>]
        BY <1>4, <3>1 DEF Visit
      <4> QED
        BY <4>1, WalkCases
    <3> QED
      BY SMT, <3>1, <3>2
  <2> QED
    BY <1>2, <2>1, <2>2 DEF Linear
<1>5. CASE n.rhs # <<>>
  <2>1. PICK r \in FieldNodes : r = n.rhs[1]
    BY <1>2, <1>5
  <2>2. PICK d \in Seq(Elements) :
          /\ Denotes[r] = {d}
          /\ \A path \in Seq(Elements), end \in BOOLEAN :
               /\ Walk[<<r, path, end>>].currentPath = path \o d
               /\ Walk[<<r, path, end>>].output = IF end THEN <<path \o d>> ELSE <<>>
    BY <1>5, <2>1 DEF Linear
  <2>3. PICK whole \in Seq(Elements) : whole = first \o d
    BY <1>2, Concatenation
  <2>4. Denotes[n] = {whole}
    <3>1. Denotes[n] = Joined({first}, {d})
      BY <1>1, <1>5, <2>1, <2>2, DenotesIsDefined DEF Meaning
    <3>2. \A p : p \in Joined({first}, {d}) <=> p = first \o d
      <4>1. PICK B : B = {d}
        OBVIOUS
      <4>2. \A p : p \in Joined({first}, B) <=> \E x \in B : p = first \o x
        BY JoinedWithOne
      <4> QED
        BY <4>1, <4>2
    <3> QED
      BY <2>3, <3>1, <3>2
  <2>5. ASSUME NEW path \in Seq(Elements), NEW end \in BOOLEAN
        PROVE  /\ Walk[<<n, path, end>>].currentPath = path \o whole
               /\ Walk[<<n, path, end>>].output =
                    IF end THEN <<path \o whole>> ELSE <<>>
    <3>1. PICK pushed \in Seq(Elements) :
            pushed = Append(path, n.lhs) /\ pushed = path \o first
      BY <1>3
    <3>2. Walk[<<n, path, end>>] = Walk[<<r, pushed, end>>]
      <4>1. Visit(Walk, <<n, path, end>>) = Walk[<<r, pushed, end>>]
        BY <1>5, <2>1, <3>1 DEF Visit
      <4> QED
        BY <4>1, WalkCases
    <3>3. pushed \o d = path \o whole
      <4>1. (path \o first) \o d = path \o (first \o d)
        BY SMTT(30), <1>2
      <4> QED
        BY <2>3, <3>1, <4>1
    <3> QED
      BY <2>2, <3>2, <3>3
  <2> QED
    BY <2>4, <2>5 DEF Linear
<1> QED
  BY <1>4, <1>5

\* What it does with a ParenExpr: the left side, which collects only when
\* nothing is in parentheses, leaves its path for the right one.
LEMMA ParenCollects ==
  ASSUME NEW n \in FieldNodes, n.kind = "Paren", Linear(n.lhs),
         n.rhs # <<>> => Collects(n.rhs[1])
  PROVE  Collects(n)
<1> SUFFICES ASSUME NEW path \in Seq(Elements), NEW end \in BOOLEAN
             PROVE  Range(Walk[<<n, path, end>>].output) = Beyond(path, Denotes[n])
  BY DEF Collects
<1>1. /\ n.lhs \in FieldNodes
      /\ n.rhs # <<>> => n.rhs[1] \in FieldNodes
  BY Children DEF IsChild
<1>2. PICK d \in Seq(Elements) :
        /\ Denotes[n.lhs] = {d}
        /\ \A p \in Seq(Elements), e \in BOOLEAN :
             /\ Walk[<<n.lhs, p, e>>].currentPath = p \o d
             /\ Walk[<<n.lhs, p, e>>].output = IF e THEN <<p \o d>> ELSE <<>>
  BY DEF Linear
<1>3. PICK left \in Results : left = Walk[<<n.lhs, path, n.rhs = <<>> >>]
  BY <1>1, WalkCases
<1>4. PICK here \in Seq(Elements) : here = path \o d
  BY Concatenation
<1>5. /\ left.currentPath = here
      /\ left.output = IF n.rhs = <<>> THEN <<here>> ELSE <<>>
  BY <1>2, <1>3, <1>4
<1>6. CASE n.rhs = <<>>
  <2>1. Visit(Walk, <<n, path, end>>) = left
    BY <1>3, <1>6 DEF Visit
  <2>2. Walk[<<n, path, end>>].output = <<here>>
    BY <1>5, <1>6, <2>1, WalkCases
  <2>3. Range(<<here>>) = {here}
    BY SMT DEF Range
  <2>4. Denotes[n] = {d}
    BY <1>2, <1>6, DenotesIsDefined DEF Meaning
  <2> QED
    BY <1>4, <2>2, <2>3, <2>4 DEF Beyond
<1>7. CASE n.rhs # <<>>
  <2>1. PICK r \in FieldNodes : r = n.rhs[1]
    BY <1>1, <1>7
  <2>2. PICK right \in Results : right = Walk[<<r, here, end>>]
    BY <2>1, WalkCases
  <2>3. Visit(Walk, <<n, path, end>>) =
          [currentPath |-> right.currentPath, output |-> left.output \o right.output]
    <3>1. RightPath(n, path, left.currentPath) = here /\ (n.kind # "Semi" /\ end) = end
      BY <1>5 DEF RightPath
    <3> QED
      BY <1>3, <1>7, <2>1, <2>2, <3>1 DEF Visit
  <2>4. Walk[<<n, path, end>>].output = right.output
    <3>1. left.output \o right.output = right.output
      <4>1. left.output = <<>> /\ right.output \in Seq(Seq(Elements))
        BY <1>5, <1>7 DEF Results
      <4> QED
        BY SMT, <4>1
    <3> QED
      BY SMT, <2>3, <3>1, WalkCases
  <2>5. Range(right.output) = Beyond(here, Denotes[r])
    BY <1>7, <2>1, <2>2 DEF Collects
  <2>6. Denotes[n] = Joined({d}, Denotes[r])
    BY <1>2, <1>7, <2>1, DenotesIsDefined DEF Meaning
  <2>7. Denotes[r] \subseteq Seq(Elements)
    BY DenotesIsDefined
  <2>8. Beyond(here, Denotes[r]) = Beyond(path, Joined({d}, Denotes[r]))
    <3>1. PICK B : B = Denotes[r]
      OBVIOUS
    <3>2. \A p : p \in Joined({d}, B) <=> \E x \in B : p = d \o x
      BY JoinedWithOne
    <3>3. \A x \in B : here \o x = path \o (d \o x)
      BY SMT, <1>4, <2>7, <3>1, Concatenation
    <3>4. \A q : q \in Beyond(here, B) <=> \E x \in B : q = here \o x
      BY DEF Beyond
    <3>5. \A q : q \in Beyond(path, Joined({d}, B)) <=>
                   \E y \in Joined({d}, B) : q = path \o y
      BY DEF Beyond
    <3>6. ASSUME NEW q \in Beyond(here, B) PROVE q \in Beyond(path, Joined({d}, B))
      <4>1. PICK x \in B : q = here \o x
        BY <3>4
      <4>2. d \o x \in Joined({d}, B) /\ q = path \o (d \o x)
        BY <3>2, <3>3, <4>1
      <4> QED
        BY <3>5, <4>2
    <3>7. ASSUME NEW q \in Beyond(path, Joined({d}, B)) PROVE q \in Beyond(here, B)
      <4>1. PICK y \in Joined({d}, B) : q = path \o y
        BY <3>5
      <4>2. PICK x \in B : y = d \o x
        BY <3>2
      <4> QED
        BY <3>3, <3>4, <4>1, <4>2
    <3>8. Beyond(here, B) = Beyond(path, Joined({d}, B))
      BY <3>6, <3>7
    <3> QED
      BY <3>1, <3>8
  <2> QED
    BY <2>4, <2>5, <2>6, <2>8
<1> QED
  BY <1>6, <1>7

\* What it does with a SemiExpr: both sides start from the same path.
LEMMA SemiCollects ==
  ASSUME NEW n \in FieldNodes, n.kind = "Semi", Collects(n.lhs),
         n.rhs # <<>> => Collects(n.rhs[1])
  PROVE  Collects(n)
<1> SUFFICES ASSUME NEW path \in Seq(Elements), NEW end \in BOOLEAN
             PROVE  Range(Walk[<<n, path, end>>].output) = Beyond(path, Denotes[n])
  BY DEF Collects
<1>1. /\ n.lhs \in FieldNodes
      /\ n.rhs # <<>> => n.rhs[1] \in FieldNodes
  BY Children DEF IsChild
<1>2. PICK left \in Results : left = Walk[<<n.lhs, path, n.rhs = <<>> >>]
  BY <1>1, WalkCases
<1>3. Range(left.output) = Beyond(path, Denotes[n.lhs])
  BY <1>2 DEF Collects
<1>4. CASE n.rhs = <<>>
  <2>1. Visit(Walk, <<n, path, end>>) = left
    BY <1>2, <1>4 DEF Visit
  <2>2. Denotes[n] = Denotes[n.lhs]
    BY <1>4, DenotesIsDefined DEF Meaning
  <2> QED
    BY <1>3, <2>1, <2>2, WalkCases
<1>5. CASE n.rhs # <<>>
  <2>1. PICK r \in FieldNodes : r = n.rhs[1]
    BY <1>1, <1>5
  <2>2. PICK right \in Results : right = Walk[<<r, path, FALSE>>]
    BY <2>1, WalkCases
  <2>3. Visit(Walk, <<n, path, end>>) =
          [currentPath |-> left.currentPath, output |-> left.output \o right.output]
    <3>1. RightPath(n, path, left.currentPath) = path /\ (n.kind # "Semi" /\ end) = FALSE
      BY DEF RightPath
    <3> QED
      BY <1>2, <1>5, <2>1, <2>2, <3>1 DEF Visit
  <2>4. Walk[<<n, path, end>>].output = left.output \o right.output
    <3>1. Walk[<<n, path, end>>] = Visit(Walk, <<n, path, end>>)
      BY WalkCases
    <3>2. PICK out : out = left.output \o right.output
      OBVIOUS
    <3>3. Walk[<<n, path, end>>] = [currentPath |-> left.currentPath, output |-> out]
      BY <2>3, <3>1, <3>2
    <3>4. [currentPath |-> left.currentPath, output |-> out].output = out
      OBVIOUS
    <3> QED
      BY <3>2, <3>3, <3>4, Zenon
  <2>5. Range(right.output) = Beyond(path, Denotes[r])
    BY <1>5, <2>1, <2>2 DEF Collects
  <2>6. Range(left.output \o right.output) = Range(left.output) \cup Range(right.output)
    <3>1. left.output \in Seq(Seq(Elements)) /\ right.output \in Seq(Seq(Elements))
      BY DEF Results
    <3> QED
      BY SMT, <3>1, Concatenation
  <2>7. Denotes[n] = Denotes[n.lhs] \cup Denotes[r]
    BY <1>5, <2>1, DenotesIsDefined DEF Meaning
  <2>8. \A A, B : Beyond(path, A \cup B) = Beyond(path, A) \cup Beyond(path, B)
    BY DEF Beyond
  <2> QED
    BY SMT, <1>3, <2>4, <2>5, <2>6, <2>7, <2>8
<1> QED
  BY <1>4, <1>5

\* fieldsToXPath() collects exactly the paths that the expression stands for
\* below the prefix, however deep it is and whatever it shares: the "a(b;c)"
\* is a/b and a/c of its comment.
THEOREM FieldsCollectTheirUnion ==
  ASSUME NEW expr \in FieldNodes, expr.kind = "Semi", NEW prefix \in Seq(Elements)
  PROVE  Range(fieldsToXPath(prefix, expr)) = {prefix \o d : d \in Denotes[expr]}
<1> DEFINE P == {n \in FieldNodes : IF n.kind = "Slash" THEN Linear(n) ELSE Collects(n)}
<1>1. FieldHeight \in [FieldNodes -> Nat]
  BY FieldAssumption DEF FieldAssumption
<1>2. ASSUME NEW n \in FieldNodes,
             \A c \in FieldNodes : FieldHeight[c] < FieldHeight[n] => c \in P
      PROVE  n \in P
  <2>1. \A c, kind : IsChild(c, n, kind) => c \in P /\ c.kind = kind
    BY <1>2 DEF IsChild
  <2>2. CASE n.kind = "Slash"
    <3>1. n.rhs # <<>> => Linear(n.rhs[1])
      BY SMT, <2>1, <2>2, Children
    <3> QED
      BY <2>2, <3>1, SlashIsLinear
  <2>3. CASE n.kind = "Paren"
    <3>1. Linear(n.lhs) /\ (n.rhs # <<>> => Collects(n.rhs[1]))
      BY <2>1, <2>3, Children
    <3> QED
      BY <2>3, <3>1, ParenCollects
  <2>4. CASE n.kind = "Semi"
    <3>1. Collects(n.lhs) /\ (n.rhs # <<>> => Collects(n.rhs[1]))
      BY SMT, <2>1, <2>4, Children
    <3> QED
      BY <2>4, <3>1, SemiCollects
  <2> QED
    BY <2>2, <2>3, <2>4, Children
<1>3. FieldNodes \subseteq P
  <2> HIDE DEF P
  <2> QED
    BY SMT, <1>1, <1>2, RankInduction
<1>4. Collects(expr)
  BY <1>3
<1> QED
  BY <1>4 DEF Collects, fieldsToXPath, Beyond
=============================================================================
