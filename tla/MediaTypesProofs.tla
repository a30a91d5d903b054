-------------------------- MODULE MediaTypesProofs --------------------------
(***************************************************************************)
(* Proofs about MediaTypes, for every accept and content-type header.      *)
(***************************************************************************)
EXTENDS MediaTypes, FiniteSetTheorems, TLAPS

\* Zenon does the first-order leaves; a leaf that reasons about numbers,
\* functions, records or sequences cites SMT.
USE Zenon

-----------------------------------------------------------------------------
(* Sorting *)

StrictOrder(S, R) ==
  /\ \A i \in S : <<i, i>> \notin R
  /\ \A i, j, k \in S : <<i, j>> \in R /\ <<j, k>> \in R => <<i, k>> \in R
  /\ \A i, j \in S : i = j \/ <<i, j>> \in R \/ <<j, i>> \in R

\* How many elements come before i.
Place(S, R, i) == Cardinality({j \in S : <<j, i>> \in R})

\* The places are numbers, and grow along the order.
LEMMA PlacesGrow ==
  ASSUME NEW S, IsFiniteSet(S), NEW R, StrictOrder(S, R)
  PROVE  /\ \A i \in S : Place(S, R, i) \in 0 .. (Cardinality(S) - 1)
         /\ \A i, j \in S : <<i, j>> \in R => Place(S, R, i) < Place(S, R, j)
<1> DEFINE Below(i) == {j \in S : <<j, i>> \in R}
<1>1. Cardinality(S) \in Nat
  BY FS_CardinalityType
<1>2. ASSUME NEW i \in S
      PROVE  IsFiniteSet(Below(i)) /\ Cardinality(Below(i)) \in Nat
  BY FS_Subset, FS_CardinalityType
<1>3. ASSUME NEW i \in S PROVE Place(S, R, i) \in 0 .. (Cardinality(S) - 1)
  <2>1. PICK B \in SUBSET S : B = Below(i)
    OBVIOUS
  <2>2. B # S
    BY <2>1 DEF StrictOrder
  <2>3. Cardinality(B) <= Cardinality(S) /\ Cardinality(B) # Cardinality(S)
    BY <2>2, FS_Subset
  <2> QED
    BY SMT, <1>1, <1>2, <2>1, <2>3 DEF Place
<1>4. ASSUME NEW i \in S, NEW j \in S, <<i, j>> \in R
      PROVE  Place(S, R, i) < Place(S, R, j)
  <2>1. PICK A, B : A = Below(i) /\ B = Below(j)
    OBVIOUS
  <2>2. A \in SUBSET B /\ A # B
    <3>1. i \in B /\ i \notin A
      BY <1>4, <2>1 DEF StrictOrder
    <3>2. A \in SUBSET B
      BY <1>4, <2>1 DEF StrictOrder
    <3> QED
      BY <3>1, <3>2
  <2>3. IsFiniteSet(B) /\ Cardinality(A) \in Nat /\ Cardinality(B) \in Nat
    BY <1>2, <2>1
  <2>4. Cardinality(A) <= Cardinality(B) /\ Cardinality(A) # Cardinality(B)
    BY <2>2, <2>3, FS_Subset
  <2> QED
    BY SMT, <2>1, <2>3, <2>4 DEF Place
<1> QED
  BY <1>3, <1>4

\* SortedBy() lists every element of S, once and at its place.
LEMMA Sorting ==
  ASSUME NEW S, IsFiniteSet(S), NEW R, StrictOrder(S, R)
  PROVE  /\ Cardinality(S) \in Nat
         /\ DOMAIN SortedBy(S, R) = 1 .. Cardinality(S)
         /\ \A p \in 1 .. Cardinality(S) : SortedBy(S, R)[p] \in S
         /\ \A i \in S : \E p \in 1 .. Cardinality(S) : SortedBy(S, R)[p] = i
         /\ \A p, r \in 1 .. Cardinality(S) :
              p < r => <<SortedBy(S, R)[p], SortedBy(S, R)[r]>> \in R
<1> DEFINE n == Cardinality(S)
           T == 0 .. (n - 1)
           place == [i \in S |-> Place(S, R, i)]
           order == SortedBy(S, R)
<1>1. n \in Nat
  BY FS_CardinalityType
<1>2. place \in [S -> T] /\ \A i, j \in S : <<i, j>> \in R => place[i] < place[j]
  BY PlacesGrow
<1> HIDE DEF place
<1>3. \A i, j \in S : place[i] = place[j] => i = j
  <2> SUFFICES ASSUME NEW i \in S, NEW j \in S, place[i] = place[j], i # j PROVE FALSE
    OBVIOUS
  <2>1. place[i] < place[j] \/ place[j] < place[i]
    BY <1>2, Zenon DEF StrictOrder
  <2>2. place[i] \in Int
    BY SMT, <1>2
  <2> QED
    BY SMT, <2>1, <2>2
<1>4. \A t \in T : \E i \in S : place[i] = t
  <2>1. place \in Injection(S, T)
    BY <1>2, <1>3 DEF Injection, IsInjective
  <2>2. IsFiniteSet(T) /\ Cardinality(T) = n
    <3>1. PICK k : k = n - 1
      OBVIOUS
    <3>2. 0 \in Int /\ k \in Int /\ (0 > k <=> n = 0) /\ k - 0 + 1 = n
      BY SMT, <1>1, <3>1
    <3>3. /\ IsFiniteSet(0 .. k)
          /\ Cardinality(0 .. k) = IF 0 > k THEN 0 ELSE k - 0 + 1
      BY ONLY Zenon, <3>2, FS_Interval
    <3> QED
      BY <3>1, <3>2, <3>3
  <2>3. place \in Surjection(S, T)
    BY <2>1, <2>2, FS_Injection
  <2> QED
    BY <2>3 DEF Surjection
<1>5. /\ DOMAIN order = 1 .. n
      /\ \A p \in 1 .. n : order[p] = CHOOSE i \in S : place[i] = p - 1
  BY DEF SortedBy, place, Place
<1> HIDE DEF order
<1>6. \A p \in 1 .. n : order[p] \in S /\ place[order[p]] = p - 1
  <2> SUFFICES ASSUME NEW p \in 1 .. n
               PROVE  order[p] \in S /\ place[order[p]] = p - 1
    OBVIOUS
  <2>1. p - 1 \in T
    BY SMT, <1>1
  <2> QED
    BY <1>4, <1>5, <2>1
<1>7. ASSUME NEW i \in S PROVE \E p \in 1 .. n : order[p] = i
  <2>1. place[i] \in T
    BY <1>2
  <2>2. place[i] + 1 \in 1 .. n /\ (place[i] + 1) - 1 = place[i]
    BY SMT, <1>1, <2>1
  <2> QED
    BY <1>3, <1>6, <2>2
<1>8. ASSUME NEW p \in 1 .. n, NEW r \in 1 .. n, p < r
      PROVE  <<order[p], order[r]>> \in R
  <2>1. place[order[p]] = p - 1 /\ place[order[r]] = r - 1
    BY <1>6
  <2>2. order[p] # order[r] /\ ~(place[order[r]] < place[order[p]])
    BY SMT, <1>1, <1>8, <2>1
  <2>3. order[p] \in S /\ order[r] \in S
    BY <1>6
  <2> QED
    BY <1>2, <2>2, <2>3 DEF StrictOrder
<1> QED
  BY <1>1, <1>5, <1>6, <1>7, <1>8 DEF order

\* Some position in a list is the first one: sorting begins with it.
LEMMA FirstPosition ==
  ASSUME NEW n \in Nat, NEW T, T \subseteq 1 .. n, T # {}
  PROVE  \E x \in T : \A y \in T : x <= y
<1> DEFINE R == {p \in T \X T : p[1] < p[2]}
<1>1. \A x \in T : x \in Int
  BY SMT
<1>2. \A x, y \in T : <<x, y>> \in R <=> x < y
  OBVIOUS
<1> HIDE DEF R
<1>3. StrictOrder(T, R)
  BY SMT, <1>1, <1>2 DEF StrictOrder
<1>4. IsFiniteSet(T)
  <2>1. PICK D : D = 1 .. n
    OBVIOUS
  <2>2. IsFiniteSet(D) /\ T \in SUBSET D
    BY SMT, <2>1, FS_Interval
  <2> QED
    BY <2>2, FS_Subset
<1>5. PICK k, order :
        /\ k \in Nat
        /\ \A p \in 1 .. k : order[p] \in T
        /\ \A i \in T : \E p \in 1 .. k : order[p] = i
        /\ \A p, r \in 1 .. k : p < r => <<order[p], order[r]>> \in R
  BY SMT, <1>3, <1>4, Sorting
<1>6. 1 \in 1 .. k /\ order[1] \in T
  <2>1. PICK i \in T : TRUE
    OBVIOUS
  <2>2. PICK p \in 1 .. k : order[p] = i
    BY <1>5
  <2>3. 1 \in 1 .. k
    BY SMT, <1>5
  <2> QED
    BY <1>5, <2>3
<1>7. PICK x \in T : x = order[1]
  BY <1>6
<1>8. ASSUME NEW y \in T PROVE x <= y
  <2>1. PICK p \in 1 .. k : order[p] = y
    BY <1>5
  <2>2. x \in Int /\ y \in Int
    BY <1>1
  <2>3. CASE p = 1
    BY SMT, <1>7, <2>1, <2>2, <2>3
  <2>4. CASE 1 < p
    <3>1. <<x, y>> \in R
      BY <1>5, <1>6, <1>7, <2>1, <2>4
    <3>2. x < y
      BY <1>2, <3>1
    <3> QED
      BY SMT, <2>2, <3>2
  <2> QED
    BY SMT, <1>5, <2>3, <2>4
<1> QED
  BY <1>8

-----------------------------------------------------------------------------
(* The accept header *)

MediaTypeLists == Seq([type : STRING, sub : STRING, q : Int])

\* The comparison of parseAcceptHeader() orders the types it keeps.
LEMMA PreferenceIsOrder ==
  ASSUME NEW items \in MediaTypeLists, NEW kept, kept = Kept(items),
         NEW R, R = {x \in kept \X kept : Precedes(items, x[1], x[2])}
  PROVE  IsFiniteSet(kept) /\ StrictOrder(kept, R)
<1>1. /\ kept \subseteq 1 .. Len(items) /\ Len(items) \in Nat
      /\ \A i \in kept : items[i].q \in Int
  <2>1. PICK M : M = [type : STRING, sub : STRING, q : Int]
    OBVIOUS
  <2>2. items \in Seq(M)
    BY <2>1 DEF MediaTypeLists
  <2>3. Len(items) \in Nat /\ DOMAIN items = 1 .. Len(items)
    BY SMT, <2>2
  <2>4. \A i \in DOMAIN items : items[i] \in M
    BY SMT, <2>2
  <2>5. \A m \in M : m.q \in Int
    BY <2>1
  <2> QED
    BY <2>3, <2>4, <2>5 DEF Kept
<1>2. IsFiniteSet(kept)
  <2>1. PICK D : D = 1 .. Len(items)
    OBVIOUS
  <2>2. IsFiniteSet(D) /\ kept \in SUBSET D
    BY SMT, <1>1, <2>1, FS_Interval
  <2> QED
    BY <2>2, FS_Subset
<1>3. \A i \in kept : Wildcards(items[i]) \in Int
  BY SMT DEF Wildcards
<1>4. \A i, j \in kept : <<i, j>> \in R <=> Precedes(items, i, j)
  OBVIOUS
<1>5. \A i \in kept : i \in Int
  BY SMT, <1>1
<1>6. \A i \in kept : ~Precedes(items, i, i)
  BY SMT, <1>1, <1>3, <1>5 DEF Precedes
<1>7. ASSUME NEW i \in kept, NEW j \in kept, NEW k \in kept,
             Precedes(items, i, j), Precedes(items, j, k)
      PROVE  Precedes(items, i, k)
  <2>1. PICK q, w :
          /\ q = [x \in kept |-> items[x].q] /\ w = [x \in kept |-> Wildcards(items[x])]
    OBVIOUS
  <2>2. \A x \in kept : q[x] \in Int /\ w[x] \in Int
    BY <1>1, <1>3, <2>1
  <2>3. \A x, y \in kept : Precedes(items, x, y) <=>
          \/ q[x] > q[y]
          \/ q[x] = q[y] /\ w[x] < w[y]
          \/ q[x] = q[y] /\ w[x] = w[y] /\ x < y
    BY <2>1 DEF Precedes
  <2> QED
    BY ONLY <1>5, <1>7, <2>2, <2>3
<1>8. \A i, j \in kept : i = j \/ Precedes(items, i, j) \/ Precedes(items, j, i)
  BY SMT, <1>1, <1>3, <1>5 DEF Precedes
<1> QED
  BY SMT, <1>2, <1>4, <1>6, <1>7, <1>8 DEF StrictOrder

\* types is what is wanted of items, each one after those it yields to.
SortedTypes(types, items) ==
  \E n \in Nat : \E order \in [1 .. n -> Wanted(items)] :
    /\ types = [p \in 1 .. n |-> items[order[p]]]
    /\ \A i \in Wanted(items) : \E p \in 1 .. n : order[p] = i
    /\ \A p, r \in 1 .. n : p < r => Precedes(items, order[p], order[r])

\* That is what parseAcceptHeader() returns.
LEMMA AcceptedTypes ==
  ASSUME NEW h, IsHeader(h)
  PROVE  SortedTypes(parseAcceptHeader(h), h.items)
<1>1. PICK items \in MediaTypeLists : items = h.items
  BY DEF IsHeader, MediaTypeLists
<1>2. PICK kept : kept = Kept(items) /\ kept = Wanted(items)
  BY DEF Kept, Wanted
<1>3. CASE h.kind # "list"
  <2>1. items = <<>> /\ parseAcceptHeader(h) = <<>>
    BY <1>1, <1>3 DEF IsHeader, parseAcceptHeader
  <2>2. kept = {}
    BY SMT, <1>2, <2>1 DEF Kept
  <2>3. PICK order \in [1 .. 0 -> kept] : <<>> = [p \in 1 .. 0 |-> items[order[p]]]
    <3>1. PICK order : order = [p \in 1 .. 0 |-> 0]
      OBVIOUS
    <3>2. order \in [1 .. 0 -> kept]
      BY SMT, <3>1
    <3>3. <<>> = [p \in 1 .. 0 |-> items[order[p]]]
      BY SMT
    <3> QED
      BY <3>2, <3>3
  <2>4. 0 \in Nat /\ \A p \in 1 .. 0 : FALSE
    BY SMT
  <2> QED
    BY <1>1, <1>2, <2>1, <2>2, <2>3, <2>4 DEF SortedTypes
<1>4. CASE h.kind = "list"
  <2>1. PICK R : R = {x \in kept \X kept : Precedes(items, x[1], x[2])}
    OBVIOUS
  <2>2. IsFiniteSet(kept) /\ StrictOrder(kept, R)
    BY <1>2, <2>1, PreferenceIsOrder
  <2>3. PICK order : order = SortedBy(kept, R)
    OBVIOUS
  <2>4. PICK n : n = Cardinality(kept)
    OBVIOUS
  <2>5. /\ n \in Nat /\ DOMAIN order = 1 .. n
        /\ \A p \in 1 .. n : order[p] \in kept
        /\ \A i \in kept : \E p \in 1 .. n : order[p] = i
        /\ \A p, r \in 1 .. n : p < r => <<order[p], order[r]>> \in R
    BY SMT, <2>2, <2>3, <2>4, Sorting
  <2>6. order \in [1 .. n -> kept]
    <3>1. order = [p \in 1 .. n |-> order[p]]
      <4> DEFINE At(p) == CHOOSE i \in kept : Cardinality({j \in kept : <<j, i>> \in R}) = p - 1
      <4>1. order = [p \in 1 .. n |-> At(p)]
        BY <2>3, <2>4 DEF SortedBy
      <4> HIDE DEF At
      <4> QED
        BY <4>1
    <3> QED
      BY <2>5, <3>1
  <2>7. \A p, r \in 1 .. n : p < r => Precedes(items, order[p], order[r])
    BY <2>1, <2>5
  <2>8. parseAcceptHeader(h) = [p \in 1 .. n |-> items[order[p]]]
    BY <1>1, <1>2, <1>4, <2>1, <2>3, <2>5 DEF parseAcceptHeader, Order
  <2>9. PICK types : types = parseAcceptHeader(h)
    OBVIOUS
  <2>10. /\ types = [p \in 1 .. n |-> items[order[p]]]
         /\ order \in [1 .. n -> Wanted(items)]
         /\ \A i \in Wanted(items) : \E p \in 1 .. n : order[p] = i
    BY <1>2, <2>5, <2>6, <2>8, <2>9
  <2>11. SortedTypes(types, items)
    BY ONLY SMT, <2>5, <2>7, <2>10 DEF SortedTypes
  <2> QED
    BY <1>1, <2>9, <2>11
<1> QED
  BY <1>3, <1>4

\* dataTypeFromMimeType() finds a format exactly for the types that admit one,
\* finds one that the type admits, and JSON for a wildcard.
LEMMA FormatOfType ==
  ASSUME NEW m
  PROVE  LET f == dataTypeFromMimeType(m, TRUE)
         IN  /\ f \in {"JSON", "XML", "none"}
             /\ f # "none" => Admits(m, f)
             /\ f = "none" <=> ~Admits(m, "JSON") /\ ~Admits(m, "XML")
             /\ f # "none" /\ Wildcards(m) # 0 => f = "JSON"
BY DEF dataTypeFromMimeType, mimeMatch, Admits, Wildcards

\* The choice of the encoding follows the order that the comments of
\* parseAcceptHeader() promise: 406 when nothing in the accept header is served,
\* otherwise a format that a served type of the best quality admits, one that
\* names a format if there is one, and JSON for a wildcard.
THEOREM Negotiation ==
  ASSUME NEW accept, NEW contentType, IsHeader(accept)
  PROVE  LET items == accept.items
             e == chooseDataEncoding(accept, contentType)
         IN  /\ e.code = 406 <=> Wanted(items) # {} /\ Served(items) = {}
             /\ Served(items) # {} /\ e.code # 415 =>
                  \E i \in Best(items) :
                    /\ Admits(items[i], e.response)
                    /\ Named(items) # {} => i \in Named(items)
                    /\ Wildcards(items[i]) # 0 => e.response = "JSON"
<1> DEFINE types == parseAcceptHeader(accept)
           items == accept.items
           Usable(p) == dataTypeFromMimeType(types[p], TRUE) # "none"
           usable == {p \in DOMAIN types : Usable(p)}
           first == CHOOSE p \in usable : \A r \in usable : p <= r
           resAccept == IF usable = {} THEN "none"
                        ELSE dataTypeFromMimeType(types[first], TRUE)
           contentTypes == parseAcceptHeader(contentType)
           resContentType ==
             IF contentTypes = <<>> THEN "none"
             ELSE dataTypeFromMimeType(contentTypes[Len(contentTypes)], FALSE)
           e == chooseDataEncoding(accept, contentType)
<1>1. e = IF types # <<>> /\ usable = {} THEN Encoding(406, "none", "JSON")
          ELSE IF contentTypes # <<>> /\ resContentType = "none"
          THEN Encoding(415, "none", "JSON")
          ELSE Encoding(0, resContentType,
                 IF resAccept # "none" THEN resAccept
                 ELSE IF resContentType # "none" THEN resContentType
                 ELSE "JSON")
  BY DEF chooseDataEncoding
<1>2. SortedTypes(types, items) /\ items \in MediaTypeLists
  BY AcceptedTypes DEF IsHeader, MediaTypeLists
<1>3. PICK n \in Nat : \E order \in [1 .. n -> Wanted(items)] :
        /\ types = [p \in 1 .. n |-> items[order[p]]]
        /\ \A i \in Wanted(items) : \E p \in 1 .. n : order[p] = i
        /\ \A p, r \in 1 .. n : p < r => Precedes(items, order[p], order[r])
  BY <1>2 DEF SortedTypes
<1>4. PICK order \in [1 .. n -> Wanted(items)] :
        /\ types = [p \in 1 .. n |-> items[order[p]]]
        /\ \A i \in Wanted(items) : \E p \in 1 .. n : order[p] = i
        /\ \A p, r \in 1 .. n : p < r => Precedes(items, order[p], order[r])
  BY <1>3
<1> HIDE DEF types, items, contentTypes, resContentType, e
<1>5. types # <<>> <=> Wanted(items) # {}
  <2>1. n = 0 => types = <<>> /\ Wanted(items) = {}
    BY SMT, <1>4
  <2>2. n > 0 => 1 \in DOMAIN types /\ order[1] \in Wanted(items)
    BY SMT, <1>4
  <2> QED
    BY SMT, <2>1, <2>2
<1>6. \A p \in 1 .. n : p \in usable <=> order[p] \in Served(items)
  BY <1>4, FormatOfType DEF Served, Formats
<1>7. usable = {} <=> Served(items) = {}
  <2>1. \A p \in usable : p \in 1 .. n
    BY <1>4
  <2>2. \A i \in Served(items) : \E p \in 1 .. n : order[p] = i
    BY <1>4 DEF Served
  <2> HIDE DEF usable
  <2> QED
    BY <1>6, <2>1, <2>2
<1>8. e.code = 406 <=> Wanted(items) # {} /\ Served(items) = {}
  <2> HIDE DEF usable, resAccept
  <2> QED
    BY SMT, <1>1, <1>5, <1>7 DEF Encoding
<1>9. ASSUME Served(items) # {}, e.code # 415
      PROVE  \E i \in Best(items) :
               /\ Admits(items[i], e.response)
               /\ Named(items) # {} => i \in Named(items)
               /\ Wildcards(items[i]) # 0 => e.response = "JSON"
  <2>1. usable \subseteq 1 .. n /\ usable # {}
    BY <1>4, <1>7, <1>9
  <2>2. first \in usable /\ \A r \in usable : first <= r
    <3> HIDE DEF usable
    <3> QED
      BY <2>1, FirstPosition
  <2>3. PICK b : b = order[first]
    OBVIOUS
  <2>4. b \in Served(items) /\ types[first] = items[b]
    BY <1>4, <1>6, <2>1, <2>2, <2>3
  <2>5. ASSUME NEW j \in Served(items) PROVE b = j \/ Precedes(items, b, j)
    <3>1. PICK p \in 1 .. n : order[p] = j
      BY <1>4 DEF Served
    <3>2. p \in usable
      BY <1>6, <3>1
    <3> HIDE DEF usable, first
    <3>3. first \in 1 .. n /\ (first = p \/ first < p)
      BY SMT, <2>1, <2>2, <3>1, <3>2
    <3> QED
      BY <1>4, <2>3, <3>1, <3>3
  <2>6. \A j \in Served(items) : items[j].q \in Int /\ Wildcards(items[j]) \in 0 .. 2
    <3>1. PICK M : M = [type : STRING, sub : STRING, q : Int]
      OBVIOUS
    <3>2. items \in Seq(M) /\ Served(items) \subseteq DOMAIN items
      BY <1>2, <3>1 DEF MediaTypeLists, Served, Wanted
    <3>3. \A j \in Served(items) : items[j] \in M
      BY SMT, <3>2
    <3> QED
      BY SMT, <3>1, <3>3 DEF Wildcards
  <2>7. b \in Best(items)
    <3>1. \A j \in Served(items) : items[b].q >= items[j].q
      BY SMT, <2>4, <2>5, <2>6 DEF Precedes
    <3> QED
      BY <2>4, <3>1 DEF Best
  <2>8. Named(items) # {} => b \in Named(items)
    <3> SUFFICES ASSUME NEW k \in Named(items) PROVE b \in Named(items)
      OBVIOUS
    <3>1. k \in Served(items) /\ items[k].q >= items[b].q /\ Wildcards(items[k]) = 0
      BY <2>4 DEF Named, Best
    <3>2. Wildcards(items[b]) = 0
      BY SMT, <2>4, <2>5, <2>6, <3>1 DEF Precedes
    <3> QED
      BY <2>7, <3>2 DEF Named
  <2>9. e.response = dataTypeFromMimeType(items[b], TRUE) /\ e.response # "none"
    <3>1. resAccept = dataTypeFromMimeType(items[b], TRUE)
      BY <2>1, <2>4
    <3>2. resAccept # "none"
      BY <2>1, <2>2
    <3>3. usable # {}
      BY <2>1
    <3> HIDE DEF usable, resAccept
    <3>4. e.response = resAccept
      BY <1>1, <1>9, <3>2, <3>3 DEF Encoding
    <3> QED
      BY <3>1, <3>2, <3>4
  <2>10. Admits(items[b], e.response) /\ (Wildcards(items[b]) # 0 => e.response = "JSON")
    BY <2>9, FormatOfType
  <2> QED
    BY <2>7, <2>8, <2>10
<1> QED
  BY <1>8, <1>9 DEF items, e

\* Among ranges for a format there is a most specific one.
LEMMA ClosestExists ==
  ASSUME NEW items \in MediaTypeLists, NEW f, NEW b \in Ranges(items, f)
  PROVE  \E c \in Closest(items, f) : Wildcards(items[c]) <= Wildcards(items[b])
<1>1. \A i \in Ranges(items, f) : Wildcards(items[i]) \in 0 .. 2
  BY SMT DEF Wildcards
<1>2. PICK w \in 0 .. 2 :
        /\ \E c \in Ranges(items, f) : Wildcards(items[c]) = w
        /\ \A i \in Ranges(items, f) : w <= Wildcards(items[i])
  BY SMT, <1>1
<1>3. PICK c \in Ranges(items, f) : Wildcards(items[c]) = w
  BY <1>2
<1> QED
  BY <1>2, <1>3 DEF Closest

(***************************************************************************)
(* The format of a response against RFC 9110: when no wildcard has a       *)
(* better quality than a more specific range for JSON, no other format has *)
(* a better quality than the one chooseDataEncoding() takes.  The first    *)
(* range in the order of the server either names the format, and is then a *)
(* most specific one, or is a wildcard, and then a most specific range for *)
(* JSON is as good.                                                        *)
(***************************************************************************)
THEOREM BestFormat ==
  ASSUME NEW accept, NEW contentType, IsHeader(accept),
         WildcardsComeLast(accept.items), NEW g \in Formats,
         chooseDataEncoding(accept, contentType).code # 415
  PROVE  AsGoodAs(accept.items, chooseDataEncoding(accept, contentType).response, g)
<1>1. PICK items, e :
        items = accept.items /\ e = chooseDataEncoding(accept, contentType)
  OBVIOUS
<1>2. /\ items \in MediaTypeLists /\ WildcardsComeLast(items) /\ e.code # 415
      /\ Served(items) # {} =>
           \E i \in Best(items) :
             /\ Admits(items[i], e.response)
             /\ Wildcards(items[i]) # 0 => e.response = "JSON"
  <2>1. accept.items \in MediaTypeLists
    BY DEF IsHeader, MediaTypeLists
  <2>2. LET d == chooseDataEncoding(accept, contentType)
        IN  Served(accept.items) # {} /\ d.code # 415 =>
              \E i \in Best(accept.items) :
                /\ Admits(accept.items[i], d.response)
                /\ Named(accept.items) # {} => i \in Named(accept.items)
                /\ Wildcards(accept.items[i]) # 0 => d.response = "JSON"
    BY SMT, Negotiation
  <2>3. e.code # 415 /\ WildcardsComeLast(items)
    BY <1>1
  <2>4. Served(items) # {} /\ e.code # 415 =>
          \E i \in Best(items) :
            /\ Admits(items[i], e.response)
            /\ Named(items) # {} => i \in Named(items)
            /\ Wildcards(items[i]) # 0 => e.response = "JSON"
    BY ONLY <1>1, <2>2
  <2> QED
    BY ONLY Zenon, <1>1, <2>1, <2>3, <2>4
<1> SUFFICES ASSUME NEW j \in Closest(items, g), items[j].q > 0
             PROVE  \E i \in Closest(items, e.response) : items[i].q >= items[j].q
  BY <1>1 DEF AsGoodAs
<1>3. /\ \A i \in DOMAIN items : items[i].q \in Int /\ Wildcards(items[i]) \in 0 .. 2
      /\ j \in DOMAIN items
  <2>1. PICK M : M = [type : STRING, sub : STRING, q : Int]
    OBVIOUS
  <2>2. \A i \in DOMAIN items : items[i] \in M
    <3>1. items \in Seq(M)
      BY <1>2, <2>1 DEF MediaTypeLists
    <3> QED
      BY ONLY <3>1
  <2>3. \A i \in DOMAIN items : items[i].q \in Int
    BY <2>1, <2>2
  <2>4. \A i \in DOMAIN items : Wildcards(items[i]) \in 0 .. 2
    BY SMT DEF Wildcards
  <2> QED
    BY <2>3, <2>4 DEF Closest, Ranges
<1>4. j \in Served(items)
  <2>1. items[j].q # 0
    BY SMT, <1>3
  <2> QED
    BY <1>3, <2>1 DEF Served, Wanted, Closest, Ranges
<1>5. PICK b \in Best(items) :
        Admits(items[b], e.response) /\ (Wildcards(items[b]) # 0 => e.response = "JSON")
  BY <1>2, <1>4
<1>6. /\ b \in DOMAIN items /\ items[b].q >= items[j].q
      /\ b \in Ranges(items, e.response)
  BY <1>4, <1>5 DEF Best, Served, Wanted, Ranges
<1>7. PICK c \in Closest(items, e.response) : Wildcards(items[c]) <= Wildcards(items[b])
  BY <1>2, <1>6, ClosestExists
<1>8. c \in Ranges(items, e.response) /\ c \in DOMAIN items
  BY <1>7 DEF Closest, Ranges
<1>9. CASE Wildcards(items[c]) = Wildcards(items[b])
  <2>1. b \in Closest(items, e.response)
    BY <1>6, <1>7, <1>9 DEF Closest
  <2> QED
    BY <1>6, <2>1
<1>10. CASE Wildcards(items[c]) # Wildcards(items[b])
  <2>1. Wildcards(items[b]) > Wildcards(items[c]) /\ Wildcards(items[b]) # 0
    BY SMT, <1>3, <1>6, <1>7, <1>8, <1>10
  <2>2. items[b].q <= items[c].q
    BY <1>2, <1>5, <1>6, <1>8, <2>1 DEF WildcardsComeLast
  <2>3. items[c].q >= items[j].q
    BY SMT, <1>3, <1>6, <1>8, <2>2
  <2> QED
    BY <1>7, <2>3
<1> QED
  BY <1>9, <1>10
=============================================================================
