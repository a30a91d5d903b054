----------------------------- MODULE MediaTypes -----------------------------
(***************************************************************************)
(* The choice of the encodings of a request and of its response            *)
(* (src/src/restconf/utils/dataformat.cpp), and the headers it reads       *)
(* (src/src/http/utils.cpp).                                               *)
(*                                                                         *)
(* A header is absent, invalid (its grammar refuses it) or a list of media *)
(* types with a type, a subtype and a quality q; the letters of the types  *)
(* are lower case already, which is what the code compares.  plain says    *)
(* that the text is one lower-case media type and nothing else.            *)
(***************************************************************************)
EXTENDS Integers, FiniteSets, Sequences

Header(kind, items, plain) ==
  [kind |-> kind, items |-> items, plain |-> plain]
NoHeader == Header("absent", <<>>, FALSE)

IsHeader(h) ==
  /\ h.kind \in {"absent", "invalid", "list"}
  /\ h.items \in Seq([type : STRING, sub : STRING, q : Int])
  /\ h.kind # "list" => h.items = <<>>

\* 0: names a subtype, 1: type/*, 2: */*
Wildcards(m) == IF m.type = "*" THEN 2 ELSE IF m.sub = "*" THEN 1 ELSE 0

\* The elements of S in the order R: each one after as many as are before it.
SortedBy(S, R) ==
  [p \in 1..Cardinality(S) |->
     CHOOSE i \in S : Cardinality({j \in S : <<j, i>> \in R}) = p - 1]

\* Mutant of parseAcceptHeader: not sorted.
parseAcceptHeaderUnsorted(h) ==
  LET Kept1(m) == m.q # 0 IN SelectSeq(h.items, Kept1)

\* Best quality first, then the most specific, then in order (a stable sort).
Precedes(items, i, j) ==
  LET a == items[i]
      b == items[j]
  IN  \/ a.q > b.q
      \/ a.q = b.q /\ Wildcards(a) < Wildcards(b)
      \/ a.q = b.q /\ Wildcards(a) = Wildcards(b) /\ i < j

Kept(items) == {i \in DOMAIN items : items[i].q # 0}

Order(items) ==
  LET kept == Kept(items)
  IN  SortedBy(kept, {x \in kept \X kept : Precedes(items, x[1], x[2])})

\* Without the types of quality 0.
parseAcceptHeader(h) ==
  IF h.kind # "list" THEN <<>>
  ELSE LET order == Order(h.items) IN [p \in DOMAIN order |-> h.items[order[p]]]

mimeMatch(m, sub, wildcards) ==
  \/ wildcards /\ m.type = "*"
  \/ m.type = "application" /\ m.sub = sub
  \/ wildcards /\ m.type = "application" /\ m.sub = "*"

dataTypeFromMimeType(m, wildcards) ==
  IF mimeMatch(m, "yang-data+json", wildcards)
     \/ mimeMatch(m, "yang-patch+json", wildcards) THEN "JSON"
  ELSE IF mimeMatch(m, "yang-data+xml", wildcards)
     \/ mimeMatch(m, "yang-patch+xml", wildcards) THEN "XML"
  ELSE "none"

Encoding(code, request, response) ==
  [code |-> code, request |-> request, response |-> response]

\* code is the error, or 0; request is "none" without a content type.
chooseDataEncoding(accept, contentType) ==
  LET acceptTypes == parseAcceptHeader(accept)
      usable == {i \in DOMAIN acceptTypes :
                   dataTypeFromMimeType(acceptTypes[i], TRUE) # "none"}
      resAccept ==
        IF usable = {} THEN "none"
        ELSE dataTypeFromMimeType(
               acceptTypes[CHOOSE i \in usable : \A j \in usable : i <= j],
               TRUE)
      contentTypes == parseAcceptHeader(contentType)
      resContentType ==
        IF contentTypes = <<>> THEN "none"
        ELSE dataTypeFromMimeType(contentTypes[Len(contentTypes)], FALSE)
  IN  IF acceptTypes # <<>> /\ usable = {} THEN Encoding(406, "none", "JSON")
      ELSE IF contentTypes # <<>> /\ resContentType = "none"
      THEN Encoding(415, "none", "JSON")
      ELSE Encoding(0, resContentType,
             IF resAccept # "none" THEN resAccept
             ELSE IF resContentType # "none" THEN resContentType
             ELSE "JSON")

-----------------------------------------------------------------------------
(* References for the choice of the format of a response *)

Formats == {"JSON", "XML"}

Admits(m, format) ==
  \/ m.type = "*"
  \/ /\ m.type = "application"
     /\ \/ m.sub = "*"
        \/ format = "JSON" /\ m.sub \in {"yang-data+json", "yang-patch+json"}
        \/ format = "XML" /\ m.sub \in {"yang-data+xml", "yang-patch+xml"}

Wanted(items) == {i \in DOMAIN items : items[i].q # 0}
Served(items) ==
  {i \in Wanted(items) : \E f \in Formats : Admits(items[i], f)}

\* The order that the comments of parseAcceptHeader() promise: the quality,
\* and for equal qualities a type that is named before a wildcard.
Best(items) ==
  {i \in Served(items) : \A j \in Served(items) : items[i].q >= items[j].q}
Named(items) == {i \in Best(items) : Wildcards(items[i]) = 0}

\* RFC 9110, 12.5.1: the quality of a format is the one of the most specific
\* range that admits it, whatever the others say.
Ranges(items, f) == {i \in DOMAIN items : Admits(items[i], f)}
Closest(items, f) ==
  {i \in Ranges(items, f) :
     \A j \in Ranges(items, f) : Wildcards(items[i]) <= Wildcards(items[j])}

\* f is acceptable, and not less than g, if g is acceptable.
AsGoodAs(items, f, g) ==
  \A j \in Closest(items, g) :
    items[j].q > 0 => \E i \in Closest(items, f) : items[i].q >= items[j].q

\* Qualities are not negative, and no wildcard that the server answers with
\* JSON has a better one than a more specific range for JSON.
WildcardsComeLast(items) ==
  /\ \A i \in DOMAIN items : items[i].q >= 0
  /\ \A i, j \in Ranges(items, "JSON") :
       Wildcards(items[i]) > Wildcards(items[j]) => items[i].q <= items[j].q

-----------------------------------------------------------------------------
(* Other headers *)

\* The text of the header is compared, not the parsed media type.
isYangPatch(contentType) ==
  /\ contentType.kind = "list" /\ contentType.plain
  /\ contentType.items[1].type = "application"
  /\ contentType.items[1].sub \in {"yang-patch+json", "yang-patch+xml"}

NoPart == ""

\* The header forward: a sequence of [proto, host], NoPart where one is missing,
\* <<>> when it is absent or refused by its grammar.  The first one wins.
parseForwardedHeader(forward) ==
  IF forward = <<>> THEN [proto |-> NoPart, host |-> NoPart] ELSE Head(forward)

\* NoPart is no prefix.
parseUrlPrefix(forward) ==
  LET first == parseForwardedHeader(forward)
  IN  IF first.proto = NoPart \/ first.host = NoPart THEN NoPart
      ELSE first.host
=============================================================================
