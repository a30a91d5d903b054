---------------------------- MODULE MCDataEdits ----------------------------
(* DataEdits for TLC: a list and one entry below it. *)
EXTENDS DataEdits

CONSTANTS list, entry

MCDescendants == [n \in {list, entry} |-> IF n = list THEN {entry} ELSE {}]

\* Bound: one datastore has data at a time.  No handler reads or writes another
\* than the one its request names.
OneInUse ==
  \E d \in Writable : \A x \in Writable \ {d} : data[x] = Empty
=============================================================================
