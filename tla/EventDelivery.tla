--------------------------- MODULE EventDelivery ---------------------------
(***************************************************************************)
(* What an event stream promises the publisher and the client, without     *)
(* threads, locks, timers or deferred reads: an ordered channel of bytes.  *)
(* A byte is named by its position, so "delivered = n" says that the       *)
(* client got the bytes 1 .. n, in this order, and nothing else.           *)
(***************************************************************************)
EXTENDS Naturals

VARIABLES
  published,  \* bytes accepted for the client
  delivered,  \* bytes handed to the client
  phase       \* "open", "ending" (terminated by the server) or "over"

vars == <<published, delivered, phase>>

Init ==
  /\ published = 0
  /\ delivered = 0
  /\ phase = "open"

\* A whole event is accepted; never once the stream is to end.
Publish ==
  /\ phase = "open"
  /\ published' \in Nat
  /\ published' > published
  /\ UNCHANGED <<delivered, phase>>

\* The client gets the next bytes; never once the stream is to end.
Deliver ==
  /\ phase = "open"
  /\ delivered' \in Nat
  /\ delivered < delivered' /\ delivered' <= published
  /\ UNCHANGED <<published, phase>>

\* The server terminates the stream: what was not delivered is dropped.
End ==
  /\ phase = "open"
  /\ phase' = "ending"
  /\ UNCHANGED <<published, delivered>>

\* The response is closed, by the client or after its end was sent.
Close ==
  /\ phase \in {"open", "ending"}
  /\ phase' = "over"
  /\ UNCHANGED <<published, delivered>>

Next == Publish \/ Deliver \/ End \/ Close

Spec == Init /\ [][Next]_vars
=============================================================================
