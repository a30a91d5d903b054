---------------------------- MODULE EventStream ----------------------------
(***************************************************************************)
(* One text/event-stream response (src/src/http/EventStream.cpp).          *)
(*                                                                         *)
(* Two kinds of threads touch it.  The event loop (exactly one thread)     *)
(* constructs it, runs the handlers posted to the io_context, the          *)
(* keep-alive timer, nghttp2's read callback process() and on_close().     *)
(* Any other thread may emit one of the two signals the stream is          *)
(* connected to; its slot then runs in that thread.  A slot is two steps:  *)
(* the signal library picks it up, and later it enters its critical        *)
(* section under mtx.  Everything done under mtx is one atomic step.       *)
(*                                                                         *)
(* A string stands for the bytes it holds, each named by its position in   *)
(* the stream of all bytes ever accepted into the queue: [from, to] holds  *)
(* the bytes from + 1 .. to.                                               *)
(***************************************************************************)
EXTENDS Integers, Sequences, FiniteSetsExt

CONSTANTS
  Threads,          \* threads other than the event loop that emit signals
  Sizes,            \* lengths an event may have once enqueue() formatted it
  Lens,             \* lengths of the buffers nghttp2 passes to process()
  MaxBytes,         \* bound: no new event once so many bytes were accepted
  MaxTerminations   \* bound: how often the termination signal is emitted

ASSUME StreamAssumption ==
  /\ Sizes \subseteq Nat \ {0}     \* enqueue() always adds a final newline
  /\ Lens \subseteq Nat \ {0}
  /\ MaxBytes \in Nat
  /\ MaxTerminations \in Nat

VARIABLES
  life,          \* life cycle of the object and of the HTTP response
  state,         \* EventStream::state
  queue,         \* EventStream::queue
  ping,          \* the keep-alive timer
  slot,          \* slot[t]: the slot thread t runs, up to its critical section
  resumes,       \* posted handlers of enqueue() that did not run yet
  finishes,      \* posted handlers of the termination slot that did not run
  reading,       \* "deferred": nghttp2 waits for resume() before it reads on
  terminations,  \* how often the termination signal was emitted
  accepted,      \* history: how many bytes were pushed into the queue
  sent           \* history: the last byte process() copied to nghttp2

vars == <<life, state, queue, ping, slot, resumes, finishes, reading,
          terminations, accepted, sent>>

States == {"HasEvents", "WaitingForEvents", "WantToClose", "Closed"}

(***************************************************************************)
(* "constructed": the constructor connected the slots, activate() did not  *)
(* run.  "active": nghttp2 may call process().  "eof": process() returned  *)
(* EOF.  "closed": on_close() has run.  "destroyed": the last shared_ptr   *)
(* is gone, weak_ptr::lock() fails.                                        *)
(***************************************************************************)
Lives == {"unborn", "constructed", "active", "eof", "closed", "destroyed"}

Connected == life \in {"constructed", "active", "eof"}

\* The event loop is between two handlers.
LoopIdle == life \notin {"unborn", "constructed"}

Alive == life # "destroyed"

-----------------------------------------------------------------------------

String == [from : Nat, to : Nat]

Size(str) == str.to - str.from

\* Mutant of Substr: a sign slip.
SubstrSignSlip(str, num) == [from |-> str.from - num, to |-> str.to]

\* std::string::substr(num)
Substr(str, num) == [from |-> str.from + num, to |-> str.to]

\* Mutant of Enqueue: the handler that resumes the response is not posted.
EnqueueNoPost(n, weak) ==
  IF state \in {"Closed", "WantToClose"}
  THEN UNCHANGED <<queue, state, resumes, accepted>>
  ELSE /\ queue' = Append(queue, [from |-> accepted, to |-> accepted + n])
       /\ accepted' = accepted + n
       /\ state' = "HasEvents"
       /\ UNCHANGED resumes

\* Mutant of Enqueue: a stream that wants to close still accepts events.
EnqueueIntoClosing(n, weak) ==
  IF state = "Closed"
  THEN UNCHANGED <<queue, state, resumes, accepted>>
  ELSE /\ queue' = Append(queue, [from |-> accepted, to |-> accepted + n])
       /\ accepted' = accepted + n
       /\ state' = "HasEvents"
       /\ resumes' = IF weak THEN resumes + 1 ELSE resumes

(***************************************************************************)
(* The critical section of enqueue().  In the constructor and until the    *)
(* shared_ptr exists weak_from_this() is empty, so the posted handler does *)
(* nothing: it is not counted.  Another thread may meet either case while  *)
(* the stream is "constructed".                                            *)
(***************************************************************************)
Enqueue(n, weak) ==
  IF state \in {"Closed", "WantToClose"}
  THEN UNCHANGED <<queue, state, resumes, accepted>>
  ELSE /\ queue' = Append(queue, [from |-> accepted, to |-> accepted + n])
       /\ accepted' = accepted + n
       /\ state' = "HasEvents"
       /\ resumes' = IF weak THEN resumes + 1 ELSE resumes

WeakIsSet == IF life = "constructed" THEN BOOLEAN ELSE {TRUE}

\* The constructor: the optional initial event, then the two connects.
Construct ==
  /\ life = "unborn"
  /\ life' = "constructed"
  /\ \/ \E n \in Sizes : Enqueue(n, FALSE)
     \/ UNCHANGED <<queue, state, resumes, accepted>>
  /\ UNCHANGED <<ping, slot, finishes, reading, terminations, sent>>

\* activate(): start_ping(), write_head(), on_close() and end().
Activate ==
  /\ life = "constructed"
  /\ life' = "active"
  /\ ping' = "armed"
  /\ UNCHANGED <<state, queue, slot, resumes, finishes, reading,
                 terminations, accepted, sent>>

-----------------------------------------------------------------------------
(* Slots, run by the thread that emits the signal. *)

EmitEvent(t) ==
  /\ Connected
  /\ slot[t] = "idle"
  /\ accepted < MaxBytes
  /\ slot' = [slot EXCEPT ![t] = "event"]
  /\ UNCHANGED <<life, state, queue, ping, resumes, finishes, reading,
                 terminations, accepted, sent>>

EmitTermination(t) ==
  /\ Connected
  /\ slot[t] = "idle"
  /\ terminations < MaxTerminations
  /\ terminations' = terminations + 1
  /\ slot' = [slot EXCEPT ![t] = "terminate"]
  /\ UNCHANGED <<life, state, queue, ping, resumes, finishes, reading,
                 accepted, sent>>

EventSlot(t) ==
  /\ slot[t] = "event"
  /\ Alive
  /\ slot' = [slot EXCEPT ![t] = "idle"]
  /\ \E n \in Sizes, weak \in WeakIsSet : Enqueue(n, weak)
  /\ UNCHANGED <<life, ping, finishes, reading, terminations, sent>>

\* Mutant of TerminationSlot: the handler that ends the body is not posted.
TerminationSlotNoPost(t) ==
  /\ slot[t] = "terminate"
  /\ Alive
  /\ slot' = [slot EXCEPT ![t] = "idle"]
  /\ state' = IF state = "Closed" THEN state ELSE "WantToClose"
  /\ UNCHANGED <<life, queue, ping, resumes, finishes, reading, terminations,
                 accepted, sent>>

\* onTerminationCb, called before mtx is taken, does not touch the stream.
TerminationSlot(t) ==
  /\ slot[t] = "terminate"
  /\ Alive
  /\ slot' = [slot EXCEPT ![t] = "idle"]
  /\ IF state = "Closed"
     THEN UNCHANGED <<state, finishes>>
     ELSE /\ state' = "WantToClose"
          /\ \E weak \in WeakIsSet :
               finishes' = IF weak THEN finishes + 1 ELSE finishes
  /\ UNCHANGED <<life, queue, ping, resumes, reading, terminations,
                 accepted, sent>>

(***************************************************************************)
(* A slot that reaches mtx after the stream was destroyed uses freed       *)
(* memory.  Whatever it does there no longer concerns this stream.         *)
(***************************************************************************)
SlotAfterDestruction(t) ==
  /\ slot[t] # "idle"
  /\ ~Alive
  /\ slot' = [slot EXCEPT ![t] = "idle"]
  /\ UNCHANGED <<life, state, queue, ping, resumes, finishes, reading,
                 terminations, accepted, sent>>

-----------------------------------------------------------------------------
(* Handlers of the event loop. *)

\* res.resume(): nghttp2 will call process() again if it was told to wait.
Resume == reading' = "active"

\* Mutant of RunResume: the state is not looked at again.
RunResumeUnchecked ==
  /\ LoopIdle
  /\ resumes > 0
  /\ resumes' = resumes - 1
  /\ IF Alive THEN Resume ELSE UNCHANGED reading
  /\ UNCHANGED <<life, state, queue, ping, slot, finishes, terminations,
                 accepted, sent>>

\* The handler enqueue() posts.
RunResume ==
  /\ LoopIdle
  /\ resumes > 0
  /\ resumes' = resumes - 1
  /\ IF Alive /\ state # "Closed" THEN Resume ELSE UNCHANGED reading
  /\ UNCHANGED <<life, state, queue, ping, slot, finishes, terminations,
                 accepted, sent>>

\* The handler the termination slot posts.
RunFinish ==
  /\ LoopIdle
  /\ finishes > 0
  /\ finishes' = finishes - 1
  /\ IF Alive /\ state = "WantToClose" THEN Resume ELSE UNCHANGED reading
  /\ UNCHANGED <<life, state, queue, ping, slot, resumes, terminations,
                 accepted, sent>>

\* Time passes: the wait completes and its handler is queued.
PingExpires ==
  /\ ping = "armed"
  /\ accepted < MaxBytes
  /\ ping' = "expired"
  /\ UNCHANGED <<life, state, queue, slot, resumes, finishes, reading,
                 terminations, accepted, sent>>

\* The handler of start_ping(); a cancelled wait has no effect at all.
RunPing ==
  /\ LoopIdle
  /\ ping = "expired"
  /\ IF Alive
     THEN /\ \E n \in Sizes : Enqueue(n, TRUE)
          /\ ping' = "armed"
     ELSE /\ ping' = "off"
          /\ UNCHANGED <<queue, state, resumes, accepted>>
  /\ UNCHANGED <<life, slot, finishes, reading, terminations, sent>>

-----------------------------------------------------------------------------
(* nghttp2 reads the response body. *)

\* How many bytes the first k strings of q hold.
Bytes(q, k) == MapThenSumSet(LAMBDA i : Size(q[i]), 1..k)

\* Mutant of SendChunk: an emptied queue leaves the state HasEvents.
SendChunkStateKept(len) ==
  \E k \in 0..Len(queue), whole \in 0..len :
    /\ whole = Bytes(queue, k)
    /\ k < Len(queue) => whole + Size(queue[k + 1]) > len
    /\ sent' = IF k = 0 THEN sent ELSE queue[k].to
    /\ queue' = SubSeq(queue, k + 1, Len(queue))
    /\ UNCHANGED state

\* Mutant of SendChunk: the rest of a string that did not fit is dropped.
SendChunkDropsRest(len) ==
  \E k \in 0..Len(queue), whole \in 0..len :
    /\ whole = Bytes(queue, k)
    /\ IF k = Len(queue)
       THEN /\ sent' = IF k = 0 THEN sent ELSE queue[k].to
            /\ queue' = << >>
            /\ state' = "WaitingForEvents"
       ELSE /\ len - whole < Size(queue[k + 1])
            /\ sent' = queue[k + 1].from + len - whole
            /\ queue' = SubSeq(queue, k + 2, Len(queue))
            /\ UNCHANGED state

(***************************************************************************)
(* send_chunk(): copies the first k strings whole; if the buffer ends      *)
(* inside the next one, its unsent rest stays at the front of the queue.   *)
(***************************************************************************)
SendChunk(len) ==
  \E k \in 0..Len(queue), whole \in 0..len :
    /\ whole = Bytes(queue, k)
    /\ IF k = Len(queue)
       THEN /\ sent' = IF k = 0 THEN sent ELSE queue[k].to
            /\ queue' = << >>
            /\ state' = "WaitingForEvents"
       ELSE LET front == queue[k + 1]
                num == len - whole
            IN  /\ num < Size(front)
                /\ sent' = front.from + num
                /\ queue' = <<Substr(front, num)>>
                              \o SubSeq(queue, k + 2, Len(queue))
                /\ UNCHANGED state

\* process(), which nghttp2 calls while the response is neither deferred
\* nor finished.
Process(len) ==
  /\ life = "active"
  /\ reading = "active"
  /\ \/ /\ state = "HasEvents"
        /\ SendChunk(len)
        /\ UNCHANGED <<life, reading>>
     \/ /\ state = "WaitingForEvents"
        /\ reading' = "deferred"
        /\ UNCHANGED <<life, state, queue, sent>>
     \/ /\ state = "WantToClose"
        /\ life' = "eof"
        /\ UNCHANGED <<reading, state, queue, sent>>
  /\ UNCHANGED <<ping, slot, resumes, finishes, terminations, accepted>>

\* on_close(): the client left, the connection broke, or EOF was sent.
OnClose ==
  /\ life \in {"active", "eof"}
  /\ life' = "closed"
  /\ state' = "Closed"
  /\ ping' = IF ping = "armed" THEN "off" ELSE ping
  /\ UNCHANGED <<queue, slot, resumes, finishes, reading, terminations,
                 accepted, sent>>

\* nghttp2 drops the response and with it the last shared_ptr.
Destroy ==
  /\ life = "closed"
  /\ life' = "destroyed"
  /\ ping' = IF ping = "armed" THEN "off" ELSE ping
  /\ UNCHANGED <<state, queue, slot, resumes, finishes, reading,
                 terminations, accepted, sent>>

-----------------------------------------------------------------------------

Init ==
  /\ life = "unborn"
  /\ state = "WaitingForEvents"
  /\ queue = << >>
  /\ ping = "off"
  /\ slot = [t \in Threads |-> "idle"]
  /\ resumes = 0
  /\ finishes = 0
  /\ reading = "active"
  /\ terminations = 0
  /\ accepted = 0
  /\ sent = 0

Loop ==
  \/ Construct
  \/ Activate
  \/ RunResume
  \/ RunFinish
  \/ RunPing
  \/ \E len \in Lens : Process(len)
  \/ OnClose
  \/ Destroy

Emitter(t) ==
  \/ EmitEvent(t)
  \/ EmitTermination(t)
  \/ EventSlot(t)
  \/ TerminationSlot(t)
  \/ SlotAfterDestruction(t)

Next ==
  \/ Loop
  \/ PingExpires
  \/ \E t \in Threads : Emitter(t)

Spec == Init /\ [][Next]_vars

(***************************************************************************)
(* The event loop runs every queued handler, a slot that was picked up     *)
(* runs to its end, nghttp2 keeps calling process() (the client keeps its  *)
(* flow-control window open) and closes a response that sent EOF.  Nobody  *)
(* is obliged to emit anything, and a client need not leave.               *)
(***************************************************************************)
Fairness ==
  /\ WF_vars(Activate)
  /\ WF_vars(RunResume)
  /\ WF_vars(RunFinish)
  /\ WF_vars(\E len \in Lens : Process(len))
  /\ WF_vars(life = "eof" /\ OnClose)
  /\ \A t \in Threads : WF_vars(EventSlot(t) \/ TerminationSlot(t))

FairSpec == Spec /\ Fairness

-----------------------------------------------------------------------------

TypeOK ==
  /\ life \in Lives
  /\ state \in States
  /\ queue \in Seq(String)
  /\ ping \in {"off", "armed", "expired"}
  /\ slot \in [Threads -> {"idle", "event", "terminate"}]
  /\ resumes \in Nat
  /\ finishes \in Nat
  /\ reading \in {"active", "deferred"}
  /\ terminations \in 0..MaxTerminations
  /\ accepted \in Nat
  /\ sent \in Nat

(***************************************************************************)
(* No lost wakeup: whenever nghttp2 was told to wait although the stream   *)
(* has something to tell it (events, or the end of the body), a handler    *)
(* that will call res.resume() is still queued in the event loop.          *)
(***************************************************************************)
NoLostWakeup ==
  reading = "deferred" =>
    /\ state = "HasEvents" => resumes > 0
    /\ state = "WantToClose" => finishes > 0

(***************************************************************************)
(* The state tells whether the queue is empty: process() neither goes to   *)
(* sleep on queued events nor calls send_chunk() with nothing to send.     *)
(***************************************************************************)
StateMatchesQueue ==
  /\ state = "HasEvents" => queue # << >>
  /\ state = "WaitingForEvents" => queue = << >>

(***************************************************************************)
(* The queue holds exactly the accepted bytes the client has not got: the  *)
(* strings follow one another without a gap from the last byte sent to the *)
(* last byte accepted, so partial writes lose, repeat or reorder nothing.  *)
(***************************************************************************)
ExactDelivery ==
  /\ \A i \in 1..Len(queue) : queue[i].from < queue[i].to
  /\ \A i \in 1..Len(queue) - 1 : queue[i].to = queue[i + 1].from
  /\ IF queue = << >> THEN sent = accepted
                      ELSE queue[1].from = sent /\ queue[Len(queue)].to = accepted

(***************************************************************************)
(* The response object is used only while it exists: after on_close() no   *)
(* handler that was already queued resumes it any more.                    *)
(***************************************************************************)
NoResumeAfterClose ==
  [][reading = "deferred" /\ reading' = "active" =>
        life \in {"active", "eof"}]_vars

(***************************************************************************)
(* An accepted event reaches the client unless the stream is terminated or *)
(* closed first: enqueue(), its posted resume() and process() leave no     *)
(* event waiting in the queue for ever.                                    *)
(***************************************************************************)
EventsAreDelivered ==
  \A b \in 1..MaxBytes :
    accepted >= b ~> sent >= b \/ state \in {"WantToClose", "Closed"}

(***************************************************************************)
(* A terminated stream is closed: process() gets to return EOF and         *)
(* on_close() runs, which is what the shutdown of the server waits for.    *)
(***************************************************************************)
TerminationCloses ==
  state = "WantToClose" ~> state = "Closed"

(***************************************************************************)
(* The stream implements the ordered byte channel of EventDelivery.        *)
(***************************************************************************)
Delivery ==
  INSTANCE EventDelivery
    WITH published <- accepted,
         delivered <- sent,
         phase <- CASE state = "WantToClose" -> "ending"
                    [] state = "Closed" -> "over"
                    [] OTHER -> "open"

ImplementsDelivery == Delivery!Spec

(***************************************************************************)
(* "we are late to the party, res is already gone" (EventStream.cpp:52):   *)
(* a slot that is still running when the stream closes finds the stream in *)
(* state Closed.  That needs the stream itself to be alive.                *)
(***************************************************************************)
LateSlotFindsStream ==
  ~Alive => \A t \in Threads : slot[t] = "idle"
=============================================================================
