------------------------- MODULE EventStreamProofs -------------------------
(***************************************************************************)
(* Proofs about EventStream, for every set of threads, all event and       *)
(* buffer sizes and every bound.                                           *)
(***************************************************************************)
EXTENDS EventStream, TLAPS

\* Zenon does the first-order leaves; a leaf that reasons about numbers,
\* functions, records or sequences cites SMT.
USE Zenon

(***************************************************************************)
(* What NoLostWakeup needs to be inductive: nghttp2 is told to wait only   *)
(* after activate(), when weak_from_this() is set and every posted handler *)
(* counts; and only a closed stream is ever destroyed, so a queued handler *)
(* that finds the stream gone had nothing left to wake up.                 *)
(***************************************************************************)
LifeInv ==
  /\ life \in {"unborn", "constructed"} => reading = "active"
  /\ life \in {"closed", "destroyed"} <=> state = "Closed"

\* Positions grow along the queue: what is sent never overtakes what was
\* accepted.
QueueOrdered ==
  \A i, j \in 1..Len(queue) : i < j => queue[i].to <= queue[j].from

IInv ==
  /\ TypeOK
  /\ LifeInv
  /\ NoLostWakeup
  /\ StateMatchesQueue
  /\ ExactDelivery
  /\ QueueOrdered

-----------------------------------------------------------------------------
(* enqueue() *)

\* What enqueue()'s push_back does to the length and the elements of a queue.
LEMMA AppendString ==
  ASSUME NEW q \in Seq(String), NEW x \in String
  PROVE  /\ Append(q, x) \in Seq(String)
         /\ Append(q, x) # << >>
         /\ Len(Append(q, x)) = Len(q) + 1
         /\ \A i \in 1..Len(q) : Append(q, x)[i] = q[i]
         /\ Append(q, x)[Len(q) + 1] = x
  BY SMT

\* enqueue() keeps the types and the queue contiguous.
LEMMA EnqueueKeepsQueue ==
  ASSUME TypeOK, StateMatchesQueue, ExactDelivery, QueueOrdered,
         NEW n \in Sizes, NEW weak \in BOOLEAN, Enqueue(n, weak),
         sent' = sent
  PROVE  /\ queue' \in Seq(String) /\ accepted' \in Nat /\ resumes' \in Nat
         /\ state' \in States
         /\ StateMatchesQueue'
         /\ ExactDelivery'
         /\ QueueOrdered'
<1>1. CASE state \in {"Closed", "WantToClose"}
  BY <1>1
     DEF Enqueue, TypeOK, StateMatchesQueue, ExactDelivery, QueueOrdered
<1>2. CASE state \notin {"Closed", "WantToClose"}
  <2> DEFINE x == [from |-> accepted, to |-> accepted + n]
  <2>1. n \in Nat /\ n > 0 /\ accepted \in Nat /\ queue \in Seq(String)
    BY SMT, StreamAssumption DEF TypeOK
  <2>2. x \in String /\ x.from = accepted /\ x.to = accepted + n
    BY SMT, <2>1 DEF String
  <2>3. queue' = Append(queue, x) /\ accepted' = accepted + n
        /\ state' = "HasEvents" /\ resumes' \in Nat
    BY SMT, <1>2 DEF Enqueue, TypeOK
  <2> HIDE DEF x
  <2>4. /\ queue' \in Seq(String) /\ queue' # << >> /\ Len(queue') = Len(queue) + 1
        /\ \A i \in 1..Len(queue) : queue'[i] = queue[i]
        /\ queue'[Len(queue) + 1] = x
    BY <2>1, <2>2, <2>3, AppendString
  <2>5. Len(queue) \in Nat /\ (queue = << >> <=> Len(queue) = 0)
    BY SMT, <2>1
  <2>6. ExactDelivery'
    <3>1. \A i \in 1..Len(queue') : queue'[i].from < queue'[i].to
      <4>1. \A i \in 1..Len(queue) : queue[i].from < queue[i].to
        BY DEF ExactDelivery
      <4>2. x.from < x.to
        BY SMT, <2>1, <2>2
      <4> QED
        BY ONLY SMT, <2>4, <2>5, <4>1, <4>2
    <3>2. \A i \in 1..Len(queue') - 1 : queue'[i].to = queue'[i + 1].from
      BY SMT, <2>2, <2>4, <2>5 DEF ExactDelivery
    <3>3. queue'[1].from = sent' /\ queue'[Len(queue')].to = accepted'
      BY SMT, <2>2, <2>3, <2>4, <2>5 DEF ExactDelivery
    <3>4. QED
      BY <3>1, <3>2, <3>3, <2>4 DEF ExactDelivery
  <2>7. QueueOrdered'
    <3>1. ASSUME NEW i \in 1..Len(queue)
          PROVE  queue[i].to <= accepted
      <4>1. /\ queue[Len(queue)].to = accepted
            /\ queue[Len(queue)].from < queue[Len(queue)].to
        BY SMT, <2>5 DEF ExactDelivery
      <4>2. i = Len(queue) \/ queue[i].to <= queue[Len(queue)].from
        BY SMT, <2>5 DEF QueueOrdered
      <4>3. queue[i] \in String /\ queue[Len(queue)] \in String
        BY SMT, <2>1, <2>5
      <4>4. QED
        BY SMT, <4>1, <4>2, <4>3, <2>1 DEF String
    <3>2. QED
      BY SMT, <3>1, <2>2, <2>4, <2>5 DEF QueueOrdered
  <2>8. QED
    BY SMT, <2>1, <2>3, <2>4, <2>6, <2>7 DEF StateMatchesQueue, States
<1>3. QED
  BY <1>1, <1>2

-----------------------------------------------------------------------------
(* send_chunk() *)

\* A queue whose first k strings are gone and whose next one is cut.
Cut(q, k, x) == <<x>> \o SubSeq(q, k + 2, Len(q))

\* send_chunk() leaves a queue of the right type with these elements.
LEMMA CutQueue ==
  ASSUME NEW q \in Seq(String), NEW k \in 0..Len(q) - 1, NEW x \in String
  PROVE  LET r == Cut(q, k, x)
         IN
         /\ r \in Seq(String)
         /\ r # << >>
         /\ Len(r) = Len(q) - k
         /\ r[1] = x
         /\ \A i \in 2..Len(r) : r[i] = q[k + i]
<1> DEFINE r == Cut(q, k, x)
           tl == SubSeq(q, k + 2, Len(q))
<1>1. Len(q) \in Nat /\ k \in Nat /\ k < Len(q)
  BY SMT
<1>2. /\ tl \in Seq(String)
      /\ Len(tl) = Len(q) - k - 1
      /\ \A i \in 1..Len(tl) : tl[i] = q[k + 1 + i]
  BY SMT, <1>1
<1> HIDE DEF tl
<1>3. /\ r = <<x>> \o tl
      /\ <<x>> \in Seq(String)
      /\ Len(<<x>>) = 1
      /\ <<x>>[1] = x
  BY SMT DEF tl, Cut
<1> HIDE DEF r
<1>4. /\ r \in Seq(String)
      /\ Len(r) = Len(tl) + 1
      /\ r[1] = x
      /\ \A i \in 2..Len(r) : r[i] = tl[i - 1]
  BY SMT, <1>2, <1>3
<1>5. \A i \in 2..Len(r) : i - 1 \in 1..Len(tl)
  BY SMT, <1>1, <1>2, <1>4
<1>6. r # << >>
  BY SMT, <1>1, <1>2, <1>4
<1>7. \A i \in 2..Len(r) : r[i] = q[k + i]
  <2>1. TAKE i \in 2..Len(r)
  <2>2. r[i] = tl[i - 1] /\ i - 1 \in 1..Len(tl)
    BY <1>4, <1>5
  <2>3. tl[i - 1] = q[k + 1 + (i - 1)]
    BY <2>2, <1>2
  <2>4. k + 1 + (i - 1) = k + i
    BY SMT, <1>1
  <2>5. QED
    BY <2>2, <2>3, <2>4
<1>8. QED
  BY SMT, <1>1, <1>2, <1>4, <1>6, <1>7 DEF r

\* send_chunk() keeps the types, matches state and queue again, and leaves
\* in the queue exactly what follows the last byte it copied.
LEMMA SendChunkKeepsQueue ==
  ASSUME TypeOK, StateMatchesQueue, ExactDelivery, QueueOrdered,
         state = "HasEvents",
         NEW len \in Lens, SendChunk(len), accepted' = accepted
  PROVE  /\ queue' \in Seq(String) /\ sent' \in Nat
         /\ state' \in {"HasEvents", "WaitingForEvents"}
         /\ StateMatchesQueue'
         /\ ExactDelivery'
         /\ QueueOrdered'
         /\ sent <= sent' /\ sent' <= accepted
<1>1. len \in Nat /\ accepted \in Nat /\ sent \in Nat /\ queue \in Seq(String)
  BY StreamAssumption DEF TypeOK
<1>2. Len(queue) \in Nat /\ Len(queue) > 0
  BY SMT, <1>1 DEF StateMatchesQueue
<1>3. /\ Len(queue) \in Nat /\ Len(queue) > 0
      /\ \A i \in 1..Len(queue) : /\ queue[i] \in String
                                  /\ queue[i].from \in Nat
                                  /\ queue[i].to \in Nat
                                  /\ queue[i].from < queue[i].to
  <2>1. SUFFICES ASSUME NEW i \in 1..Len(queue)
                 PROVE  /\ queue[i] \in String
                        /\ queue[i].from \in Nat
                        /\ queue[i].to \in Nat
                        /\ queue[i].from < queue[i].to
    BY <1>2
  <2>2. queue[i] \in String
    BY SMT, <1>1
  <2>3. QED
    BY <2>2 DEF String, ExactDelivery
<1>4. /\ queue[1].from = sent
      /\ queue[Len(queue)].to = accepted
      /\ \A i \in 1..Len(queue) - 1 : queue[i].to = queue[i + 1].from
  BY SMT, <1>3 DEF ExactDelivery
<1>5. PICK k \in 0..Len(queue), whole \in 0..len :
        IF k = Len(queue)
        THEN /\ sent' = IF k = 0 THEN sent ELSE queue[k].to
             /\ queue' = << >>
             /\ state' = "WaitingForEvents"
        ELSE /\ len - whole < Size(queue[k + 1])
             /\ sent' = queue[k + 1].from + (len - whole)
             /\ queue' = <<Substr(queue[k + 1], len - whole)>>
                           \o SubSeq(queue, k + 2, Len(queue))
             /\ state' = state
  BY DEF SendChunk
<1>6. ASSUME NEW i \in 1..Len(queue)
      PROVE  queue[i].to <= accepted /\ sent <= queue[i].from
  <2>1. 1 \in 1..Len(queue) /\ Len(queue) \in 1..Len(queue)
    BY SMT, <1>3
  <2>2. i = Len(queue) \/ queue[i].to <= queue[Len(queue)].from
    BY SMT, <2>1, <1>3 DEF QueueOrdered
  <2>3. i = 1 \/ queue[1].to <= queue[i].from
    BY SMT, <2>1, <1>3 DEF QueueOrdered
  <2>4. /\ queue[1].from = sent /\ queue[Len(queue)].to = accepted
        /\ queue[1].to \in Nat /\ queue[Len(queue)].from \in Nat
        /\ queue[i].from \in Nat /\ queue[i].to \in Nat
        /\ queue[1].from < queue[1].to
        /\ queue[Len(queue)].from < queue[Len(queue)].to
    BY <2>1, <1>3, <1>4
  <2>5. queue[i].to <= accepted
    BY SMT, <2>2, <2>4, <1>1
  <2>6. sent <= queue[i].from
    BY SMT, <2>3, <2>4, <1>1
  <2>7. QED
    BY <2>5, <2>6
<1>7. CASE k = Len(queue)
  <2>1. /\ sent' = queue[Len(queue)].to /\ queue' = << >>
        /\ state' = "WaitingForEvents"
    BY SMT, <1>3, <1>5, <1>7
  <2>2. sent <= accepted
    BY SMT, <1>6, <1>1, <1>3, <1>4
  <2>3. QED
    BY SMT, <2>1, <2>2, <1>1, <1>4
       DEF StateMatchesQueue, ExactDelivery, QueueOrdered
<1>8. CASE k # Len(queue)
  <2> DEFINE num == len - whole
             x == Substr(queue[k + 1], num)
  <2>1. k \in 0..Len(queue) - 1 /\ k + 1 \in 1..Len(queue) /\ num \in Nat
    BY SMT, <1>1, <1>3, <1>8
  <2>2. /\ num < queue[k + 1].to - queue[k + 1].from
        /\ sent' = queue[k + 1].from + num
        /\ queue' = Cut(queue, k, x)
        /\ state' = "HasEvents"
    BY <1>5, <1>8 DEF Size, Cut
  <2>3. /\ x \in String
        /\ x.from = queue[k + 1].from + num
        /\ x.to = queue[k + 1].to
    BY SMT, <2>1, <1>3 DEF Substr, String
  <2> HIDE DEF x, num
  <2>4. /\ queue' \in Seq(String)
        /\ queue' # << >>
        /\ Len(queue') = Len(queue) - k
        /\ queue'[1] = x
        /\ \A i \in 2..Len(queue') : queue'[i] = queue[k + i]
    BY <1>1, <2>1, <2>2, <2>3, CutQueue
  <2>5. sent' \in Nat /\ x.from < x.to /\ x.from = sent'
    BY SMTT(30), <1>3, <2>1, <2>2, <2>3
  <2>6. ASSUME NEW i \in 1..Len(queue')
        PROVE  /\ k + i \in 1..Len(queue)
               /\ queue'[i].to = queue[k + i].to
               /\ queue'[i].from < queue'[i].to
               /\ i # 1 => queue'[i] = queue[k + i]
    <3>1. k + i \in 1..Len(queue)
      BY SMT, <1>3, <2>1, <2>4
    <3>2. CASE i = 1
      <4>1. queue'[i] = x /\ k + i = k + 1
        BY <3>2, <2>4
      <4>2. QED
        BY <4>1, <3>1, <3>2, <2>3, <2>5
    <3>3. CASE i # 1
      <4>1. i \in 2..Len(queue')
        BY SMT, <3>3, <2>1, <2>4, <1>3
      <4>2. queue'[i] = queue[k + i]
        BY <4>1, <2>4
      <4>3. QED
        BY <4>2, <3>1, <1>3
    <3>4. QED
      BY <3>2, <3>3
  <2>7. ASSUME NEW i \in 1..Len(queue') - 1
        PROVE  queue'[i].to = queue'[i + 1].from
    <3>1. /\ i \in 1..Len(queue') /\ i + 1 \in 1..Len(queue') /\ i + 1 # 1
          /\ k + i \in 1..Len(queue) - 1
          /\ k + (i + 1) = (k + i) + 1
      BY SMT, <1>3, <2>1, <2>4
    <3>2. queue'[i].to = queue[k + i].to
      BY <3>1, <2>6
    <3>3. queue'[i + 1] = queue[k + (i + 1)]
      BY <3>1, <2>6
    <3>4. queue[k + i].to = queue[(k + i) + 1].from
      BY <3>1, <1>4
    <3>5. QED
      BY <3>1, <3>2, <3>3, <3>4
  <2>8. queue'[Len(queue')].to = accepted
    <3>1. Len(queue') \in 1..Len(queue') /\ k + Len(queue') = Len(queue)
      BY SMT, <1>3, <2>1, <2>4
    <3>2. queue'[Len(queue')].to = queue[k + Len(queue')].to
      BY <3>1, <2>6
    <3>3. QED
      BY <3>1, <3>2, <1>4
  <2>9. sent <= sent' /\ sent' <= accepted
    <3>1. queue[k + 1].to <= accepted /\ sent <= queue[k + 1].from
      BY <1>6, <2>1
    <3>2. queue[k + 1].to \in Nat /\ queue[k + 1].from \in Nat
      BY <1>3, <2>1
    <3>3. QED
      BY SMT, <3>1, <3>2, <1>1, <2>1, <2>2
  <2>10. QueueOrdered'
    <3>1. SUFFICES ASSUME NEW i \in 1..Len(queue'), NEW j \in 1..Len(queue'),
                          i < j
                   PROVE  queue'[i].to <= queue'[j].from
      BY DEF QueueOrdered
    <3>2. /\ k + i \in 1..Len(queue) /\ k + j \in 1..Len(queue)
          /\ k + i < k + j /\ j # 1
      BY SMT, <3>1, <2>6, <2>1
    <3>3. queue[k + i].to <= queue[k + j].from
      BY <3>2 DEF QueueOrdered
    <3>4. queue'[i].to = queue[k + i].to /\ queue'[j] = queue[k + j]
      BY <3>2, <2>6
    <3>5. QED
      BY <3>3, <3>4
  <2>11. ExactDelivery'
    BY <2>4, <2>5, <2>6, <2>7, <2>8 DEF ExactDelivery
  <2>12. QED
    BY <2>2, <2>4, <2>5, <2>9, <2>10, <2>11 DEF StateMatchesQueue
<1>9. QED
  BY <1>7, <1>8

-----------------------------------------------------------------------------
(* The inductive invariant *)

\* The constructed object satisfies the inductive invariant.
LEMMA InitIInv == Init => IInv
  BY SMT, StreamAssumption
     DEF Init, IInv, TypeOK, LifeInv, NoLostWakeup, StateMatchesQueue,
         ExactDelivery, QueueOrdered, Lives, States

\* Every handler, slot and read keeps the inductive invariant.
LEMMA NextIInv == IInv /\ [Next]_vars => IInv'
<1> SUFFICES ASSUME IInv, [Next]_vars PROVE IInv'
  OBVIOUS
<1> USE DEF IInv, LifeInv, NoLostWakeup
<1>1. CASE Construct
  <2>1. \/ \E n \in Sizes : Enqueue(n, FALSE)
        \/ UNCHANGED <<queue, state, resumes, accepted>>
    BY <1>1 DEF Construct
  <2>2. /\ queue' \in Seq(String) /\ accepted' \in Nat /\ resumes' \in Nat
        /\ state' \in States
        /\ StateMatchesQueue' /\ ExactDelivery' /\ QueueOrdered'
    BY <1>1, <2>1, EnqueueKeepsQueue
       DEF Construct, TypeOK, StateMatchesQueue, ExactDelivery, QueueOrdered
  <2>3. state' # "Closed"
    BY <1>1, <2>1 DEF Construct, Enqueue
  <2>4. QED
    BY <1>1, <2>2, <2>3 DEF Construct, TypeOK, Lives
<1>2. CASE Activate
  BY <1>2 DEF Activate, TypeOK, Lives, StateMatchesQueue, ExactDelivery,
              QueueOrdered
<1>3. CASE RunResume
  BY SMT, <1>3 DEF RunResume, Resume, LoopIdle, Alive, TypeOK, Lives,
              StateMatchesQueue, ExactDelivery, QueueOrdered
<1>4. CASE RunFinish
  BY SMT, <1>4 DEF RunFinish, Resume, LoopIdle, Alive, TypeOK, Lives,
              StateMatchesQueue, ExactDelivery, QueueOrdered
<1>5. CASE RunPing
  <2>1. CASE Alive
    <3>1. PICK n \in Sizes : Enqueue(n, TRUE)
      BY <1>5, <2>1 DEF RunPing
    <3>2. /\ queue' \in Seq(String) /\ accepted' \in Nat /\ resumes' \in Nat
          /\ state' \in States
          /\ StateMatchesQueue' /\ ExactDelivery' /\ QueueOrdered'
      BY <1>5, <3>1, EnqueueKeepsQueue DEF RunPing
    <3>3. /\ state' = "Closed" <=> state = "Closed"
          /\ state' = "HasEvents" => resumes' > 0
          /\ state' = "WantToClose" => state = "WantToClose"
      BY SMT, <3>1 DEF Enqueue, TypeOK
    <3>4. QED
      BY <1>5, <2>1, <3>2, <3>3 DEF RunPing, TypeOK
  <2>2. CASE ~Alive
    BY <1>5, <2>2 DEF RunPing, TypeOK, StateMatchesQueue, ExactDelivery,
                      QueueOrdered
  <2>3. QED
    BY <2>1, <2>2
<1>6. ASSUME NEW len \in Lens, Process(len)
      PROVE  IInv'
  <2>1. CASE state = "HasEvents"
    <3>1. SendChunk(len) /\ accepted' = accepted
      BY <1>6, <2>1 DEF Process
    <3>2. /\ queue' \in Seq(String) /\ sent' \in Nat
          /\ state' \in {"HasEvents", "WaitingForEvents"}
          /\ StateMatchesQueue' /\ ExactDelivery' /\ QueueOrdered'
      BY <2>1, <3>1, SendChunkKeepsQueue
    <3>3. QED
      BY <1>6, <2>1, <3>2 DEF Process, TypeOK, States
  <2>2. CASE state # "HasEvents"
    BY <1>6, <2>2 DEF Process, TypeOK, Lives, StateMatchesQueue,
                      ExactDelivery, QueueOrdered
  <2>3. QED
    BY <2>1, <2>2
<1>7. CASE OnClose
  BY <1>7 DEF OnClose, TypeOK, Lives, States, StateMatchesQueue,
              ExactDelivery, QueueOrdered
<1>8. CASE Destroy
  BY <1>8 DEF Destroy, TypeOK, Lives, StateMatchesQueue, ExactDelivery,
              QueueOrdered
<1>9. CASE PingExpires
  BY <1>9 DEF PingExpires, TypeOK, StateMatchesQueue, ExactDelivery,
              QueueOrdered
<1>10. ASSUME NEW t \in Threads, EmitEvent(t)
       PROVE  IInv'
  BY <1>10 DEF EmitEvent, TypeOK, StateMatchesQueue, ExactDelivery,
               QueueOrdered
<1>11. ASSUME NEW t \in Threads, EmitTermination(t)
       PROVE  IInv'
  BY SMT, <1>11, StreamAssumption
     DEF EmitTermination, TypeOK, StateMatchesQueue, ExactDelivery,
         QueueOrdered
<1>12. ASSUME NEW t \in Threads, EventSlot(t)
       PROVE  IInv'
  <2>1. PICK n \in Sizes, weak \in WeakIsSet : Enqueue(n, weak)
    BY <1>12 DEF EventSlot
  <2>2. weak \in BOOLEAN /\ (weak \/ life = "constructed")
    BY DEF WeakIsSet
  <2>3. /\ queue' \in Seq(String) /\ accepted' \in Nat /\ resumes' \in Nat
        /\ state' \in States
        /\ StateMatchesQueue' /\ ExactDelivery' /\ QueueOrdered'
    BY <1>12, <2>1, <2>2, EnqueueKeepsQueue DEF EventSlot
  <2>4. /\ state' = "Closed" <=> state = "Closed"
        /\ state' = "HasEvents" /\ weak => resumes' > 0
        /\ state' = "WantToClose" => state = "WantToClose"
    BY SMT, <2>1, <2>2 DEF Enqueue, TypeOK
  <2>5. QED
    BY <1>12, <2>2, <2>3, <2>4 DEF EventSlot, TypeOK
<1>13. ASSUME NEW t \in Threads, TerminationSlot(t)
       PROVE  IInv'
  <2>1. CASE state = "Closed"
    BY <1>13, <2>1 DEF TerminationSlot, TypeOK, StateMatchesQueue,
                       ExactDelivery, QueueOrdered
  <2>2. CASE state # "Closed"
    <3>1. PICK weak \in WeakIsSet :
            finishes' = IF weak THEN finishes + 1 ELSE finishes
      BY <1>13, <2>2 DEF TerminationSlot
    <3>2. weak = TRUE \/ life = "constructed"
      BY DEF WeakIsSet
    <3>3. finishes' = finishes + 1 \/ finishes' = finishes
      BY <3>1
    <3>4. finishes' \in Nat
      BY SMT, <3>3 DEF TypeOK
    <3>5. finishes' > 0 \/ life = "constructed"
      BY SMT, <3>1, <3>2 DEF TypeOK
    <3>6. QED
      BY <1>13, <2>2, <3>4, <3>5
         DEF TerminationSlot, TypeOK, States, StateMatchesQueue,
             ExactDelivery, QueueOrdered
  <2>3. QED
    BY <2>1, <2>2
<1>14. ASSUME NEW t \in Threads, SlotAfterDestruction(t)
       PROVE  IInv'
  BY <1>14 DEF SlotAfterDestruction, TypeOK, StateMatchesQueue,
               ExactDelivery, QueueOrdered
<1>15. CASE UNCHANGED vars
  BY <1>15 DEF vars, TypeOK, StateMatchesQueue, ExactDelivery, QueueOrdered
<1>16. QED
  BY <1>1, <1>2, <1>3, <1>4, <1>5, <1>6, <1>7, <1>8, <1>9, <1>10, <1>11,
     <1>12, <1>13, <1>14, <1>15 DEF Next, Loop, Emitter

(***************************************************************************)
(* IInv, the conjunction of the properties below and of what makes them    *)
(* inductive, holds in every reachable state of EventStream.               *)
(***************************************************************************)
THEOREM Invariance == Spec => []IInv
  BY InitIInv, NextIInv, PTL DEF Spec

(***************************************************************************)
(* Every variable of the stream keeps its type, whatever the threads do.   *)
(***************************************************************************)
THEOREM TypeCorrect == Spec => []TypeOK
  BY Invariance, PTL DEF IInv

(***************************************************************************)
(* process() never sleeps through an event or a termination: if nghttp2    *)
(* waits although there is something to read, resume() is still to come.   *)
(***************************************************************************)
THEOREM WakeupsAreNotLost == Spec => []NoLostWakeup
  BY Invariance, PTL DEF IInv

(***************************************************************************)
(* enqueue() and send_chunk(), with whatever partial writes, lose, repeat  *)
(* and reorder no byte.                                                    *)
(***************************************************************************)
THEOREM DeliveryIsExact == Spec => []ExactDelivery
  BY Invariance, PTL DEF IInv

(***************************************************************************)
(* The state that process() switches on always matches the queue.          *)
(***************************************************************************)
THEOREM StateTellsQueue == Spec => []StateMatchesQueue
  BY Invariance, PTL DEF IInv

(***************************************************************************)
(* No handler that was queued before on_close() resumes the response after *)
(* it: both the weak_ptr and the state are checked first.                  *)
(***************************************************************************)
THEOREM ClosedStaysClosed == Spec => NoResumeAfterClose
<1>1. IInv /\ [Next]_vars =>
        [reading = "deferred" /\ reading' = "active" =>
           life \in {"active", "eof"}]_vars
  <2> SUFFICES ASSUME IInv, Next, reading = "deferred", reading' = "active"
               PROVE  life \in {"active", "eof"}
    BY DEF vars
  <2>1. CASE RunResume
    BY <2>1 DEF RunResume, LoopIdle, Alive, IInv, LifeInv, TypeOK, Lives
  <2>2. CASE RunFinish
    BY <2>2 DEF RunFinish, LoopIdle, Alive, IInv, LifeInv, TypeOK, Lives
  <2>3. ~RunResume /\ ~RunFinish => FALSE
    BY DEF Next, Loop, Emitter, Construct, Activate, RunPing, Process,
           OnClose, Destroy, PingExpires, EmitEvent, EmitTermination,
           EventSlot, TerminationSlot, SlotAfterDestruction
  <2>4. QED
    BY <2>1, <2>2, <2>3
<1>2. QED
  BY <1>1, Invariance, PTL DEF Spec, NoResumeAfterClose

-----------------------------------------------------------------------------
(* Refinement *)

(***************************************************************************)
(* The stream implements the ordered byte channel: its threads, posted     *)
(* handlers, timers and partial reads are invisible to the publisher and   *)
(* to the client.                                                          *)
(***************************************************************************)
THEOREM Refinement == Spec => ImplementsDelivery
<1>1. Init => Delivery!Init
  BY DEF Init, Delivery!Init
<1>2. IInv /\ [Next]_vars => [Delivery!Next]_(Delivery!vars)
  <2> SUFFICES ASSUME IInv, [Next]_vars
               PROVE  [Delivery!Next]_(Delivery!vars)
    OBVIOUS
  <2> USE DEF Delivery!vars, Delivery!Next
  <2>1. ASSUME NEW n \in Sizes, NEW weak \in BOOLEAN, Enqueue(n, weak),
               sent' = sent
        PROVE  [Delivery!Next]_(Delivery!vars)
    <3>1. n \in Nat /\ n > 0 /\ accepted \in Nat
      BY SMT, StreamAssumption DEF IInv, TypeOK
    <3>2. QED
      BY SMT, <2>1, <3>1 DEF Enqueue, Delivery!Publish, IInv, TypeOK, States
  <2>2. ASSUME NEW len \in Lens, Process(len)
        PROVE  [Delivery!Next]_(Delivery!vars)
    <3>1. CASE state = "HasEvents"
      <4>1. /\ sent' \in Nat /\ sent <= sent' /\ sent' <= accepted
            /\ state' \in {"HasEvents", "WaitingForEvents"}
        BY <2>2, <3>1, SendChunkKeepsQueue DEF Process, IInv
      <4>2. sent \in Nat /\ accepted \in Nat /\ accepted' = accepted
        BY <2>2 DEF Process, IInv, TypeOK
      <4>3. CASE sent' = sent
        BY <3>1, <4>1, <4>2, <4>3
      <4>4. CASE sent' # sent
        <5>1. sent < sent'
          BY SMT, <4>1, <4>2, <4>4
        <5>2. Delivery!Deliver
          BY <3>1, <4>1, <4>2, <5>1 DEF Delivery!Deliver
        <5>3. QED
          BY <5>2
      <4>5. QED
        BY <4>3, <4>4
    <3>2. CASE state # "HasEvents"
      BY <2>2, <3>2 DEF Process
    <3>3. QED
      BY <3>1, <3>2
  <2>3. CASE OnClose
    BY <2>3 DEF OnClose, Delivery!Close, IInv, LifeInv, TypeOK, States
  <2>4. ASSUME NEW t \in Threads, TerminationSlot(t)
        PROVE  [Delivery!Next]_(Delivery!vars)
    BY <2>4 DEF TerminationSlot, Delivery!End, IInv, TypeOK, States
  <2>5. CASE Construct
    BY <2>5, <2>1 DEF Construct
  <2>6. CASE RunPing
    BY <2>6, <2>1 DEF RunPing
  <2>7. ASSUME NEW t \in Threads, EventSlot(t)
        PROVE  [Delivery!Next]_(Delivery!vars)
    <3>1. PICK n \in Sizes, weak \in WeakIsSet : Enqueue(n, weak)
      BY <2>7 DEF EventSlot
    <3>2. weak \in BOOLEAN
      BY DEF WeakIsSet
    <3>3. QED
      BY <2>1, <2>7, <3>1, <3>2 DEF EventSlot
  <2>8. CASE UNCHANGED <<accepted, sent, state>>
    BY <2>8
  <2>9. QED
    BY <2>2, <2>3, <2>4, <2>5, <2>6, <2>7, <2>8
       DEF Next, Loop, Emitter, vars, Activate, RunResume, RunFinish, Destroy,
           PingExpires, EmitEvent, EmitTermination, SlotAfterDestruction
<1>3. QED
  BY <1>1, <1>2, Invariance, PTL DEF Spec, ImplementsDelivery, Delivery!Spec
=============================================================================
