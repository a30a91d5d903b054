------------------------ MODULE StreamSourcesProofs ------------------------
(***************************************************************************)
(* Proofs about StreamSources, for any number of telemetry clients,        *)
(* versions of the data, modules and notifications.                        *)
(*                                                                         *)
(* The two components share no variable but load, which never changes: the *)
(* inductive invariant is a part for each, and a step of one leaves the    *)
(* part of the other alone.                                                *)
(***************************************************************************)
EXTENDS StreamSources, TLAPS

\* Zenon does the first-order leaves; a leaf that reasons about numbers,
\* functions, records or sequences cites SMT.
USE Zenon

-----------------------------------------------------------------------------
(* The notification stream. *)

Types == {"Replay", "Realtime", "ReplayComplete", "Terminated"}

\* The modules of the loop's turns so far that have notifications.
Heard ==
  {m \in Modules : /\ canBeSubscribed(m) /\ m \in Notifying
                   /\ \E i \in 1 .. todo - 1 : ModuleList[i] = m}

(***************************************************************************)
(* The life of a stream.  The signal exists from the constructor until the *)
(* members go; a subscription, and so a running notifCb, exists only from  *)
(* the loop of activate() until m_notifSubs goes, which is inside of that. *)
(***************************************************************************)
LifeInv ==
  /\ NotificationTypeOK
  /\ running # Idle => running \in [type : Types, of : Modules \X (0 .. MaxNotifications)]
  /\ nstage \in {"subscribing", "open", "unwinding", "released"} => signal = TRUE
  /\ nstage \in {"idle", "released", "gone"} => subs = {} /\ running = Idle
  /\ nstage \in {"subscribing", "open"} => subs = Heard
  /\ nstage = "idle" => todo = 1 /\ accepted = <<>>
  /\ nstage = "open" => todo = Len(ModuleList) + 1

-----------------------------------------------------------------------------
(* The order of the notifications. *)

\* notifCb runs for a notification that it will forward.
Forwarding == running # Idle /\ Forwarded(running.type)

\* The next notification of module m that the client has to get.
Due(m) == IF Forwarding /\ running.of[1] = m THEN next[m] - 1 ELSE next[m]

HasUpToDue(m) ==
  /\ first[m] <= Due(m)
  /\ \A k \in first[m] .. Due(m) - 1 :
       \E i \in 1 .. Len(accepted) : accepted[i] = <<m, k>>
  /\ \A i \in 1 .. Len(accepted) :
       accepted[i][1] = m => accepted[i][2] < Due(m)

(***************************************************************************)
(* As long as the stream accepts events, the client has exactly the        *)
(* notifications of m from first[m] up to the one that is due, and the one *)
(* that notifCb runs for is the due one.  A module that is not subscribed  *)
(* yet has sent nothing, so subscribing it may set where it starts.        *)
(***************************************************************************)
OrderInv ==
  /\ NotificationsInOrder
  /\ nstage \in {"subscribing", "open"} =>
       /\ \A i \in 1 .. Len(accepted) : accepted[i][1] \in subs
       /\ running # Idle => running.of[1] \in subs
  /\ Accepts =>
       /\ Forwarding => running.of[2] = next[running.of[1]] - 1
       /\ \A m \in subs : HasUpToDue(m)

\* Before the request for the stream nothing is subscribed or accepted.
LEMMA OrderInitially == Init => OrderInv
BY SMT DEF Init, NotificationInit, OrderInv, NotificationsInOrder, Accepts

\* A step that touches neither the feed nor what was accepted, and does not
\* start a stream.
LEMMA OrderUntouched ==
  ASSUME OrderInv, UNCHANGED <<subs, first, next, running, accepted>>,
         nstage' \in {"subscribing", "open"} => nstage \in {"subscribing", "open"},
         ~wantToClose' => ~wantToClose
  PROVE  OrderInv'
<1>1. Forwarding' = Forwarding /\ \A m : HasUpToDue(m)' = HasUpToDue(m)
  BY ZenonT(30) DEF Forwarding, Due, HasUpToDue
<1>2. NotificationsInOrder'
  BY DEF OrderInv, NotificationsInOrder
<1>3. Accepts' => Accepts
  BY DEF Accepts
<1> QED
  BY <1>1, <1>2, <1>3 DEF OrderInv

\* The constructor finds nothing subscribed, the destructor leaves nothing.
LEMMA EndsKeepOrder ==
  ASSUME LifeInv, OrderInv, Construct \/ DestroySubscriptions \/ DestroyStream
  PROVE  OrderInv'
<1>1. CASE Construct
  <2>1. accepted' = <<>> /\ subs' = {} /\ running' = Idle
    BY <1>1 DEF Construct, LifeInv, feed
  <2>2. NotificationsInOrder'
    BY ONLY <2>1 DEF NotificationsInOrder
  <2>3. ~Forwarding'
    BY <2>1 DEF Forwarding
  <2> QED
    BY ONLY <2>1, <2>2, <2>3 DEF OrderInv
<1>2. CASE DestroySubscriptions
  <2>1. nstage' = "released" /\ UNCHANGED <<accepted, first>>
    BY <1>2 DEF DestroySubscriptions, feed
  <2>2. ~Accepts'
    BY <2>1 DEF Accepts
  <2>3. NotificationsInOrder'
    BY <2>1 DEF OrderInv, NotificationsInOrder
  <2> QED
    BY <2>1, <2>2, <2>3 DEF OrderInv
<1>3. CASE DestroyStream
  <2>1. nstage' = "gone" /\ accepted' = <<>>
    BY <1>3 DEF DestroyStream
  <2>2. ~Accepts' /\ NotificationsInOrder'
    BY SMT, <2>1 DEF NotificationsInOrder, Accepts
  <2> QED
    BY <2>1, <2>2 DEF OrderInv
<1> QED
  BY <1>1, <1>2, <1>3

\* One turn of the loop: the module is not among the subscribed ones, so it
\* has sent nothing yet.
LEMMA SubscribeKeepsOrder ==
  ASSUME LifeInv, OrderInv, SubscribeNext
  PROVE  OrderInv'
<1>0. PICK m : m = ModuleList[todo]
  OBVIOUS
<1>1. todo \in 1 .. Len(ModuleList) /\ m \in Modules /\ Len(ModuleList) \in Nat
  <2>1. todo \in 1 .. Len(ModuleList) + 1 /\ todo <= Len(ModuleList)
    BY SMT DEF SubscribeNext, LifeInv, NotificationTypeOK
  <2> QED
    BY SMT, <1>0, <2>1, NotificationAssumption
<1>2. /\ nstage = "subscribing" /\ subs = Heard
      /\ UNCHANGED <<running, wantToClose, accepted>>
  BY DEF SubscribeNext, LifeInv
<1>3. CASE subscribe(m) /\ UNCHANGED nstage
  <2>1. m \notin subs
    <3>1. \A i \in 1 .. todo - 1 : ModuleList[i] # m
      BY SMT, <1>0, <1>1, NotificationAssumption
    <3> QED
      BY <1>2, <3>1 DEF Heard
  <2> DEFINE now == published[m] + 1
             from == IF times.start = Absent THEN now ELSE 1
  <2>2. /\ subs' = subs \cup {m} /\ subs \subseteq Modules
        /\ \A n \in subs : first'[n] = first[n] /\ next'[n] = next[n]
        /\ first'[m] = from /\ next'[m] = from
    <3>1. /\ subs' = subs \cup {m}
          /\ first' = [first EXCEPT ![m] = from] /\ next' = [next EXCEPT ![m] = from]
      BY <1>3 DEF subscribe
    <3>2. subs \subseteq Modules /\ DOMAIN first = Modules /\ DOMAIN next = Modules
      BY DEF LifeInv, NotificationTypeOK
    <3> HIDE DEF from
    <3> QED
      BY <1>1, <2>1, <3>1, <3>2
  <2>3. from \in Nat
    <3>1. published[m] \in Nat
      BY SMT, <1>1, NotificationAssumption DEF LifeInv, NotificationTypeOK
    <3> QED
      BY SMT, <3>1
  <2> HIDE DEF from
  <2>4. /\ \A i \in 1 .. Len(accepted) : accepted[i][1] \in subs
        /\ running # Idle => running.of[1] \in subs
    BY <1>2 DEF OrderInv
  <2>5. NotificationsInOrder'
    BY <1>2, <2>2, <2>4 DEF OrderInv, NotificationsInOrder
  <2>6. /\ Forwarding' = Forwarding /\ Accepts' = Accepts
        /\ Forwarding => running.of[1] \in subs
    BY <1>2, <1>3, <2>4 DEF Forwarding, Accepts
  <2>7. /\ \A n \in subs : Due(n)' = Due(n)
        /\ Due(m)' = from
    BY <1>2, <2>1, <2>2, <2>6 DEF Due
  <2>8. ASSUME Accepts', NEW n \in subs'
        PROVE  HasUpToDue(n)'
    <3>1. CASE n \in subs
      <4>1. HasUpToDue(n)
        BY <2>6, <2>8, <3>1 DEF OrderInv
      <4>2. first'[n] = first[n] /\ Due(n)' = Due(n) /\ accepted' = accepted
        BY <1>2, <2>2, <2>7, <3>1
      <4> QED
        BY ONLY Zenon, <4>1, <4>2 DEF HasUpToDue
    <3>2. CASE n = m
      BY SMT, <1>2, <2>1, <2>2, <2>3, <2>4, <2>7, <3>2 DEF HasUpToDue
    <3> QED
      BY <2>2, <2>8, <3>1, <3>2
  <2>9. Accepts' => (Forwarding' => running'.of[2] = next'[running'.of[1]] - 1)
    BY <1>2, <2>2, <2>6 DEF OrderInv
  <2> QED
    BY <1>2, <2>2, <2>4, <2>5, <2>8, <2>9 DEF OrderInv
<1>4. CASE UNCHANGED <<nstage, subs, first, fresh, next>>
  BY <1>2, <1>4, OrderUntouched
<1>5. CASE nstage' = "unwinding" /\ UNCHANGED <<subs, first, fresh, next>>
  BY <1>2, <1>5, OrderUntouched
<1> QED
  BY <1>0, <1>3, <1>4, <1>5 DEF SubscribeNext, Unwind

\* sysrepo's thread takes up the due notification, or a report.
LEMMA CallsKeepOrder ==
  ASSUME LifeInv, OrderInv, SysrepoCalls
  PROVE  OrderInv'
<1>1. PICK m \in Modules : PickNotification(m) \/ PickReport(m)
  BY DEF SysrepoCalls
<1>2. /\ running = Idle /\ m \in subs /\ subs \subseteq Modules
      /\ next \in [Modules -> 1 .. MaxNotifications + 1]
      /\ UNCHANGED <<nstage, subs, first, wantToClose, accepted>>
  BY <1>1 DEF SysrepoCalls, PickNotification, PickReport, MayCall, LifeInv,
              NotificationTypeOK
<1>3. /\ running'.of[1] = m
      /\ Forwarding' => running'.of[2] = next'[m] - 1
      /\ \A n \in subs : Due(n)' = Due(n)
  <2>1. \A n : Due(n) = next[n]
    BY <1>2 DEF Due, Forwarding
  <2>2. CASE PickNotification(m)
    <3>1. /\ next' = [next EXCEPT ![m] = next[m] + 1]
          /\ running'.type \in {"Replay", "Realtime"} /\ running'.of = <<m, next[m]>>
          /\ running' # Idle
      BY <2>2 DEF PickNotification, Idle
    <3>2. next'[m] = next[m] + 1 /\ \A n \in subs : n # m => next'[n] = next[n]
      BY ONLY Zenon, <1>2, <3>1
    <3>3. next[m] \in Nat
      BY ONLY <1>2, NotificationAssumption
    <3>4. Forwarding'
      BY <3>1 DEF Forwarding, Forwarded
    <3> QED
      BY SMT, <2>1, <3>1, <3>2, <3>3, <3>4 DEF Due
  <2>3. CASE PickReport(m)
    <3>1. /\ next' = next /\ running'.type \in {"ReplayComplete", "Terminated"}
          /\ running'.of = <<m, 0>>
      BY SMT, <2>3 DEF PickReport
    <3>2. ~Forwarding'
      BY <3>1 DEF Forwarding, Forwarded
    <3> QED
      BY SMT, <2>1, <3>1, <3>2 DEF Due
  <2> QED
    BY <1>1, <2>2, <2>3
<1>4. NotificationsInOrder'
  BY <1>2 DEF OrderInv, NotificationsInOrder
<1>5. Accepts' = Accepts
  BY <1>2 DEF Accepts
<1>6. ASSUME Accepts, NEW n \in subs
      PROVE  HasUpToDue(n)'
  <2>1. HasUpToDue(n)
    BY <1>6 DEF OrderInv
  <2>2. first'[n] = first[n] /\ Due(n)' = Due(n) /\ accepted' = accepted
    BY <1>2, <1>3, <1>6
  <2> QED
    BY ONLY Zenon, <2>1, <2>2 DEF HasUpToDue
<1> QED
  BY <1>2, <1>3, <1>4, <1>5, <1>6 DEF OrderInv

\* notifCb: what it forwards is the due notification of its module.
LEMMA CallbackKeepsOrder ==
  ASSUME LifeInv, OrderInv, notifCb
  PROVE  OrderInv'
<1>1. /\ running # Idle /\ running' = Idle
      /\ UNCHANGED <<nstage, subs, first, next, wantToClose>>
      /\ Accepts' = Accepts /\ ~Forwarding'
  BY DEF notifCb, Accepts, Forwarding
<1>2. /\ running.of \in Modules \X (0 .. MaxNotifications)
      /\ next \in [Modules -> 1 .. MaxNotifications + 1]
      /\ first \in [Modules -> 1 .. MaxNotifications + 1]
      /\ accepted \in Seq(Modules \X (0 .. MaxNotifications)) /\ subs \subseteq Modules
  BY <1>1 DEF LifeInv, NotificationTypeOK
<1>3. CASE ~(Forwarding /\ Accepts)
  <2>1. accepted' = accepted
    BY <1>1, <1>3 DEF notifCb, Forwarding
  <2>2. NotificationsInOrder'
    BY <1>1, <2>1 DEF OrderInv, NotificationsInOrder
  <2>3. Accepts => \A n : Due(n)' = Due(n)
    BY <1>1, <1>3 DEF Due
  <2>4. ASSUME Accepts, NEW n \in subs
        PROVE  HasUpToDue(n)'
    <3>1. HasUpToDue(n)
      BY <2>4 DEF OrderInv
    <3>2. first'[n] = first[n] /\ Due(n)' = Due(n) /\ accepted' = accepted
      BY <1>1, <2>1, <2>3, <2>4
    <3> QED
      BY ONLY Zenon, <3>1, <3>2 DEF HasUpToDue
  <2> QED
    BY <1>1, <2>1, <2>2, <2>4 DEF OrderInv
<1>4. CASE Forwarding /\ Accepts
  <2>1. PICK m \in Modules, k \in 0 .. MaxNotifications : running.of = <<m, k>>
    <3>1. PICK x : x = running.of
      OBVIOUS
    <3>2. x = <<x[1], x[2]>> /\ x[1] \in Modules /\ x[2] \in 0 .. MaxNotifications
      BY SMT, <1>2, <3>1
    <3> QED
      BY ONLY Zenon, <3>1, <3>2
  <2>2. accepted' = Append(accepted, <<m, k>>)
    BY <1>4, <2>1 DEF notifCb, Forwarding
  <2>3. /\ m \in subs /\ k = next[m] - 1 /\ Due(m) = k
        /\ HasUpToDue(m)
    <3>1. nstage \in {"subscribing", "open"}
      BY <1>4 DEF Accepts
    <3>2. running.of[1] \in subs /\ running.of[2] = next[running.of[1]] - 1
      BY <1>1, <1>4, <3>1 DEF OrderInv
    <3>3. running.of[1] = m /\ running.of[2] = k
      BY ONLY <2>1
    <3>4. HasUpToDue(m)
      BY <1>4, <3>2, <3>3 DEF OrderInv
    <3>5. Due(m) = next[m] - 1
      BY ONLY Zenon, <1>4, <3>3 DEF Due
    <3> QED
      BY ONLY Zenon, <3>2, <3>3, <3>4, <3>5
  <2>4. /\ next[m] \in Nat /\ first[m] \in Nat /\ k \in Nat
        /\ Due(m)' = k + 1 /\ \A n : n # m => Due(n)' = Due(n)
    <3>1. next[m] \in Nat /\ first[m] \in Nat /\ k \in Nat
      BY ONLY <1>2, <2>1, NotificationAssumption
    <3>2. \A n : Due(n)' = next[n]
      BY ONLY Zenon, <1>1 DEF Due
    <3>3. \A n : n # m => Due(n) = next[n]
      BY ONLY <2>1 DEF Due
    <3> QED
      BY ONLY <2>3, <3>1, <3>2, <3>3
  <2>5. /\ Len(accepted) \in Nat /\ Len(accepted') = Len(accepted) + 1
        /\ accepted'[Len(accepted) + 1] = <<m, k>>
        /\ \A i \in 1 .. Len(accepted) : accepted'[i] = accepted[i]
    BY SMT, <1>2, <2>1, <2>2
  <2>6. /\ first[m] <= k
        /\ \A j \in first[m] .. k - 1 : \E i \in 1 .. Len(accepted) : accepted[i] = <<m, j>>
        /\ \A i \in 1 .. Len(accepted) : accepted[i][1] = m => accepted[i][2] < k
    BY <2>3 DEF HasUpToDue
  <2>7. NotificationsInOrder'
    <3> SUFFICES ASSUME NEW i \in 1 .. Len(accepted')
                 PROVE  /\ accepted'[i][2] >= first[accepted'[i][1]]
                        /\ accepted'[i][2] > first[accepted'[i][1]] =>
                             \E j \in 1 .. i - 1 :
                               accepted'[j] = <<accepted'[i][1], accepted'[i][2] - 1>>
                        /\ \A j \in 1 .. i - 1 :
                             accepted'[j][1] = accepted'[i][1] =>
                               accepted'[j][2] < accepted'[i][2]
      BY <1>1 DEF NotificationsInOrder
    <3>1. CASE i \in 1 .. Len(accepted)
      <4>1. accepted'[i] = accepted[i] /\ \A j \in 1 .. i - 1 : accepted'[j] = accepted[j]
        BY SMT, <2>5, <3>1
      <4> QED
        BY <3>1, <4>1 DEF OrderInv, NotificationsInOrder
    <3>2. CASE i = Len(accepted) + 1
      <4>1. accepted'[i] = <<m, k>>
        BY <2>5, <3>2
      <4>2. \A j \in 1 .. i - 1 : accepted'[j] = accepted[j] /\ j \in 1 .. Len(accepted)
        BY SMT, <2>5, <3>2
      <4>3. k > first[m] => \E j \in 1 .. i - 1 : accepted'[j] = <<m, k - 1>>
        <5> SUFFICES ASSUME k > first[m]
                     PROVE  \E j \in 1 .. i - 1 : accepted'[j] = <<m, k - 1>>
          OBVIOUS
        <5>1. k - 1 \in first[m] .. k - 1
          BY SMT, <2>4
        <5>2. PICK j \in 1 .. Len(accepted) : accepted[j] = <<m, k - 1>>
          BY <2>6, <5>1
        <5> QED
          BY SMT, <2>5, <3>2, <5>2
      <4>4. accepted'[i][1] = m /\ accepted'[i][2] = k
        BY ONLY <4>1
      <4>5. \A j \in 1 .. i - 1 : accepted'[j][1] = m => accepted'[j][2] < k
        BY ONLY Zenon, <2>6, <4>2
      <4> QED
        BY ONLY Zenon, <2>6, <4>3, <4>4, <4>5, <2>4
    <3>3. i \in 1 .. Len(accepted) \/ i = Len(accepted) + 1
      BY ONLY <2>5, i \in 1 .. Len(accepted')
    <3> QED
      BY ONLY Zenon, <3>1, <3>2, <3>3
  <2>8. ASSUME NEW n \in subs
        PROVE  HasUpToDue(n)'
    <3>1. CASE n = m
      <4>1. first[m] <= k + 1
        BY SMT, <2>4, <2>6
      <4>2. \A j \in first[m] .. k : \E i \in 1 .. Len(accepted') : accepted'[i] = <<m, j>>
        <5> SUFFICES ASSUME NEW j \in first[m] .. k
                     PROVE  \E i \in 1 .. Len(accepted') : accepted'[i] = <<m, j>>
          OBVIOUS
        <5>1. CASE j = k
          BY SMT, <2>5, <5>1
        <5>2. CASE j # k
          <6>1. j \in first[m] .. k - 1
            BY SMT, <2>4, <5>2
          <6>2. PICK i \in 1 .. Len(accepted) : accepted[i] = <<m, j>>
            BY <2>6, <6>1
          <6> QED
            BY SMT, <2>5, <6>2
        <5> QED
          BY <5>1, <5>2
      <4>3. \A i \in 1 .. Len(accepted') : accepted'[i][1] = m => accepted'[i][2] < k + 1
        <5> SUFFICES ASSUME NEW i \in 1 .. Len(accepted'), accepted'[i][1] = m
                     PROVE  accepted'[i][2] < k + 1
          OBVIOUS
        <5>1. CASE i = Len(accepted) + 1
          BY SMT, <2>4, <2>5, <5>1
        <5>2. CASE i \in 1 .. Len(accepted)
          <6>1. accepted[i] \in Modules \X (0 .. MaxNotifications)
            BY SMT, <1>2, <5>2
          <6>2. accepted[i][2] \in Nat /\ accepted[i][2] < k
            BY SMT, <2>5, <2>6, <5>2, <6>1
          <6> QED
            BY SMT, <2>4, <2>5, <5>2, <6>2
        <5> QED
          BY SMT, <2>5, <5>1, <5>2
      <4>4. first' = first /\ Due(m)' - 1 = k
        BY SMT, <1>1, <2>4
      <4>5. HasUpToDue(m)'
        BY <2>4, <4>1, <4>2, <4>3, <4>4 DEF HasUpToDue
      <4> QED
        BY <3>1, <4>5
    <3>2. CASE n # m
      <4>1. HasUpToDue(n) /\ Due(n)' = Due(n) /\ first'[n] = first[n]
        BY <1>1, <1>4, <2>4, <2>8, <3>2 DEF OrderInv
      <4>2. \A k1 \in first'[n] .. Due(n)' - 1 :
              \E i \in 1 .. Len(accepted') : accepted'[i] = <<n, k1>>
        <5> SUFFICES ASSUME NEW k1 \in first[n] .. Due(n) - 1
                     PROVE  \E i \in 1 .. Len(accepted') : accepted'[i] = <<n, k1>>
          BY <4>1
        <5>1. PICK i \in 1 .. Len(accepted) : accepted[i] = <<n, k1>>
          BY <4>1 DEF HasUpToDue
        <5> QED
          BY SMT, <2>5, <5>1
      <4>3. \A i \in 1 .. Len(accepted') :
              accepted'[i][1] = n => accepted'[i][2] < Due(n)'
        BY SMT, <2>5, <3>2, <4>1 DEF HasUpToDue
      <4>4. first'[n] <= Due(n)'
        BY <4>1 DEF HasUpToDue
      <4> QED
        BY <4>2, <4>3, <4>4 DEF HasUpToDue
    <3> QED
      BY <3>1, <3>2
  <2>9. \A i \in 1 .. Len(accepted') : accepted'[i][1] \in subs
    BY SMT, <1>4, <2>3, <2>5 DEF OrderInv, Accepts
  <2> QED
    BY <1>1, <2>7, <2>8, <2>9 DEF OrderInv
<1> QED
  BY <1>3, <1>4

\* Every step of the server keeps the order.
LEMMA OrderStep ==
  ASSUME LifeInv, OrderInv, [Next]_vars
  PROVE  OrderInv'
<1>1. CASE UNCHANGED streamVars
  BY <1>1, OrderUntouched DEF streamVars
<1>2. CASE Construct \/ DestroySubscriptions \/ DestroyStream
  BY <1>2, EndsKeepOrder
<1>3. CASE ActivateStream \/ EndNotifications \/ CloseNotifications
  <2>1. /\ UNCHANGED <<subs, first, next, running, accepted>>
        /\ nstage \in {"subscribing", "open"}
        /\ ~wantToClose' => ~wantToClose
    BY SMT, <1>3 DEF ActivateStream, EndNotifications, CloseNotifications, feed
  <2> QED
    BY <2>1, OrderUntouched
<1>4. CASE SubscribeNext
  BY <1>4, SubscribeKeepsOrder
<1>5. CASE \E m \in Modules : Publish(m)
  <2>1. UNCHANGED <<subs, first, next, running, accepted, nstage, wantToClose>>
    BY <1>5 DEF Publish
  <2> QED
    BY <2>1, OrderUntouched
<1>6. CASE SysrepoCalls
  BY <1>6, CallsKeepOrder
<1>7. CASE notifCb
  BY <1>7, CallbackKeepsOrder
<1> QED
  BY <1>1, <1>2, <1>3, <1>4, <1>5, <1>6, <1>7
  DEF Next, vars, Startup, TelemetryHandler, StreamsHandler, Shutdown,
      OpticalThread, NotificationThread, Environment

-----------------------------------------------------------------------------
(* The telemetry. *)

(***************************************************************************)
(* The inductive invariant of the telemetry.  lastData is never newer than *)
(* the data, and nothing that a client holds or got is newer than          *)
(* lastData: so the next emission, which sends lastData, cannot go back.   *)
(* The initial event is the first one of its stream.                       *)
(***************************************************************************)
OpticalInv ==
  /\ OpticalTypeOK
  /\ calls <= oper /\ lastData <= oper
  /\ setup = "dumping" => tried < DeviceCount
  /\ \A c \in Clients :
       /\ stage[c] \in {"idle", "asked"} => view[c] = <<>>
       /\ held[c] <= lastData
       /\ \A i \in 1 .. Len(view[c]) : view[c][i] <= lastData
  /\ ViewNeverGoesBack

\* The state OpticalEvents is constructed in, before the module is found.
LEMMA OpticalInitially == Init => OpticalInv
<1> SUFFICES ASSUME Init PROVE OpticalInv
  OBVIOUS
<1>1. sub \in BOOLEAN /\ lost \in BOOLEAN
  BY DEF Init, OpticalInit
<1>2. setup = "subscribing"
  BY DEF Init, OpticalInit
<1> QED
  BY SMT, <1>1, <1>2, OpticalAssumption
  DEF Init, OpticalInit, OpticalInv, OpticalTypeOK, ClientStages, ViewNeverGoesBack

\* What notification streams do is nothing to the telemetry.
LEMMA OpticalStutters ==
  ASSUME OpticalInv, UNCHANGED opticalVars
  PROVE  OpticalInv'
BY DEF OpticalInv, opticalVars, OpticalTypeOK, ViewNeverGoesBack

\* The constructor finds a module, or none, and dumps the data.
LEMMA ConstructionKeepsOptical ==
  ASSUME OpticalInv, Construction
  PROVE  OpticalInv'
<1> USE OpticalAssumption DEF OpticalInv, OpticalTypeOK, clients, ViewNeverGoesBack
<1>1. CASE SubscribeToDevice
  <2>1. sub' \in BOOLEAN /\ lost' \in BOOLEAN
    BY <1>1 DEF SubscribeToDevice, Resubscribe
  <2> QED
    BY SMT, <1>1, <2>1 DEF SubscribeToDevice, Resubscribe
<1>2. CASE NoDevice
  BY SMT, <1>2 DEF NoDevice
<1>3. CASE FirstDump
  <2>1. sub' \in BOOLEAN /\ lost' \in BOOLEAN
    BY <1>3 DEF FirstDump, Resubscribe
  <2> QED
    BY SMTT(30), <1>3, <2>1 DEF FirstDump, Resubscribe
<1> QED
  BY <1>1, <1>2, <1>3 DEF Construction

\* Changes of the data, and onChange() up to the first slot.
LEMMA ChangesKeepOptical ==
  ASSUME OpticalInv, OperChange \/ onChange \/ ChangeReturns
  PROVE  OpticalInv'
<1> USE OpticalAssumption DEF OpticalInv, OpticalTypeOK, clients, ViewNeverGoesBack
<1>1. CASE OperChange
  BY SMT, <1>1 DEF OperChange
<1>2. CASE onChange
  <2>1. sub' \in BOOLEAN /\ lost' \in BOOLEAN
    BY <1>2 DEF onChange
  <2> QED
    BY SMT, <1>2, <2>1 DEF onChange
<1>3. CASE ChangeReturns
  BY <1>3 DEF ChangeReturns
<1> QED
  BY <1>1, <1>2, <1>3

\* enqueue(): a version that is not older than what a client got goes to the
\* end of what it got.
LEMMA EnqueueKeepsOrder ==
  ASSUME OpticalInv, NEW c \in Clients, NEW v \in 0 .. MaxVersion, v <= lastData,
         \A i \in 1 .. Len(view[c]) : view[c][i] <= v,
         EnqueueFor(c, v)
  PROVE  /\ view' \in [Clients -> Seq(0 .. MaxVersion)]
         /\ \A d \in Clients : d # c => view'[d] = view[d]
         /\ \A i \in 1 .. Len(view'[c]) : view'[c][i] <= lastData
         /\ \A i \in 1 .. Len(view'[c]) - 1 : view'[c][i] <= view'[c][i + 1]
<1> USE OpticalAssumption DEF OpticalInv, OpticalTypeOK
<1>1. CASE stage[c] \in {"ending", "closed"}
  BY <1>1 DEF EnqueueFor, ViewNeverGoesBack
<1>2. CASE stage[c] \notin {"ending", "closed"}
  <2> DEFINE s == view[c]
             t == Append(s, v)
  <2>1. view' = [view EXCEPT ![c] = t] /\ view'[c] = t
    BY <1>2 DEF EnqueueFor
  <2>2. s \in Seq(0 .. MaxVersion) /\ \A i \in 1 .. Len(s) : s[i] \in 0 .. MaxVersion
    BY SMT
  <2>3. /\ t \in Seq(0 .. MaxVersion) /\ Len(t) = Len(s) + 1 /\ t[Len(s) + 1] = v
        /\ \A i \in 1 .. Len(s) : t[i] = s[i]
    BY SMT, <2>2
  <2>4. \A i \in 1 .. Len(s) - 1 : s[i] <= s[i + 1]
    BY DEF ViewNeverGoesBack
  <2>5. \A i \in 1 .. Len(s) : s[i] <= v /\ s[i] <= lastData
    OBVIOUS
  <2> HIDE DEF s, t
  <2>6. Len(s) \in Nat
    BY SMT, <2>2
  <2>7. \A i \in 1 .. Len(t) : t[i] <= lastData
    BY ONLY <2>3, <2>5, <2>6, v <= lastData
  <2>8. \A i \in 1 .. Len(t) - 1 : t[i] <= t[i + 1]
    BY ONLY <2>3, <2>4, <2>5, <2>6
  <2> QED
    BY <2>1, <2>3, <2>7, <2>8
<1> QED
  BY <1>1, <1>2

\* The emission calls the slot of one stream.
LEMMA CallSlotKeepsOptical ==
  ASSUME OpticalInv, CallSlot
  PROVE  OpticalInv'
<1>1. PICK c \in slots :
        /\ slots' = slots \ {c}
        /\ IF Connected(c) THEN EnqueueFor(c, lastData) ELSE UNCHANGED view
  BY DEF CallSlot
<1>2. c \in Clients /\ lastData \in 0 .. MaxVersion /\ lastData <= lastData
  BY SMT, <1>1, OpticalAssumption DEF OpticalInv, OpticalTypeOK
<1>3. UNCHANGED <<setup, tried, sub, oper, calls, lastData, lost, onchange, stage,
                  held, since>>
  BY DEF CallSlot
<1>4. CASE Connected(c)
  <2>1. EnqueueFor(c, lastData)
    BY <1>1, <1>4
  <2>2. \A i \in 1 .. Len(view[c]) : view[c][i] <= lastData
    BY <1>2 DEF OpticalInv
  <2>3. /\ view' \in [Clients -> Seq(0 .. MaxVersion)]
        /\ \A d \in Clients : d # c => view'[d] = view[d]
        /\ \A i \in 1 .. Len(view'[c]) : view'[c][i] <= lastData
        /\ \A i \in 1 .. Len(view'[c]) - 1 : view'[c][i] <= view'[c][i + 1]
    BY <1>2, <2>1, <2>2, EnqueueKeepsOrder
  <2>4. OpticalTypeOK'
    BY <1>1, <1>3, <2>3 DEF OpticalInv, OpticalTypeOK
  <2>5. ViewNeverGoesBack'
    BY <2>3 DEF OpticalInv, ViewNeverGoesBack
  <2> QED
    BY <1>3, <1>4, <2>3, <2>4, <2>5 DEF OpticalInv, Connected
<1>5. CASE ~Connected(c)
  BY <1>1, <1>3, <1>5 DEF OpticalInv, OpticalTypeOK, ViewNeverGoesBack
<1> QED
  BY <1>4, <1>5

\* The event loop creates the stream with what currentData() returned.
LEMMA OpenKeepsOptical ==
  ASSUME OpticalInv, NEW c \in Clients, OpenTelemetry(c)
  PROVE  OpticalInv'
<1>1. /\ stage[c] = "asked" /\ EnqueueFor(c, held[c])
      /\ stage' = [stage EXCEPT ![c] = "open"] /\ since' = [since EXCEPT ![c] = oper]
      /\ UNCHANGED <<setup, tried, sub, oper, calls, lastData, lost, onchange,
                     slots, held>>
  BY DEF OpenTelemetry, source
<1>2. held[c] \in 0 .. MaxVersion /\ held[c] <= lastData
  BY DEF OpticalInv, OpticalTypeOK
<1>3. \A i \in 1 .. Len(view[c]) : view[c][i] <= held[c]
  BY SMT, <1>1 DEF OpticalInv
<1>4. /\ view' \in [Clients -> Seq(0 .. MaxVersion)]
      /\ \A d \in Clients : d # c => view'[d] = view[d]
      /\ \A i \in 1 .. Len(view'[c]) : view'[c][i] <= lastData
      /\ \A i \in 1 .. Len(view'[c]) - 1 : view'[c][i] <= view'[c][i + 1]
  BY <1>1, <1>2, <1>3, EnqueueKeepsOrder
<1>5. OpticalTypeOK'
  BY <1>1, <1>4 DEF OpticalInv, OpticalTypeOK, ClientStages
<1>6. ViewNeverGoesBack'
  BY <1>4 DEF OpticalInv, ViewNeverGoesBack
<1> QED
  BY <1>1, <1>4, <1>5, <1>6 DEF OpticalInv, OpticalTypeOK

\* The other steps of a client's request and of its stream.
LEMMA ClientKeepsOptical ==
  ASSUME OpticalInv, NEW c \in Clients,
         currentData(c) \/ EndTelemetry(c) \/ CloseTelemetry(c)
  PROVE  OpticalInv'
<1> USE OpticalAssumption
    DEF OpticalInv, OpticalTypeOK, ClientStages, source, ViewNeverGoesBack
<1>1. CASE currentData(c)
  BY SMT, <1>1 DEF currentData
<1>2. CASE EndTelemetry(c)
  BY <1>2 DEF EndTelemetry
<1>3. CASE CloseTelemetry(c)
  BY <1>3 DEF CloseTelemetry
<1> QED
  BY <1>1, <1>2, <1>3

\* Every step of the server keeps the invariant of the telemetry.
LEMMA OpticalStep ==
  ASSUME OpticalInv, load \in Workloads, [Next]_vars
  PROVE  OpticalInv'
<1>1. CASE UNCHANGED opticalVars
  BY <1>1, OpticalStutters
<1>2. CASE Construction
  BY <1>2, ConstructionKeepsOptical
<1>3. CASE OperChange \/ onChange \/ ChangeReturns
  BY <1>3, ChangesKeepOptical
<1>4. CASE CallSlot
  BY <1>4, CallSlotKeepsOptical
<1>5. CASE \E c \in Clients : OpenTelemetry(c)
  BY <1>5, OpenKeepsOptical
<1>6. CASE \E c \in Clients : currentData(c) \/ EndTelemetry(c) \/ CloseTelemetry(c)
  BY <1>6, ClientKeepsOptical
<1> QED
  BY <1>1, <1>2, <1>3, <1>4, <1>5, <1>6, WorkloadAssumption
  DEF Next, vars, Startup, TelemetryHandler, StreamsHandler, Shutdown,
      OpticalThread, NotificationThread, Environment

-----------------------------------------------------------------------------
(* The life of the stream. *)

\* Before the request for the stream.
LEMMA LifeInitially == Init => LifeInv
<1> SUFFICES ASSUME Init PROVE LifeInv
  OBVIOUS
<1> USE NotificationAssumption DEF Init, NotificationInit
<1>1. Start \in [Modules -> 1 .. MaxNotifications + 1]
  BY SMT DEF Start
<1>2. todo \in 1 .. Len(ModuleList) + 1 /\ nstage \in NotificationStages
  BY SMT DEF NotificationStages
<1>3. published \in [Modules -> 0 .. MaxNotifications]
  BY SMT
<1>4. accepted \in Seq(Modules \X (0 .. MaxNotifications))
  BY SMT
<1>5. signal \in BOOLEAN /\ wantToClose \in BOOLEAN
  OBVIOUS
<1>6. NotificationTypeOK
  BY <1>1, <1>2, <1>3, <1>4, <1>5 DEF NotificationTypeOK
<1> QED
  BY <1>6 DEF LifeInv

\* What the telemetry does is nothing to the stream.
LEMMA LifeStutters ==
  ASSUME LifeInv, UNCHANGED streamVars
  PROVE  LifeInv'
<1>0. NotificationTypeOK
  BY DEF LifeInv
<1>1. NotificationTypeOK'
  BY SMT, <1>0 DEF streamVars, NotificationTypeOK
<1>2. Heard' = Heard
  BY DEF streamVars, Heard
<1> QED
  BY <1>1, <1>2 DEF LifeInv, streamVars

\* The constructor, the answer, the termination slot and the close.
LEMMA StagesKeepLife ==
  ASSUME LifeInv,
         Construct \/ ActivateStream \/ EndNotifications \/ CloseNotifications
  PROVE  LifeInv'
<1> USE DEF feed
<1>0. NotificationTypeOK
  BY DEF LifeInv
<1>1. CASE Construct
  <2>1. NotificationTypeOK'
    BY SMT, <1>0, <1>1 DEF Construct, Unwind, NotificationTypeOK, NotificationStages
  <2>2. nstage' \in {"subscribing", "unwinding"} /\ signal' = TRUE /\ subs' = {}
    BY <1>1 DEF Construct, Unwind, LifeInv
  <2>3. Heard' = {}
    BY SMT, <1>1 DEF Construct, LifeInv, Heard
  <2> QED
    BY <1>1, <2>1, <2>2, <2>3 DEF Construct, LifeInv
<1>2. CASE ActivateStream
  <2>1. NotificationTypeOK'
    BY SMT, <1>0, <1>2 DEF ActivateStream, NotificationTypeOK, NotificationStages
  <2>2. Heard' = Heard
    BY <1>2 DEF ActivateStream, Heard
  <2>3. todo = Len(ModuleList) + 1
    <3>1. todo \in 1 .. Len(ModuleList) + 1 /\ todo > Len(ModuleList)
      BY <1>0, <1>2 DEF ActivateStream, NotificationTypeOK
    <3> QED
      BY SMT, <3>1, NotificationAssumption
  <2> QED
    BY <1>2, <2>1, <2>2, <2>3 DEF ActivateStream, LifeInv
<1>3. CASE EndNotifications
  <2>1. NotificationTypeOK' /\ Heard' = Heard
    BY SMT, <1>0, <1>3 DEF EndNotifications, NotificationTypeOK, Heard
  <2> QED
    BY <1>3, <2>1 DEF EndNotifications, LifeInv
<1>4. CASE CloseNotifications
  <2>1. NotificationTypeOK'
    BY SMT, <1>0, <1>4 DEF CloseNotifications, NotificationTypeOK, NotificationStages
  <2> QED
    BY <1>4, <2>1 DEF CloseNotifications, LifeInv
<1> QED
  BY <1>1, <1>2, <1>3, <1>4

\* The destructor: the subscriptions first, then everything else.
LEMMA DestructorKeepsLife ==
  ASSUME LifeInv, DestroySubscriptions \/ DestroyStream
  PROVE  LifeInv'
<1> USE DEF feed
<1>0. NotificationTypeOK
  BY DEF LifeInv
<1>1. CASE DestroySubscriptions
  <2>1. NotificationTypeOK'
    BY SMT, <1>0, <1>1 DEF DestroySubscriptions, NotificationTypeOK, NotificationStages
  <2> QED
    BY <1>1, <2>1 DEF DestroySubscriptions, LifeInv
<1>2. CASE DestroyStream
  <2>1. Start \in [Modules -> 1 .. MaxNotifications + 1]
    BY SMT, NotificationAssumption DEF Start
  <2>2. todo' \in 1 .. Len(ModuleList) + 1
    BY SMT, <1>2, NotificationAssumption DEF DestroyStream
  <2>3. accepted' \in Seq(Modules \X (0 .. MaxNotifications))
    BY SMT, <1>2 DEF DestroyStream
  <2>4. /\ first' = Start /\ fresh' = Start /\ next' = Start /\ reported' = {}
        /\ nstage' = "gone" /\ signal' = FALSE /\ wantToClose' = FALSE /\ thrown' = 0
        /\ UNCHANGED <<times, published, running, subs>>
    BY <1>2 DEF DestroyStream
  <2>5. status' \in {0, 1, 200, 400}
    BY SMT, <1>0, <1>2 DEF DestroyStream, NotificationTypeOK
  <2>6. NotificationTypeOK'
    <3>1. /\ first' \in [Modules -> 1 .. MaxNotifications + 1]
          /\ fresh' \in [Modules -> 1 .. MaxNotifications + 1]
          /\ next' \in [Modules -> 1 .. MaxNotifications + 1]
      BY ONLY Zenon, <2>1, <2>4
    <3>2. /\ nstage' \in NotificationStages /\ thrown' \in {0, 1, 400}
          /\ signal' \in BOOLEAN /\ wantToClose' \in BOOLEAN
          /\ reported' \subseteq Modules \X {"ReplayComplete", "Terminated"}
      BY ONLY Zenon, <2>4 DEF NotificationStages
    <3> QED
      BY ONLY <1>0, <2>2, <2>3, <2>4, <2>5, <3>1, <3>2 DEF NotificationTypeOK
  <2> QED
    BY <1>2, <2>6 DEF DestroyStream, LifeInv
<1> QED
  BY <1>1, <1>2

\* One turn of the loop in activate().
LEMMA SubscribeKeepsLife ==
  ASSUME LifeInv, SubscribeNext
  PROVE  LifeInv'
<1> DEFINE m == ModuleList[todo]
<1>0. NotificationTypeOK
  BY DEF LifeInv
<1>1. todo \in 1 .. Len(ModuleList) /\ m \in Modules /\ Len(ModuleList) \in Nat
  <2>1. todo \in 1 .. Len(ModuleList) + 1 /\ todo <= Len(ModuleList)
    BY SMT, <1>0 DEF SubscribeNext, NotificationTypeOK
  <2> QED
    BY SMT, <2>1, NotificationAssumption
<1>2. /\ nstage = "subscribing" /\ subs = Heard
      /\ UNCHANGED <<times, reported, published, running, signal,
                     wantToClose, accepted, status>>
  BY DEF SubscribeNext, LifeInv
<1>3. CASE /\ canBeSubscribed(m) /\ m \in Notifying /\ subscribe(m)
           /\ todo' = todo + 1 /\ UNCHANGED <<nstage, thrown>>
  <2> DEFINE now == published[m] + 1
             from == IF times.start = Absent THEN now ELSE 1
  <2>1. now \in 1 .. MaxNotifications + 1 /\ from \in 1 .. MaxNotifications + 1
    <3>1. published[m] \in 0 .. MaxNotifications
      BY SMT, <1>1 DEF LifeInv, NotificationTypeOK
    <3> QED
      BY SMT, <3>1, NotificationAssumption
  <2>2. /\ first' \in [Modules -> 1 .. MaxNotifications + 1]
        /\ fresh' \in [Modules -> 1 .. MaxNotifications + 1]
        /\ next' \in [Modules -> 1 .. MaxNotifications + 1]
    <3>1. /\ first' = [first EXCEPT ![m] = from]
          /\ fresh' = [fresh EXCEPT ![m] = now]
          /\ next' = [next EXCEPT ![m] = from]
      BY ONLY Zenon, <1>3 DEF subscribe
    <3>2. /\ first \in [Modules -> 1 .. MaxNotifications + 1]
          /\ fresh \in [Modules -> 1 .. MaxNotifications + 1]
          /\ next \in [Modules -> 1 .. MaxNotifications + 1]
      BY ONLY SMT, <1>0 DEF NotificationTypeOK
    <3> HIDE DEF m, now, from
    <3> QED
      BY ONLY Zenon, <2>1, <3>1, <3>2
  <2>3. subs' = subs \cup {m}
    BY <1>3 DEF subscribe
  <2>4. NotificationTypeOK'
    <3>1. /\ (times \in Times)'
          /\ (nstage \in NotificationStages)'
          /\ (reported \subseteq Modules \X {"ReplayComplete", "Terminated"})'
          /\ (published \in [Modules -> 0 .. MaxNotifications])'
          /\ (signal \in BOOLEAN /\ wantToClose \in BOOLEAN)'
          /\ (accepted \in Seq(Modules \X (0 .. MaxNotifications)))'
          /\ (thrown \in {0, 1, 400} /\ status \in {0, 1, 200, 400})'
      BY ONLY <1>0, <1>2, <1>3 DEF NotificationTypeOK
    <3>2. (running = Idle \/ running.type \in {"Replay", "Realtime",
                                              "ReplayComplete", "Terminated"})'
      BY ONLY <1>0, <1>2 DEF NotificationTypeOK
    <3>3. todo' \in 1 .. Len(ModuleList) + 1
      BY ONLY <1>1, <1>3
    <3>4. subs' \subseteq Modules
      BY ONLY <1>0, <1>1, <2>3 DEF NotificationTypeOK
    <3> QED
      BY ONLY Zenon, <2>2, <3>1, <3>2, <3>3, <3>4 DEF NotificationTypeOK
  <2>5. Heard' = Heard \cup {m}
    BY SMT, <1>1, <1>3 DEF Heard
  <2> QED
    BY <1>2, <1>3, <2>3, <2>4, <2>5 DEF LifeInv
<1>4. CASE /\ canBeSubscribed(m) => m \notin Notifying
           /\ todo' = todo + 1 /\ UNCHANGED <<nstage, thrown, subs, first, fresh, next>>
  <2>1. NotificationTypeOK'
    BY SMT, <1>0, <1>1, <1>2, <1>4 DEF NotificationTypeOK
  <2>2. Heard' = Heard
    BY SMT, <1>1, <1>4 DEF Heard
  <2> QED
    BY <1>2, <1>4, <2>1, <2>2 DEF LifeInv
<1>5. CASE /\ canBeSubscribed(m) /\ \E error \in {400, 1} : Unwind(error)
           /\ UNCHANGED <<todo, subs, first, fresh, next>>
  <2>1. NotificationTypeOK' /\ nstage' = "unwinding"
    BY SMT, <1>0, <1>2, <1>5 DEF Unwind, NotificationTypeOK, NotificationStages
  <2> QED
    BY <1>2, <1>5, <2>1 DEF LifeInv
<1> QED
  BY <1>3, <1>4, <1>5 DEF SubscribeNext

\* sysrepo takes notifications in and calls notifCb, which returns.
LEMMA SysrepoKeepsLife ==
  ASSUME LifeInv, (\E m \in Modules : Publish(m)) \/ SysrepoCalls \/ notifCb
  PROVE  LifeInv'
<1>0. NotificationTypeOK
  BY DEF LifeInv
<1>1. CASE \E m \in Modules : Publish(m)
  <2>1. PICK m \in Modules : Publish(m)
    BY <1>1
  <2>2. published[m] \in 0 .. MaxNotifications /\ published[m] < MaxNotifications
    BY SMT, <2>1 DEF Publish, LifeInv, NotificationTypeOK
  <2>3. published[m] + 1 \in 0 .. MaxNotifications
    BY SMT, <2>2, NotificationAssumption
  <2>4. published' \in [Modules -> 0 .. MaxNotifications]
    BY <2>1, <2>3 DEF Publish, LifeInv, NotificationTypeOK
  <2>5. NotificationTypeOK'
    <3>1. UNCHANGED <<times, nstage, todo, subs, first, fresh, next,
                      reported, running, signal, wantToClose, accepted, thrown,
                      status>>
      BY ONLY Zenon, <2>1 DEF Publish
    <3>2. /\ (times \in Times)'
          /\ (nstage \in NotificationStages)'
          /\ (todo \in 1 .. Len(ModuleList) + 1 /\ subs \subseteq Modules)'
          /\ (signal \in BOOLEAN /\ wantToClose \in BOOLEAN)'
          /\ (thrown \in {0, 1, 400} /\ status \in {0, 1, 200, 400})'
      BY ONLY <1>0, <3>1 DEF NotificationTypeOK
    <3>3. /\ (first \in [Modules -> 1 .. MaxNotifications + 1])'
          /\ (fresh \in [Modules -> 1 .. MaxNotifications + 1])'
          /\ (next \in [Modules -> 1 .. MaxNotifications + 1])'
          /\ (reported \subseteq Modules \X {"ReplayComplete", "Terminated"})'
          /\ (accepted \in Seq(Modules \X (0 .. MaxNotifications)))'
      BY ONLY Zenon, <1>0, <3>1 DEF NotificationTypeOK
    <3>4. (running = Idle \/ running.type \in {"Replay", "Realtime",
                                              "ReplayComplete", "Terminated"})'
      BY ONLY <1>0, <3>1 DEF NotificationTypeOK
    <3> QED
      BY ONLY Zenon, <2>4, <3>2, <3>3, <3>4 DEF NotificationTypeOK
  <2>6. Heard' = Heard
    BY <2>1 DEF Publish, Heard
  <2> QED
    BY <2>1, <2>5, <2>6 DEF Publish, LifeInv
<1>2. CASE SysrepoCalls
  <2>1. PICK m \in Modules : PickNotification(m) \/ PickReport(m)
    BY <1>2 DEF SysrepoCalls
  <2>2. /\ running = Idle /\ m \in subs
        /\ UNCHANGED <<times, nstage, todo, subs, first, fresh, published,
                       signal, wantToClose, accepted, thrown, status>>
    BY <1>2, <2>1 DEF SysrepoCalls, PickNotification, PickReport, MayCall
  <2>3. next[m] \in 1 .. MaxNotifications + 1 /\ published[m] \in 0 .. MaxNotifications
    BY SMT DEF LifeInv, NotificationTypeOK
  <2>4. /\ running' \in [type : Types, of : Modules \X (0 .. MaxNotifications)]
        /\ next' \in [Modules -> 1 .. MaxNotifications + 1]
        /\ reported' \subseteq Modules \X {"ReplayComplete", "Terminated"}
    <3>1. CASE PickNotification(m)
      <4>1. next[m] \in 0 .. MaxNotifications /\ next[m] + 1 \in 1 .. MaxNotifications + 1
        BY SMT, <2>3, <3>1, NotificationAssumption DEF PickNotification
      <4> QED
        BY <3>1, <4>1 DEF PickNotification, Types, LifeInv, NotificationTypeOK
    <3>2. CASE PickReport(m)
      <4>1. PICK type \in {"ReplayComplete", "Terminated"} :
              /\ running' = [type |-> type, of |-> <<m, 0>>]
              /\ reported' = reported \cup {<<m, type>>} /\ next' = next
        BY <3>2 DEF PickReport
      <4>2. 0 \in 0 .. MaxNotifications
        BY SMT, NotificationAssumption
      <4>3. running' \in [type : Types, of : Modules \X (0 .. MaxNotifications)]
        BY <4>1, <4>2 DEF Types
      <4>4. reported \subseteq Modules \X {"ReplayComplete", "Terminated"}
        BY DEF LifeInv, NotificationTypeOK
      <4>5. reported' \subseteq Modules \X {"ReplayComplete", "Terminated"}
        BY SMT, <4>1, <4>4
      <4> QED
        BY <4>1, <4>3, <4>5 DEF LifeInv, NotificationTypeOK
    <3> QED
      BY <2>1, <3>1, <3>2
  <2>5. NotificationTypeOK'
    <3>1. running'.type \in {"Replay", "Realtime", "ReplayComplete", "Terminated"}
      BY <2>4 DEF Types
    <3>2. /\ next' \in [Modules -> 1 .. MaxNotifications + 1]
          /\ reported' \subseteq Modules \X {"ReplayComplete", "Terminated"}
      BY <2>4
    <3>3. /\ (times \in Times)'
          /\ (nstage \in NotificationStages)'
          /\ (todo \in 1 .. Len(ModuleList) + 1 /\ subs \subseteq Modules)'
          /\ (signal \in BOOLEAN /\ wantToClose \in BOOLEAN)'
          /\ (thrown \in {0, 1, 400} /\ status \in {0, 1, 200, 400})'
      BY ONLY <1>0, <2>2 DEF NotificationTypeOK
    <3>4. /\ (first \in [Modules -> 1 .. MaxNotifications + 1])'
          /\ (fresh \in [Modules -> 1 .. MaxNotifications + 1])'
          /\ (published \in [Modules -> 0 .. MaxNotifications])'
          /\ (accepted \in Seq(Modules \X (0 .. MaxNotifications)))'
      BY ONLY Zenon, <1>0, <2>2 DEF NotificationTypeOK
    <3> QED
      BY ONLY Zenon, <3>1, <3>2, <3>3, <3>4 DEF NotificationTypeOK
  <2>6. Heard' = Heard
    BY <2>2 DEF Heard
  <2> QED
    BY <2>2, <2>4, <2>5, <2>6 DEF LifeInv
<1>3. CASE notifCb
  <2>1. accepted' \in Seq(Modules \X (0 .. MaxNotifications))
    <3>1. running.of \in Modules \X (0 .. MaxNotifications)
      BY <1>3 DEF notifCb, LifeInv
    <3> QED
      BY SMT, <1>3, <3>1 DEF notifCb, LifeInv, NotificationTypeOK
  <2>2. NotificationTypeOK'
    BY SMT, <1>0, <1>3, <2>1 DEF notifCb, NotificationTypeOK
  <2>3. Heard' = Heard
    BY <1>3 DEF notifCb, Heard
  <2>4. nstage \notin {"idle", "released", "gone"}
    BY <1>3 DEF notifCb, LifeInv
  <2> QED
    BY <1>3, <2>2, <2>3, <2>4 DEF notifCb, LifeInv
<1> QED
  BY <1>1, <1>2, <1>3

\* Every step of the server keeps the invariant of the stream's life.
LEMMA LifeStep ==
  ASSUME LifeInv, [Next]_vars
  PROVE  LifeInv'
<1>1. CASE UNCHANGED streamVars
  BY <1>1, LifeStutters
<1>2. CASE Construct \/ ActivateStream \/ EndNotifications \/ CloseNotifications
  BY <1>2, StagesKeepLife
<1>3. CASE SubscribeNext
  BY <1>3, SubscribeKeepsLife
<1>4. CASE DestroySubscriptions \/ DestroyStream
  BY <1>4, DestructorKeepsLife
<1>5. CASE (\E m \in Modules : Publish(m)) \/ SysrepoCalls \/ notifCb
  BY <1>5, SysrepoKeepsLife
<1> QED
  BY <1>1, <1>2, <1>3, <1>4, <1>5
  DEF Next, vars, Startup, TelemetryHandler, StreamsHandler, Shutdown,
      OpticalThread, NotificationThread, Environment

-----------------------------------------------------------------------------

IInv == load \in Workloads /\ OpticalInv /\ LifeInv /\ OrderInv

\* The inductive invariant of the sources holds in every reachable state.
THEOREM Invariance == Spec => []IInv
<1>1. Init => IInv
  BY OpticalInitially, LifeInitially, OrderInitially DEF IInv, Init
<1>2. IInv /\ [Next]_vars => IInv'
  <2> SUFFICES ASSUME IInv, [Next]_vars PROVE IInv'
    OBVIOUS
  <2>1. load' = load
    BY DEF Next, vars
  <2> QED
    BY <2>1, OpticalStep, LifeStep, OrderStep DEF IInv
<1> QED
  BY <1>1, <1>2, PTL DEF Spec

\* Every variable of the telemetry and of the notification stream keeps its
\* type: the counters stay within their bounds, also the pending calls of
\* onChange().
THEOREM TypeCorrect == Spec => []TypeOK
<1>1. IInv => TypeOK
  BY DEF IInv, TypeOK, OpticalInv, LifeInv
<1> QED
  BY <1>1, Invariance, PTL

\* currentData() before the connect, and dump and emission under one mutex:
\* no client of /telemetry/optics ever gets data older than what it has.
THEOREM TelemetryIsMonotonic == Spec => []ViewNeverGoesBack
<1>1. IInv => ViewNeverGoesBack
  BY DEF IInv, OpticalInv
<1> QED
  BY <1>1, Invariance, PTL

\* However create() or the stream ends, a running notifCb finds the signal it
\* refers to.
THEOREM CallbackIsSafe == Spec => []CallbackFindsSignal
<1>1. IInv => CallbackFindsSignal
  BY SMT DEF IInv, LifeInv, NotificationTypeOK, NotificationStages, CallbackFindsSignal
<1> QED
  BY <1>1, Invariance, PTL

\* 200 means every module with notifications is subscribed; afterwards, and
\* after an error, none is left.
THEOREM AnswerIsHonest == Spec => []SubscriptionsMatchAnswer
<1>1. LifeInv => SubscriptionsMatchAnswer
  <2> SUFFICES ASSUME LifeInv PROVE SubscriptionsMatchAnswer
    OBVIOUS
  <2>1. ASSUME nstage = "open"
        PROVE  subs = {m \in Modules : canBeSubscribed(m) /\ m \in Notifying}
    <3>1. subs = Heard /\ todo - 1 = Len(ModuleList)
      BY SMT, <2>1, NotificationAssumption DEF LifeInv
    <3>2. \A m \in Modules : \E i \in 1 .. Len(ModuleList) : ModuleList[i] = m
      BY SMT, NotificationAssumption DEF Modules, Range
    <3> QED
      BY <3>1, <3>2 DEF Heard
  <2> QED
    BY <2>1 DEF SubscriptionsMatchAnswer, LifeInv
<1> QED
  BY <1>1, Invariance, PTL DEF IInv

\* Of every module the client gets the notifications in order, none twice and
\* none left out, whatever else sysrepo reports and whenever the module was
\* subscribed.
THEOREM OrderIsKept == Spec => []NotificationsInOrder
<1>1. IInv => NotificationsInOrder
  BY DEF IInv, OrderInv
<1> QED
  BY <1>1, Invariance, PTL
=============================================================================
