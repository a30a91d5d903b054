------------------------ MODULE NotificationStream ------------------------
(***************************************************************************)
(* One response to GET /streams/NETCONF/{XML,JSON}                         *)
(* (src/src/restconf/NotificationStream.cpp): an event stream fed by       *)
(* sysrepo subscriptions to the notifications of every module.             *)
(*                                                                         *)
(* The event loop creates it, subscribes module by module, and destroys    *)
(* it.  The subscriptions share one thread of sysrepo that runs notifCb,   *)
(* one notification at a time, from the first subscribe on.  notifCb holds *)
(* a reference to the signal the stream owns; it is two steps: sysrepo     *)
(* picked a notification up, and notifCb emits the signal.  Destroying the *)
(* subscriptions waits for a running notifCb.                              *)
(*                                                                         *)
(* <<m, k>> is the k-th notification of module m.                          *)
(***************************************************************************)
EXTENDS Naturals, Sequences, Functions

CONSTANTS
  ModuleList,        \* the modules of the context, in its order
  Implemented,       \* modules that are implemented
  SysrepoModule,     \* the module named "sysrepo"
  Notifying,         \* modules that define notifications
  MaxNotifications   \* bound: notifications per module

Modules == Range(ModuleList)

\* The modules of a context are distinct.
ASSUME NotificationAssumption ==
  /\ ModuleList \in Seq(Modules)
  /\ \A i, j \in 1 .. Len(ModuleList) : ModuleList[i] = ModuleList[j] => i = j
  /\ MaxNotifications \in Nat

\* A start or stop time that the request does not have.
Absent == "absent"

\* The start time is in the past or in the future, the stop time after the
\* start time or not.
Times == [start : {Absent, "past", "future"}, stop : {Absent, "before", "after"}]

VARIABLES
  times,      \* the start-time and stop-time of the request
  nstage,     \* the stream: see NotificationStages
  todo,       \* activate(): position in the list of modules
  subs,       \* m_notifSubs: the modules subscribed to
  first,      \* first[m]: the first notification the subscription delivers
  fresh,      \* fresh[m]: older ones than this are of type Replay
  next,       \* next[m]: the notification sysrepo calls notifCb for next
  reported,   \* <<m, type>>: what sysrepo reported that has no content
  published,  \* published[m]: notifications module m has sent
  running,    \* the notification notifCb runs for, or Idle
  signal,     \* the signal object exists
  wantToClose,  \* the termination slot ran: state is WantToClose
  accepted,   \* the notifications enqueued for the client
  thrown,     \* the error that leaves create(), 0 if none
  status      \* of the response; 0: none yet, 1: an exception escaped

streamVars == <<times, nstage, todo, subs, first, fresh, next,
                reported, published, running, signal, wantToClose, accepted,
                thrown, status>>
feed == <<first, fresh, next, reported, published, running>>

(***************************************************************************)
(* "subscribing": activate() goes through the modules.  "open": activate() *)
(* is done.  "unwinding", "released": the destructor runs, before and      *)
(* after it destroyed m_notifSubs, because something was thrown or the     *)
(* response was closed.                                                    *)
(***************************************************************************)
NotificationStages == {"idle", "subscribing", "open", "unwinding", "released",
                       "gone"}

Start == [m \in Modules |-> 1]

Idle == [type |-> "none"]

NotificationInit ==
  /\ times \in Times
  /\ nstage = "idle" /\ todo = 1 /\ subs = {}
  /\ first = Start /\ fresh = Start /\ next = Start
  /\ reported = {}
  /\ published = [m \in Modules |-> 0]
  /\ running = Idle /\ signal = FALSE
  /\ wantToClose = FALSE /\ accepted = <<>>
  /\ thrown = 0 /\ status = 0

-----------------------------------------------------------------------------
(* External: sysrepo. *)

Publish(m) ==
  /\ m \in Notifying
  /\ nstage # "gone"        \* bound: afterwards nobody listens
  /\ published[m] < MaxNotifications
  /\ published' = [published EXCEPT ![m] = @ + 1]
  /\ UNCHANGED <<times, nstage, todo, subs, first, fresh, next, reported,
                 running, signal, wantToClose, accepted, thrown, status>>

\* sysrepo's thread is free for the subscription to module m.
MayCall(m) ==
  running = Idle /\ m \in subs /\ <<m, "Terminated">> \notin reported

Replaying(m) ==
  times.start # Absent /\ <<m, "ReplayComplete">> \notin reported

\* A stored notification for a subscription with a start-time, or a new one.
PickNotification(m) ==
  /\ MayCall(m)
  /\ next[m] <= published[m]
  /\ next[m] < fresh[m] \/ ~Replaying(m)
  /\ running' = [type |-> IF next[m] < fresh[m] THEN "Replay" ELSE "Realtime",
                 of |-> <<m, next[m]>>]
  /\ next' = [next EXCEPT ![m] = @ + 1]
  /\ UNCHANGED reported

\* Both reports have no content.  The stop-time passes when everything sent
\* until then was delivered.
PickReport(m) ==
  /\ MayCall(m)
  /\ \E type \in {"ReplayComplete", "Terminated"} :
       /\ IF type = "ReplayComplete"
          THEN Replaying(m) /\ next[m] = fresh[m]
          ELSE times.stop # Absent /\ ~Replaying(m) /\ next[m] > published[m]
       /\ running' = [type |-> type, of |-> <<m, 0>>]
       /\ reported' = reported \cup {<<m, type>>}
  /\ UNCHANGED next

SysrepoCalls ==
  /\ \E m \in Modules : PickNotification(m) \/ PickReport(m)
  /\ UNCHANGED <<times, nstage, todo, subs, first, fresh, published, signal,
                 wantToClose, accepted, thrown, status>>

-----------------------------------------------------------------------------
(* notifCb, in sysrepo's thread. *)

\* Mutant of Forwarded: only what was stored is sent.
ForwardedReplay(type) == type = "Replay"

\* Mutant of Forwarded: everything sysrepo reports is sent.
ForwardedAll(type) == TRUE

\* The types notifCb does not return for at once.
Forwarded(type) == type \in {"Realtime", "Replay"}

\* The slot of the stream is connected and enqueue() accepts events.
Accepts == nstage \in {"subscribing", "open"} /\ ~wantToClose

notifCb ==
  /\ running # Idle
  /\ running' = Idle
  /\ accepted' = IF Forwarded(running.type) /\ Accepts
                 THEN Append(accepted, running.of) ELSE accepted
  /\ UNCHANGED <<times, nstage, todo, subs, first, fresh, next, reported,
                 published, signal, wantToClose, thrown, status>>

-----------------------------------------------------------------------------
(* The event loop. *)

\* The constructor's refusal of the times.
BadTimes ==
  \/ times.start # Absent /\ times.stop = "before"
  \/ times.start = "future"
  \/ times.start = Absent /\ times.stop # Absent

Unwind(error) == nstage' = "unwinding" /\ thrown' = error

\* create(): the signal, the base class connects to it, then the times.
Construct ==
  /\ nstage = "idle"
  /\ signal' = TRUE
  /\ IF BadTimes THEN Unwind(400)
                 ELSE nstage' = "subscribing" /\ UNCHANGED thrown
  /\ UNCHANGED <<times, feed, todo, subs, wantToClose, accepted, status>>

canBeSubscribed(m) == m \in Implemented /\ m # SysrepoModule

\* Session::onNotification(): from here on sysrepo's thread calls notifCb.
subscribe(m) ==
  LET now == published[m] + 1 IN
  LET from == IF times.start = Absent THEN now ELSE 1 IN
  /\ subs' = subs \cup {m}
  /\ first' = [first EXCEPT ![m] = from]
  /\ fresh' = [fresh EXCEPT ![m] = now]
  /\ next' = [next EXCEPT ![m] = from]

\* Mutant of SubscribeNext: a module without notifications ends the loop.
SubscribeNextBreaks ==
  /\ nstage = "subscribing"
  /\ todo <= Len(ModuleList)
  /\ LET m == ModuleList[todo] IN
     \/ /\ canBeSubscribed(m) /\ m \in Notifying
        /\ subscribe(m)
        /\ todo' = todo + 1
        /\ UNCHANGED <<nstage, thrown>>
     \/ /\ canBeSubscribed(m) => m \notin Notifying
        /\ todo' = Len(ModuleList) + 1
        /\ UNCHANGED <<nstage, thrown, subs, first, fresh, next>>
  /\ UNCHANGED <<times, reported, published, running, signal, wantToClose,
                 accepted, status>>

(***************************************************************************)
(* One turn of the loop in activate().  sysrepo may find for this module,  *)
(* not only for the first, that it cannot use the filter or the times      *)
(* (InvalidArgument: 400), does not find notifications in it (NotFound:    *)
(* ignored), or fails otherwise: that exception is rethrown and nobody on  *)
(* the way out of the handler catches it.                                  *)
(***************************************************************************)
SubscribeNext ==
  /\ nstage = "subscribing"
  /\ todo <= Len(ModuleList)
  /\ LET m == ModuleList[todo] IN
     \/ /\ canBeSubscribed(m) /\ m \in Notifying
        /\ subscribe(m)
        /\ todo' = todo + 1
        /\ UNCHANGED <<nstage, thrown>>
     \/ /\ canBeSubscribed(m) => m \notin Notifying
        /\ todo' = todo + 1
        /\ UNCHANGED <<nstage, thrown, subs, first, fresh, next>>
     \/ /\ canBeSubscribed(m)
        /\ \E error \in {400, 1} : Unwind(error)
        /\ UNCHANGED <<todo, subs, first, fresh, next>>
  /\ UNCHANGED <<times, reported, published, running, signal, wantToClose,
                 accepted, status>>

\* EventStream::activate() answers.
ActivateStream ==
  /\ nstage = "subscribing"
  /\ todo > Len(ModuleList)
  /\ nstage' = "open"
  /\ status' = 200
  /\ UNCHANGED <<times, feed, todo, subs, signal, wantToClose, accepted, thrown>>

\* The termination slot, in the thread that stops the server.
EndNotifications ==
  /\ nstage \in {"subscribing", "open"}
  /\ ~wantToClose
  /\ wantToClose' = TRUE
  /\ UNCHANGED <<times, feed, nstage, todo, subs, signal, accepted, thrown,
                 status>>

\* on_close() disconnects the slots; then the last owner of the stream goes.
CloseNotifications ==
  /\ nstage = "open"
  /\ nstage' = "unwinding"
  /\ UNCHANGED <<times, feed, todo, subs, signal, wantToClose, accepted,
                 thrown, status>>

\* Mutant of DestroySubscriptions: the signal does not wait for notifCb.
SignalGoesFirst ==
  /\ nstage = "unwinding"
  /\ nstage' = "released"
  /\ subs' = {}
  /\ signal' = FALSE
  /\ UNCHANGED <<times, feed, todo, wantToClose, accepted, thrown, status>>

\* m_notifSubs is the last member, so it is destroyed first.
DestroySubscriptions ==
  /\ nstage = "unwinding"
  /\ running = Idle
  /\ nstage' = "released"
  /\ subs' = {}
  /\ UNCHANGED <<times, feed, todo, signal, wantToClose, accepted, thrown,
                 status>>

(***************************************************************************)
(* The other members and the base class go, then the handler's catch       *)
(* clauses answer.  What sysrepo knew of the subscriptions is gone too.    *)
(***************************************************************************)
DestroyStream ==
  /\ nstage = "released"
  /\ nstage' = "gone"
  /\ signal' = FALSE
  /\ status' = IF thrown # 0 THEN thrown ELSE status
  /\ accepted' = <<>>
  /\ reported' = {}
  /\ first' = Start /\ fresh' = Start /\ next' = Start
  /\ todo' = 1 /\ wantToClose' = FALSE /\ thrown' = 0
  /\ UNCHANGED <<times, published, running, subs>>

-----------------------------------------------------------------------------

NotificationTypeOK ==
  /\ times \in Times
  /\ nstage \in NotificationStages
  /\ todo \in 1 .. Len(ModuleList) + 1
  /\ subs \subseteq Modules
  /\ first \in [Modules -> 1 .. MaxNotifications + 1]
  /\ fresh \in [Modules -> 1 .. MaxNotifications + 1]
  /\ next \in [Modules -> 1 .. MaxNotifications + 1]
  /\ reported \subseteq Modules \X {"ReplayComplete", "Terminated"}
  /\ published \in [Modules -> 0 .. MaxNotifications]
  /\ running = Idle \/ running.type \in {"Replay", "Realtime",
                                        "ReplayComplete", "Terminated"}
  /\ signal \in BOOLEAN /\ wantToClose \in BOOLEAN
  /\ accepted \in Seq(Modules \X (0 .. MaxNotifications))
  /\ thrown \in {0, 1, 400} /\ status \in {0, 1, 200, 400}

\* The signal that a running notifCb holds a reference to exists: whatever
\* way create() or the stream ends, the subscriptions go before the signal.
CallbackFindsSignal == running # Idle => signal

(***************************************************************************)
(* A client that got 200 hears every module that sends notifications.  One *)
(* that got an error, and one that left, keeps no subscription in sysrepo: *)
(* the modules subscribed before activate() threw are given up again.      *)
(***************************************************************************)
SubscriptionsMatchAnswer ==
  /\ nstage = "open" =>
       subs = {m \in Modules : canBeSubscribed(m) /\ m \in Notifying}
  /\ nstage = "gone" => subs = {} /\ running = Idle

(***************************************************************************)
(* Of every module the client gets the notifications in the order they     *)
(* were sent, none twice and none left out, stored ones before new ones,   *)
(* and nothing that is not a notification.                                 *)
(***************************************************************************)
NotificationsInOrder ==
  \A i \in 1 .. Len(accepted) :
    LET m == accepted[i][1]
        k == accepted[i][2] IN
    /\ k >= first[m]
    /\ k > first[m] => \E j \in 1 .. i - 1 : accepted[j] = <<m, k - 1>>
    /\ \A j \in 1 .. i - 1 : accepted[j][1] = m => accepted[j][2] < k

Received(m) == {n[2] : n \in {a \in Range(accepted) : a[1] = m}}

(***************************************************************************)
(* Every notification a subscribed module sent, and every stored one when  *)
(* the client gave a start-time, is enqueued unless the stream ends first: *)
(* also those that come while activate() still subscribes other modules.   *)
(***************************************************************************)
NotificationsArrive ==
  \A m \in Notifying :
    m \in subs ~> (\/ ~Accepts \/ <<m, "Terminated">> \in reported
                  \/ Received(m) = first[m] .. published[m])
=============================================================================
