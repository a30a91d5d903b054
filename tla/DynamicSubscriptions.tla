----------------------- MODULE DynamicSubscriptions ------------------------
(***************************************************************************)
(* Dynamic subscriptions (src/src/restconf/DynamicSubscriptions.cpp): the  *)
(* table of subscriptions, the life of one SubscriptionData object, and    *)
(* the HTTP streams that consume it.                                       *)
(*                                                                         *)
(* Two threads act: the event loop, which runs requests, timer and read    *)
(* handlers one after the other, and the stopper, the thread that calls    *)
(* Server::stop().  A handler is cut into steps wherever it takes or       *)
(* releases a mutex or enters or leaves sysrepo; pc says where the loop    *)
(* is, spc where the stopper is.  A step that needs a mutex only for its   *)
(* own duration just requires it to be free.                               *)
(***************************************************************************)
EXTENDS Integers, FiniteSets

CONSTANTS
  Subs,          \* subscriptions, by UUID (sysrepo's id names the same thing)
  Conns,         \* GET requests that may become an HTTP stream
  Users,
  RecoveryUser,  \* sysrepo's NACM recovery user
  None,
  MAX_EVENTS,    \* as in awaitNextNotification()
  MaxPipe,       \* bound: notifications waiting in a pipe
  MaxStops       \* bound: calls of Server::stop()

ASSUME SubscriptionAssumption ==
  /\ None \notin Subs \cup Conns \cup Users
  /\ RecoveryUser \in Users
  /\ MAX_EVENTS \in Nat
  /\ MaxPipe \in Nat
  /\ MaxStops \in Nat

VARIABLES
  registered,  \* the keys of m_subscriptions
  alive,       \* the SubscriptionData objects that exist
  owner,       \* SubscriptionData::user
  state,       \* SubscriptionData::state
  timer,       \* the wait of clientInactiveTimer
  expired,     \* expired waits whose handler is queued in the event loop
  sr,          \* the subscription inside sysrepo
  pipe,        \* notifications in the subscription's pipe
  mapMutex,    \* who holds m_mutex
  mutex,       \* who holds SubscriptionData::mutex
  life,        \* life cycle of an HTTP stream
  sub,         \* DynamicSubscriptionHttpStream::m_subscriptionData
  ending,      \* streams in EventStream::state WantToClose
  wait,        \* the async_wait on the pipe
  pc, cur, con, batch,    \* the handler the event loop runs
  spc, scon, slots, rest, \* the Server::stop() the stopper runs
  stops        \* how often Server::stop() was called

subVars == <<registered, alive, owner>>
sysrepoVars == <<sr, pipe>>
timerVars == <<timer, expired>>
connVars == <<life, sub, ending>>
loopVars == <<pc, cur, con, batch>>
stopVars == <<spc, scon, slots, rest, stops>>
vars == <<subVars, state, timerVars, sysrepoVars, mapMutex, mutex, connVars,
          wait, loopVars, stopVars>>

States == {"Start", "ReceiverActive", "Terminating"}

(***************************************************************************)
(* The life of an HTTP stream: its constructor connected it to the         *)
(* shutdown signal ("constructed"), activate() ran ("open"), on_close()    *)
(* ran ("closed"), the last shared_ptr is gone ("destroyed").              *)
(***************************************************************************)
Lives == {"none", "constructed", "open", "closed", "destroyed"}

\* The stream's slot is connected to the signal shutdownRequested.
Connected(c) == life[c] \in {"constructed", "open"}

\* A shared_ptr to the SubscriptionData exists.
Referenced(s) ==
  \/ s \in registered
  \/ s = cur
  \/ \E c \in Conns : sub[c] = s /\ life[c] \notin {"none", "destroyed"}

\* Between two handlers; a handler that drops the last reference also runs
\* the destructor.
LoopIdle == pc = "idle" /\ \A s \in alive : Referenced(s)

\* A handler returns.
Return == pc' = "idle" /\ cur' = None /\ con' = None /\ UNCHANGED batch

\* A handler goes on at step p with a shared_ptr to s.
GoOn(p, s, c) == pc' = p /\ cur' = s /\ con' = c /\ UNCHANGED batch

-----------------------------------------------------------------------------
(* sysrepo, as the code uses it *)

\* A notification passes the subscription's filters.
Notify(s) ==
  /\ sr[s] = "live"
  /\ pipe[s] < MaxPipe
  /\ pipe' = [pipe EXCEPT ![s] = @ + 1]
  /\ UNCHANGED <<subVars, state, timerVars, sr, mapMutex, mutex, connVars,
                 wait, loopVars, stopVars>>

\* The stop-time of the subscription passes.
StopTime(s) ==
  /\ sr[s] = "live"
  /\ sr' = [sr EXCEPT ![s] = "ended"]
  /\ UNCHANGED <<subVars, state, timerVars, pipe, mapMutex, mutex, connVars,
                 wait, loopVars, stopVars>>

(***************************************************************************)
(* subscription.terminate() returned: the writing end of the pipe is       *)
(* closed, possibly after a last notification.  For a subscription that    *)
(* ended before it throws, and changes nothing.                            *)
(***************************************************************************)
SrTerminated(s) ==
  IF sr[s] = "live"
  THEN /\ sr' = [sr EXCEPT ![s] = "terminated"]
       /\ \E last \in {0, 1} : pipe' = [pipe EXCEPT ![s] = @ + last]
  ELSE UNCHANGED <<sr, pipe>>

-----------------------------------------------------------------------------
(* SubscriptionData *)

\* clientInactiveTimer.cancel(): a handler that is already queued stays.
InactivityCancel(s) == timer' = [timer EXCEPT ![s] = "off"]

\* Mutant of InactivityStart: the handler never finds its object.
InactivityStartHollow(s, wt) == timer' = [timer EXCEPT ![s] = "hollow"]

(***************************************************************************)
(* inactivityStart().  In the constructor weak_from_this() is empty, so    *)
(* the handler of that wait finds no object: the wait is "hollow".         *)
(***************************************************************************)
InactivityStart(s, wt) == timer' = [timer EXCEPT ![s] = wt]

\* Time passes: the wait completes and its handler is queued.
TimerExpires(s) ==
  /\ timer[s] # "off"
  /\ timer' = [timer EXCEPT ![s] = "off"]
  /\ expired' = IF timer[s] = "armed" THEN [expired EXCEPT ![s] = @ + 1]
                                      ELSE expired
  /\ UNCHANGED <<subVars, state, sysrepoVars, mapMutex, mutex, connVars,
                 wait, loopVars, stopVars>>

\* ~SubscriptionData(), then the destructor of its sysrepo subscription,
\* which ends a subscription that is still live.
Destructor(s) ==
  /\ pc = "idle"
  /\ s \in alive
  /\ ~Referenced(s)
  /\ mutex[s] = "free"
  /\ alive' = alive \ {s}
  /\ InactivityCancel(s)
  /\ state' = [state EXCEPT ![s] = "Terminating"]
  /\ SrTerminated(s)
  /\ UNCHANGED <<registered, owner, expired, mapMutex, mutex, connVars, wait,
                 loopVars, stopVars>>

-----------------------------------------------------------------------------
(* RPCs, run by the event loop *)

\* getSubscriptionForUser()
Visible(s, u) == s \in registered /\ (owner[s] = u \/ u = RecoveryUser)

EstablishSubscription(s, u) ==
  /\ LoopIdle
  /\ owner[s] = None
  /\ mapMutex = "free"
  /\ registered' = registered \cup {s}
  /\ alive' = alive \cup {s}
  /\ owner' = [owner EXCEPT ![s] = u]
  /\ state' = [state EXCEPT ![s] = "Start"]
  /\ InactivityStart(s, "hollow")
  /\ sr' = [sr EXCEPT ![s] = "live"]
  /\ UNCHANGED <<expired, pipe, mapMutex, mutex, connVars, wait, loopVars,
                 stopVars>>

\* Mutant of DeleteSubscription: the subscription is only erased.
DeleteWithoutTerminate(s, u, isKill) ==
  /\ LoopIdle
  /\ mapMutex = "free"
  /\ Visible(s, u)
  /\ isKill \/ u # RecoveryUser \/ owner[s] = RecoveryUser
  /\ GoOn("erase", s, None)
  /\ UNCHANGED <<subVars, state, timerVars, sysrepoVars, mapMutex, mutex,
                 connVars, wait, stopVars>>

\* deleteSubscription() up to the call of subscription.terminate(), which
\* no mutex protects.
DeleteSubscription(s, u, isKill) ==
  /\ LoopIdle
  /\ mapMutex = "free"
  /\ Visible(s, u)
  /\ isKill \/ u # RecoveryUser \/ owner[s] = RecoveryUser
  /\ GoOn("delete", s, None)
  /\ UNCHANGED <<subVars, state, timerVars, sysrepoVars, mapMutex, mutex,
                 connVars, wait, stopVars>>

\* It throws if sysrepo ended the subscription before; then nothing is erased.
DeleteTerminated ==
  /\ pc = "delete"
  /\ SrTerminated(cur)
  /\ IF sr[cur] = "live" THEN GoOn("erase", cur, None) ELSE Return
  /\ UNCHANGED <<subVars, state, timerVars, mapMutex, mutex, connVars, wait,
                 stopVars>>

DeleteErase ==
  /\ pc = "erase"
  /\ mapMutex = "free"
  /\ registered' = registered \ {cur}
  /\ Return
  /\ UNCHANGED <<alive, owner, state, timerVars, sysrepoVars, mapMutex, mutex,
                 connVars, wait, stopVars>>

-----------------------------------------------------------------------------
(* The handler of the inactivity timer *)

(***************************************************************************)
(* The handler locks its weak_ptr and calls terminateSubscription(), which *)
(* takes m_mutex, looks the subscription up and calls terminate() without  *)
(* SubscriptionData::mutex.  terminate() first reads the state.            *)
(***************************************************************************)
ClientInactive(s) ==
  /\ LoopIdle
  /\ expired[s] > 0
  /\ expired' = [expired EXCEPT ![s] = @ - 1]
  /\ IF s \notin alive
     THEN UNCHANGED <<mapMutex, loopVars>>
     ELSE /\ mapMutex = "free"
          /\ IF s \notin registered
             THEN UNCHANGED <<mapMutex, loopVars>>
             ELSE /\ mapMutex' = "loop"
                  /\ GoOn(IF state[s] = "Terminating" THEN "remove"
                                                      ELSE "terminate",
                          s, None)
  /\ UNCHANGED <<subVars, state, timer, sysrepoVars, mutex, connVars, wait,
                 stopVars>>

\* terminate() sets the state and enters sysrepo.
ClientInactiveTerminate ==
  /\ pc = "terminate"
  /\ state' = [state EXCEPT ![cur] = "Terminating"]
  /\ GoOn("terminating", cur, None)
  /\ UNCHANGED <<subVars, timerVars, sysrepoVars, mapMutex, mutex, connVars,
                 wait, stopVars>>

\* terminate() catches what sysrepo throws.
ClientInactiveTerminated ==
  /\ pc = "terminating"
  /\ SrTerminated(cur)
  /\ GoOn("remove", cur, None)
  /\ UNCHANGED <<subVars, state, timerVars, mapMutex, mutex, connVars, wait,
                 stopVars>>

\* Mutant of ClientInactiveErase: m_mutex stays locked.
EraseKeepsLock ==
  /\ pc = "remove"
  /\ registered' = registered \ {cur}
  /\ Return
  /\ UNCHANGED <<alive, owner, state, timerVars, sysrepoVars, mapMutex, mutex,
                 connVars, wait, stopVars>>

\* The end of terminateSubscription() and of the handler.
ClientInactiveErase ==
  /\ pc = "remove"
  /\ registered' = registered \ {cur}
  /\ mapMutex' = "free"
  /\ Return
  /\ UNCHANGED <<alive, owner, state, timerVars, sysrepoVars, mutex, connVars,
                 wait, stopVars>>

-----------------------------------------------------------------------------
(* GET on a subscription: the handler of /streams/subscribed/<uuid> *)

\* authorizeRequest() and getSubscriptionForUser(); 404 unless Visible.
Get(c, s, u) ==
  /\ LoopIdle
  /\ life[c] = "none"
  /\ mapMutex = "free"
  /\ Visible(s, u)
  /\ GoOn("get", s, c)
  /\ UNCHANGED <<subVars, state, timerVars, sysrepoVars, mapMutex, mutex,
                 connVars, wait, stopVars>>

\* Mutant of GetIsReady: only a terminating subscription is refused.
IsReadyUnlessTerminating ==
  /\ pc = "get"
  /\ mutex[cur] = "free"
  /\ IF state[cur] # "Terminating" THEN GoOn("create", cur, con) ELSE Return
  /\ UNCHANGED <<subVars, state, timerVars, sysrepoVars, mapMutex, mutex,
                 connVars, wait, stopVars>>

\* isReadyToAcceptClient(); 409 unless it is.
GetIsReady ==
  /\ pc = "get"
  /\ mutex[cur] = "free"
  /\ IF state[cur] = "Start" THEN GoOn("create", cur, con) ELSE Return
  /\ UNCHANGED <<subVars, state, timerVars, sysrepoVars, mapMutex, mutex,
                 connVars, wait, stopVars>>

\* The constructors of DynamicSubscriptionHttpStream and EventStream.
GetConstruct ==
  /\ pc = "create"
  /\ life' = [life EXCEPT ![con] = "constructed"]
  /\ sub' = [sub EXCEPT ![con] = cur]
  /\ GoOn("activate", cur, con)
  /\ UNCHANGED <<subVars, state, timerVars, sysrepoVars, mapMutex, mutex,
                 ending, wait, stopVars>>

\* Mutant of GetActivate: clientConnected() forgets inactivityCancel().
ActivateKeepsTimer ==
  /\ pc = "activate"
  /\ mutex[cur] = "free"
  /\ state' = [state EXCEPT ![cur] = "ReceiverActive"]
  /\ life' = [life EXCEPT ![con] = "open"]
  /\ wait' = [wait EXCEPT ![con] = "pending"]
  /\ Return
  /\ UNCHANGED <<subVars, timerVars, sysrepoVars, mapMutex, mutex, sub,
                 ending, stopVars>>

\* activate(): clientConnected(), EventStream::activate(), async_wait.
GetActivate ==
  /\ pc = "activate"
  /\ mutex[cur] = "free"
  /\ InactivityCancel(cur)
  /\ state' = [state EXCEPT ![cur] = "ReceiverActive"]
  /\ life' = [life EXCEPT ![con] = "open"]
  /\ wait' = [wait EXCEPT ![con] = "pending"]
  /\ Return
  /\ UNCHANGED <<subVars, expired, sysrepoVars, mapMutex, mutex, sub, ending,
                 stopVars>>

-----------------------------------------------------------------------------
(* The open HTTP stream *)

\* Mutant of WaitCompletes: operation_aborted is not looked at.
WaitIgnoresAbort(c) ==
  /\ LoopIdle
  /\ \/ wait[c] = "aborted"
     \/ wait[c] = "pending" /\ (pipe[sub[c]] > 0 \/ sr[sub[c]] # "live")
  /\ wait' = [wait EXCEPT ![c] = "off"]
  /\ IF pipe[sub[c]] = 0 /\ sr[sub[c]] # "live"
     THEN UNCHANGED loopVars
     ELSE pc' = "events" /\ con' = c /\ batch' = 0 /\ UNCHANGED cur
  /\ UNCHANGED <<subVars, state, timerVars, sysrepoVars, mapMutex, mutex,
                 connVars, stopVars>>

(***************************************************************************)
(* The handler of async_wait up to its loop: the pipe has data or was      *)
(* closed, or the wait was aborted.  An aborted wait must not touch the    *)
(* stream, which is gone.                                                  *)
(***************************************************************************)
WaitCompletes(c) ==
  /\ LoopIdle
  /\ \/ wait[c] = "aborted"
     \/ wait[c] = "pending" /\ (pipe[sub[c]] > 0 \/ sr[sub[c]] # "live")
  /\ wait' = [wait EXCEPT ![c] = "off"]
  /\ IF wait[c] = "aborted" \/ (pipe[sub[c]] = 0 /\ sr[sub[c]] # "live")
     THEN UNCHANGED loopVars
     ELSE pc' = "events" /\ con' = c /\ batch' = 0 /\ UNCHANGED cur
  /\ UNCHANGED <<subVars, state, timerVars, sysrepoVars, mapMutex, mutex,
                 connVars, stopVars>>

\* Mutant of NextEvent: the mutex is not taken.
NextEventUnlocked ==
  /\ pc = "events"
  /\ batch' = batch + 1
  /\ IF batch + 1 < MAX_EVENTS /\ pipe[sub[con]] > 0
     THEN pc' = "processEvent" /\ UNCHANGED <<wait, con>>
     ELSE /\ wait' = [wait EXCEPT ![con] = "pending"]
          /\ pc' = "idle"
          /\ con' = None
  /\ UNCHANGED <<subVars, state, timerVars, sysrepoVars, mapMutex, mutex,
                 connVars, cur, stopVars>>

\* Mutant of NextEvent: the pipe is not looked at again.
NextEventUnchecked ==
  /\ pc = "events"
  /\ batch' = batch + 1
  /\ IF batch + 1 < MAX_EVENTS
     THEN /\ mutex[sub[con]] = "free"
          /\ mutex' = [mutex EXCEPT ![sub[con]] = "loop"]
          /\ pc' = "processEvent"
          /\ UNCHANGED <<wait, con>>
     ELSE /\ wait' = [wait EXCEPT ![con] = "pending"]
          /\ pc' = "idle"
          /\ con' = None
          /\ UNCHANGED mutex
  /\ UNCHANGED <<subVars, state, timerVars, sysrepoVars, mapMutex, connVars,
                 cur, stopVars>>

\* while (++eventsProcessed < MAX_EVENTS && pipeHasData(...)), the lock of
\* the subscription's mutex; after the loop awaitNextNotification() again.
NextEvent ==
  /\ pc = "events"
  /\ batch' = batch + 1
  /\ IF batch + 1 < MAX_EVENTS /\ pipe[sub[con]] > 0
     THEN /\ mutex[sub[con]] = "free"
          /\ mutex' = [mutex EXCEPT ![sub[con]] = "loop"]
          /\ pc' = "processEvent"
          /\ UNCHANGED <<wait, con>>
     ELSE /\ wait' = [wait EXCEPT ![con] = "pending"]
          /\ pc' = "idle"
          /\ con' = None
          /\ UNCHANGED mutex
  /\ UNCHANGED <<subVars, state, timerVars, sysrepoVars, mapMutex, connVars,
                 cur, stopVars>>

\* processEvent() read one notification and emitted it to the stream.
ProcessEvent ==
  /\ pc = "processEvent"
  /\ pipe' = [pipe EXCEPT ![sub[con]] = @ - 1]
  /\ mutex' = [mutex EXCEPT ![sub[con]] = "free"]
  /\ pc' = "events"
  /\ UNCHANGED <<subVars, state, timerVars, sr, mapMutex, connVars, wait, cur,
                 con, batch, stopVars>>

\* on_close() up to onClientDisconnectedCb
OnClose(c) ==
  /\ LoopIdle
  /\ life[c] = "open"
  /\ life' = [life EXCEPT ![c] = "closed"]
  /\ ending' = ending \ {c}
  /\ pc' = "disconnected"
  /\ con' = c
  /\ UNCHANGED <<subVars, state, timerVars, sysrepoVars, mapMutex, mutex, sub,
                 wait, cur, batch, stopVars>>

ClientDisconnected ==
  /\ pc = "disconnected"
  /\ mutex[sub[con]] = "free"
  /\ IF state[sub[con]] = "Terminating"
     THEN UNCHANGED <<state, timer>>
     ELSE /\ state' = [state EXCEPT ![sub[con]] = "Start"]
          /\ InactivityStart(sub[con], "armed")
  /\ Return
  /\ UNCHANGED <<subVars, expired, sysrepoVars, mapMutex, mutex, connVars,
                 wait, stopVars>>

\* nghttp2 drops the response; ~DynamicSubscriptionHttpStream releases the
\* descriptor, which aborts the wait.
DestroyStream(c) ==
  /\ LoopIdle
  /\ life[c] = "closed"
  /\ life' = [life EXCEPT ![c] = "destroyed"]
  /\ wait' = [wait EXCEPT ![c] = IF @ = "pending" THEN "aborted" ELSE @]
  /\ UNCHANGED <<subVars, state, timerVars, sysrepoVars, mapMutex, mutex, sub,
                 ending, loopVars, stopVars>>

-----------------------------------------------------------------------------
(* Server::stop(), run by another thread *)

\* server->stop() is posted; shutdownRequested() calls the slots connected
\* at this moment.
Stop ==
  /\ spc = "idle"
  /\ stops < MaxStops
  /\ stops' = stops + 1
  /\ spc' = "emit"
  /\ slots' = {c \in Conns : Connected(c)}
  /\ UNCHANGED <<subVars, state, timerVars, sysrepoVars, mapMutex, mutex,
                 connVars, wait, loopVars, scon, rest>>

\* The signal calls a slot unless it was disconnected meanwhile.
CallSlot(c) ==
  /\ spc = "emit"
  /\ c \in slots
  /\ slots' = slots \ {c}
  /\ IF Connected(c) THEN spc' = "slot" /\ scon' = c
                     ELSE UNCHANGED <<spc, scon>>
  /\ UNCHANGED <<subVars, state, timerVars, sysrepoVars, mapMutex, mutex,
                 connVars, wait, loopVars, rest, stops>>

(***************************************************************************)
(* onTerminationCb: the mutex, and terminate() up to its sysrepo call.     *)
(* If the stream is destroyed meanwhile the slot uses freed memory: see    *)
(* EventStream!LateSlotFindsStream.  Here it then does nothing.            *)
(***************************************************************************)
SlotTerminate ==
  /\ spc = "slot"
  /\ IF life[scon] = "destroyed"
     THEN spc' = "emit" /\ UNCHANGED <<state, mutex>>
     ELSE /\ mutex[sub[scon]] = "free"
          /\ IF state[sub[scon]] = "Terminating"
             THEN spc' = "want_close" /\ UNCHANGED <<state, mutex>>
             ELSE /\ spc' = "slot_terminating"
                  /\ state' = [state EXCEPT ![sub[scon]] = "Terminating"]
                  /\ mutex' = [mutex EXCEPT ![sub[scon]] = "stop"]
  /\ UNCHANGED <<subVars, timerVars, sysrepoVars, mapMutex, connVars, wait,
                 loopVars, scon, slots, rest, stops>>

SlotTerminated ==
  /\ spc = "slot_terminating"
  /\ SrTerminated(sub[scon])
  /\ mutex' = [mutex EXCEPT ![sub[scon]] = "free"]
  /\ spc' = "want_close"
  /\ UNCHANGED <<subVars, state, timerVars, mapMutex, connVars, wait,
                 loopVars, scon, slots, rest, stops>>

\* The rest of the slot: EventStream::state = WantToClose.
SlotWantToClose ==
  /\ spc = "want_close"
  /\ ending' = IF Connected(scon) THEN ending \cup {scon} ELSE ending
  /\ spc' = "emit"
  /\ UNCHANGED <<subVars, state, timerVars, sysrepoVars, mapMutex, mutex,
                 life, sub, wait, loopVars, scon, slots, rest, stops>>

\* m_dynamicSubscriptions.stop()
StopSubscriptions ==
  /\ spc = "emit"
  /\ slots = {}
  /\ mapMutex = "free"
  /\ mapMutex' = "stop"
  /\ spc' = "subscriptions"
  /\ rest' = registered
  /\ UNCHANGED <<subVars, state, timerVars, sysrepoVars, mutex, connVars,
                 wait, loopVars, scon, slots, stops>>

\* SubscriptionData::stop()
StopSubscription(s) ==
  /\ spc = "subscriptions"
  /\ s \in rest
  /\ mutex[s] = "free"
  /\ rest' = rest \ {s}
  /\ InactivityCancel(s)
  /\ state' = [state EXCEPT ![s] = "Terminating"]
  /\ UNCHANGED <<subVars, expired, sysrepoVars, mapMutex, mutex, connVars,
                 wait, loopVars, spc, scon, slots, stops>>

StopReturns ==
  /\ spc = "subscriptions"
  /\ rest = {}
  /\ mapMutex' = "free"
  /\ spc' = "idle"
  /\ UNCHANGED <<subVars, state, timerVars, sysrepoVars, mutex, connVars,
                 wait, loopVars, scon, slots, rest, stops>>

\* The posted server->stop(): the loop runs no further handler.
LoopStops ==
  /\ LoopIdle
  /\ stops > 0
  /\ pc' = "stopped"
  /\ UNCHANGED <<subVars, state, timerVars, sysrepoVars, mapMutex, mutex,
                 connVars, wait, cur, con, batch, stopVars>>

-----------------------------------------------------------------------------

Init ==
  /\ registered = {}
  /\ alive = {}
  /\ owner = [s \in Subs |-> None]
  /\ state = [s \in Subs |-> "Start"]
  /\ timer = [s \in Subs |-> "off"]
  /\ expired = [s \in Subs |-> 0]
  /\ sr = [s \in Subs |-> "none"]
  /\ pipe = [s \in Subs |-> 0]
  /\ mapMutex = "free"
  /\ mutex = [s \in Subs |-> "free"]
  /\ life = [c \in Conns |-> "none"]
  /\ sub = [c \in Conns |-> None]
  /\ ending = {}
  /\ wait = [c \in Conns |-> "off"]
  /\ pc = "idle" /\ cur = None /\ con = None /\ batch = 0
  /\ spc = "idle" /\ scon = None /\ slots = {} /\ rest = {} /\ stops = 0

\* The steps that finish a handler the event loop has begun.
Handler ==
  \/ DeleteTerminated
  \/ DeleteErase
  \/ ClientInactiveTerminate
  \/ ClientInactiveTerminated
  \/ ClientInactiveErase
  \/ GetIsReady
  \/ GetConstruct
  \/ GetActivate
  \/ NextEvent
  \/ ProcessEvent
  \/ ClientDisconnected
  \/ \E s \in Subs : Destructor(s)

Request ==
  \E s \in Subs, u \in Users :
    \/ EstablishSubscription(s, u)
    \/ \E isKill \in BOOLEAN : DeleteSubscription(s, u, isKill)
    \/ \E c \in Conns : Get(c, s, u)

Stream(c) ==
  \/ WaitCompletes(c)
  \/ OnClose(c)
  \/ DestroyStream(c)

Stopper ==
  \/ \E c \in Conns : CallSlot(c)
  \/ SlotTerminate
  \/ SlotTerminated
  \/ SlotWantToClose
  \/ StopSubscriptions
  \/ \E s \in Subs : StopSubscription(s)
  \/ StopReturns

Next ==
  \/ Handler
  \/ Request
  \/ \E c \in Conns : Stream(c)
  \/ \E s \in Subs : ClientInactive(s)
  \/ LoopStops
  \/ Stop
  \/ Stopper
  \/ \E s \in Subs : Notify(s) \/ StopTime(s) \/ TimerExpires(s)

Spec == Init /\ [][Next]_vars

(***************************************************************************)
(* A handler that began goes on; a running Server::stop() does too, and a  *)
(* mutex that the event loop releases again and again is not withheld from *)
(* it for ever (strong fairness).  Timers expire.  The queue of the event  *)
(* loop is first in, first out: an expired wait gets its turn if the loop  *)
(* keeps turning (strong fairness).  Nobody need send a request, leave or  *)
(* stop the server.                                                        *)
(***************************************************************************)
Fairness ==
  /\ WF_vars(Handler)
  /\ SF_vars(Stopper)
  /\ \A s \in Subs : WF_vars(TimerExpires(s)) /\ SF_vars(ClientInactive(s))

FairSpec == Spec /\ Fairness

-----------------------------------------------------------------------------

TypeOK ==
  /\ registered \subseteq Subs
  /\ alive \subseteq Subs
  /\ owner \in [Subs -> Users \cup {None}]
  /\ state \in [Subs -> States]
  /\ timer \in [Subs -> {"off", "hollow", "armed"}]
  /\ expired \in [Subs -> Nat]
  /\ sr \in [Subs -> {"none", "live", "ended", "terminated"}]
  /\ pipe \in [Subs -> Nat]
  /\ mapMutex \in {"free", "loop", "stop"}
  /\ mutex \in [Subs -> {"free", "loop", "stop"}]
  /\ life \in [Conns -> Lives]
  /\ sub \in [Conns -> Subs \cup {None}]
  /\ ending \subseteq Conns
  /\ wait \in [Conns -> {"off", "pending", "aborted"}]
  /\ pc \in {"idle", "delete", "erase", "terminate", "terminating", "remove",
             "get", "create", "activate", "events", "processEvent",
             "disconnected", "stopped"}
  /\ cur \in Subs \cup {None}
  /\ con \in Conns \cup {None}
  /\ batch \in Nat
  /\ spc \in {"idle", "emit", "slot", "slot_terminating", "want_close",
              "subscriptions"}
  /\ scon \in Conns \cup {None}
  /\ slots \subseteq Conns
  /\ rest \subseteq Subs
  /\ stops \in Nat

(***************************************************************************)
(* At most one HTTP stream consumes a subscription at any time, although   *)
(* isReadyToAcceptClient() and clientConnected() lock the mutex separately *)
(* and the stopper runs between them: two readers of one pipe would share  *)
(* out the notifications.                                                  *)
(***************************************************************************)
OneReceiver ==
  \A c, d \in Conns :
    Connected(c) /\ Connected(d) /\ sub[c] = sub[d] => c = d

(***************************************************************************)
(* Nothing is used after it was freed by the event loop: the table, every  *)
(* existing stream and every running handler refer to SubscriptionData     *)
(* objects that exist, and a read or close handler to a stream that does.  *)
(***************************************************************************)
NoUseAfterFree ==
  /\ registered \subseteq alive
  /\ cur # None => cur \in alive
  /\ \A c \in Conns : life[c] \notin {"none", "destroyed"} => sub[c] \in alive
  /\ pc \in {"events", "processEvent", "disconnected"} =>
       life[con] \in {"open", "closed"}

(***************************************************************************)
(* "sysrepo-cpp's processEvent and terminate is not thread safe": the loop *)
(* does not process an event of a subscription that the termination slot   *)
(* of a stream is just terminating.                                        *)
(***************************************************************************)
EventsExcludeTermination ==
  ~ /\ pc = "processEvent"
    /\ spc = "slot_terminating"
    /\ sub[con] = sub[scon]

(***************************************************************************)
(* While the server is not being stopped, a subscription that was removed  *)
(* from the table, by delete, kill or inactivity, does not stay live in    *)
(* sysrepo, where no client could reach it any more.                       *)
(***************************************************************************)
RemovedIsTerminated ==
  stops = 0 =>
    \A s \in Subs : sr[s] = "live" => s \in registered

(***************************************************************************)
(* The inactivity timer does not run while a client is being served:       *)
(* whoever sets ReceiverActive cancelled it, and only the end of the       *)
(* service starts it again.                                                *)
(***************************************************************************)
NotTimedWhileActive ==
  \A s \in Subs : state[s] = "ReceiverActive" => timer[s] = "off"

(***************************************************************************)
(* A subscription whose client disconnected is removed by the inactivity   *)
(* timer that clientDisconnected() starts, unless a client comes back or   *)
(* the server stops.                                                       *)
(***************************************************************************)
AbandonedIsRemoved ==
  \A s \in Subs :
    s \in registered /\ (\E c \in Conns : sub[c] = s /\ ~Connected(c)) ~>
      s \notin registered \/ state[s] # "Start" \/ stops > 0

(***************************************************************************)
(* No deadlock between m_mutex, the mutexes of the subscriptions and the   *)
(* two threads: every handler that began ends, and Server::stop() returns. *)
(***************************************************************************)
HandlersEnd ==
  /\ pc # "idle" ~> pc \in {"idle", "stopped"}
  /\ spc # "idle" ~> spc = "idle"

-----------------------------------------------------------------------------
(* What comments of the code say and the code does not do *)

(***************************************************************************)
(* "Timer used for auto-destruction of subscriptions that are unused"      *)
(* (DynamicSubscriptions.h:47): a subscription no client ever connects to, *)
(* and that has no stop-time to end it, is removed in the end.             *)
(***************************************************************************)
UnusedIsRemoved ==
  \A s \in Subs :
    s \in registered ~>
      \/ s \notin registered
      \/ state[s] # "Start"
      \/ sr[s] # "live"
      \/ stops > 0

(***************************************************************************)
(* "... can be removed if no client is connected"                          *)
(* (DynamicSubscriptions.h:46): the inactivity handler does not terminate  *)
(* a subscription that a client is consuming.                              *)
(***************************************************************************)
ServedIsNotInactive ==
  pc \in {"terminate", "terminating"} =>
    \A c \in Conns : life[c] = "open" => sub[c] # cur

(***************************************************************************)
(* "@pre The mutex must be locked by the caller."                          *)
(* (DynamicSubscriptions.cpp:321): two threads are never inside terminate  *)
(* of the same subscription.                                               *)
(***************************************************************************)
TerminateIsExclusive ==
  ~ /\ pc \in {"terminate", "terminating"}
    /\ spc = "slot_terminating"
    /\ cur = sub[scon]
=============================================================================
