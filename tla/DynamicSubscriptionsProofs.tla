--------------------- MODULE DynamicSubscriptionsProofs --------------------
(***************************************************************************)
(* Proofs about DynamicSubscriptions, for every set of subscriptions,      *)
(* connections and users and every bound.                                  *)
(***************************************************************************)
EXTENDS DynamicSubscriptions, TLAPS

\* Zenon does the first-order leaves; a leaf that reasons about numbers,
\* functions, records or sequences cites SMT.
USE Zenon

(***************************************************************************)
(* Where each thread is determines what its registers hold and how far the *)
(* stream it works on has come.                                            *)
(***************************************************************************)
Control ==
  /\ pc \in {"idle", "stopped"} => cur = None /\ con = None
  /\ pc \in {"delete", "erase", "terminate", "terminating", "remove"} =>
       cur \in Subs /\ con = None
  /\ pc \in {"get", "create", "activate"} => cur \in Subs /\ con \in Conns
  /\ pc \in {"events", "processEvent", "disconnected"} =>
       cur = None /\ con \in Conns
  /\ pc \in {"get", "create"} => life[con] = "none"
  /\ pc = "activate" => life[con] = "constructed" /\ sub[con] = cur
  /\ pc \in {"events", "processEvent"} => life[con] \in {"open", "closed"}
  /\ pc = "disconnected" => life[con] = "closed"
  /\ pc = "processEvent" => pipe[sub[con]] > 0
  /\ spc \in {"slot", "slot_terminating", "want_close"} =>
       scon \in Conns /\ life[scon] # "none"
  /\ spc # "idle" => stops > 0

\* What holds of every stream and every subscription between the steps.
Streams ==
  /\ \A c \in Conns : life[c] = "constructed" => pc = "activate" /\ con = c
  /\ \A c \in Conns : life[c] # "none" => sub[c] \in Subs
  /\ \A c \in Conns : wait[c] = "pending" => life[c] \in {"open", "closed"}
  /\ \A c \in slots : life[c] # "none"

Base == TypeOK /\ Control /\ Streams

-----------------------------------------------------------------------------

\* The server starts with no subscription and no stream.
LEMMA InitBase == Init => Base
  BY SMT, SubscriptionAssumption
     DEF Init, Base, TypeOK, Control, Streams, States, Lives

\* Every step keeps the types.
LEMMA NextTypes == Base /\ [Next]_vars => TypeOK'
<1> SUFFICES ASSUME Base, [Next]_vars PROVE TypeOK'
  OBVIOUS
<1> USE SubscriptionAssumption
       DEF Base, TypeOK, Control, Streams, States, Lives, subVars,
           sysrepoVars, timerVars, connVars, loopVars, stopVars, Return, GoOn
<1>1. CASE DeleteTerminated
  BY SMT, <1>1 DEF DeleteTerminated, SrTerminated
<1>2. CASE DeleteErase
  BY <1>2 DEF DeleteErase
<1>3. CASE ClientInactiveTerminate
  BY <1>3 DEF ClientInactiveTerminate
<1>4. CASE ClientInactiveTerminated
  BY SMT, <1>4 DEF ClientInactiveTerminated, SrTerminated
<1>5. CASE ClientInactiveErase
  BY <1>5 DEF ClientInactiveErase
<1>6. CASE GetIsReady
  BY SMT, <1>6 DEF GetIsReady
<1>7. CASE GetConstruct
  BY <1>7 DEF GetConstruct
<1>8. CASE GetActivate
  BY <1>8 DEF GetActivate, InactivityCancel
<1>9. CASE NextEvent
  BY SMT, <1>9 DEF NextEvent
<1>10. CASE ProcessEvent
  BY SMT, <1>10 DEF ProcessEvent
<1>11. CASE ClientDisconnected
  BY SMT, <1>11 DEF ClientDisconnected, InactivityStart
<1>12. ASSUME NEW s \in Subs, Destructor(s) PROVE TypeOK'
  BY SMT, <1>12 DEF Destructor, InactivityCancel, SrTerminated
<1>13. ASSUME NEW s \in Subs, NEW u \in Users, EstablishSubscription(s, u)
       PROVE  TypeOK'
  BY SMT, <1>13 DEF EstablishSubscription, InactivityStart, LoopIdle
<1>14. ASSUME NEW s \in Subs, NEW u \in Users, NEW k \in BOOLEAN,
              DeleteSubscription(s, u, k)
       PROVE  TypeOK'
  BY <1>14 DEF DeleteSubscription, LoopIdle
<1>15. ASSUME NEW s \in Subs, NEW u \in Users, NEW c \in Conns, Get(c, s, u)
       PROVE  TypeOK'
  BY <1>15 DEF Get, LoopIdle
<1>16. ASSUME NEW c \in Conns, WaitCompletes(c) PROVE TypeOK'
  BY SMT, <1>16 DEF WaitCompletes, LoopIdle
<1>17. ASSUME NEW c \in Conns, OnClose(c) PROVE TypeOK'
  BY <1>17 DEF OnClose, LoopIdle
<1>18. ASSUME NEW c \in Conns, DestroyStream(c) PROVE TypeOK'
  BY <1>18 DEF DestroyStream, LoopIdle
<1>19. ASSUME NEW s \in Subs, ClientInactive(s) PROVE TypeOK'
  BY SMT, <1>19 DEF ClientInactive, LoopIdle
<1>20. CASE LoopStops
  BY <1>20 DEF LoopStops, LoopIdle
<1>21. CASE Stop
  BY SMT, <1>21 DEF Stop, Connected
<1>22. ASSUME NEW c \in Conns, CallSlot(c) PROVE TypeOK'
  BY SMT, <1>22 DEF CallSlot, Connected
<1>23. CASE SlotTerminate
  BY SMT, <1>23 DEF SlotTerminate
<1>24. CASE SlotTerminated
  BY SMT, <1>24 DEF SlotTerminated, SrTerminated
<1>25. CASE SlotWantToClose
  BY SMT, <1>25 DEF SlotWantToClose, Connected
<1>26. CASE StopSubscriptions
  BY <1>26 DEF StopSubscriptions
<1>27. ASSUME NEW s \in Subs, StopSubscription(s) PROVE TypeOK'
  BY SMT, <1>27 DEF StopSubscription, InactivityCancel
<1>28. CASE StopReturns
  BY <1>28 DEF StopReturns
<1>29a. ASSUME NEW s \in Subs, Notify(s) PROVE TypeOK'
  BY SMT, <1>29a DEF Notify
<1>29b. ASSUME NEW s \in Subs, StopTime(s) PROVE TypeOK'
  BY SMT, <1>29b DEF StopTime
<1>29c. ASSUME NEW s \in Subs, TimerExpires(s) PROVE TypeOK'
  BY SMT, <1>29c DEF TimerExpires
<1>30. CASE UNCHANGED vars
  BY SMT, <1>30 DEF vars
<1> HIDE DEF Base, TypeOK
<1> QED
  BY <1>1, <1>2, <1>3, <1>4, <1>5, <1>6, <1>7, <1>8, <1>9, <1>10, <1>11,
     <1>12, <1>13, <1>14, <1>15, <1>16, <1>17, <1>18, <1>19, <1>20, <1>21,
     <1>22, <1>23, <1>24, <1>25, <1>26, <1>27, <1>28, <1>29a, <1>29b,
     <1>29c, <1>30
     DEF Next, Handler, Request, Stream, Stopper

\* Every step keeps registers and streams consistent.
LEMMA NextControl == Base /\ [Next]_vars => (Control /\ Streams)'
<1> SUFFICES ASSUME Base, [Next]_vars PROVE (Control /\ Streams)'
  OBVIOUS
<1>a. /\ life \in [Conns -> Lives]
      /\ sub \in [Conns -> Subs \cup {None}]
      /\ pipe \in [Subs -> Nat]
      /\ wait \in [Conns -> {"off", "pending", "aborted"}]
      /\ registered \subseteq Subs
      /\ slots \subseteq Conns
      /\ stops \in Nat
      /\ None \notin Subs \cup Conns \cup Users
  BY SubscriptionAssumption DEF Base, TypeOK
<1>b. Control /\ Streams
  BY DEF Base
<1> USE <1>a, <1>b
       DEF Control, Streams, Lives, subVars, sysrepoVars, connVars, loopVars,
           stopVars, Return, GoOn
<1>1. CASE DeleteTerminated
  BY <1>1 DEF DeleteTerminated, SrTerminated
<1>2. CASE DeleteErase
  BY <1>2 DEF DeleteErase
<1>3. CASE ClientInactiveTerminate
  BY <1>3 DEF ClientInactiveTerminate
<1>4. CASE ClientInactiveTerminated
  BY <1>4 DEF ClientInactiveTerminated, SrTerminated
<1>5. CASE ClientInactiveErase
  BY <1>5 DEF ClientInactiveErase
<1>6. CASE GetIsReady
  BY <1>6 DEF GetIsReady
<1>7. CASE GetConstruct
  BY <1>7 DEF GetConstruct
<1>8. CASE GetActivate
  BY <1>8 DEF GetActivate, InactivityCancel
<1>9. CASE NextEvent
  BY <1>9 DEF NextEvent
<1>10. CASE ProcessEvent
  BY <1>10 DEF ProcessEvent
<1>11. CASE ClientDisconnected
  BY <1>11 DEF ClientDisconnected, InactivityStart
<1>12. ASSUME NEW s \in Subs, Destructor(s) PROVE (Control /\ Streams)'
  BY <1>12 DEF Destructor, InactivityCancel, SrTerminated
<1>13. ASSUME NEW s \in Subs, NEW u \in Users, EstablishSubscription(s, u)
       PROVE  (Control /\ Streams)'
  BY <1>13 DEF EstablishSubscription, InactivityStart, LoopIdle
<1>14. ASSUME NEW s \in Subs, NEW u \in Users, NEW k \in BOOLEAN,
              DeleteSubscription(s, u, k)
       PROVE  (Control /\ Streams)'
  BY <1>14 DEF DeleteSubscription, LoopIdle
<1>15. ASSUME NEW s \in Subs, NEW u \in Users, NEW c \in Conns, Get(c, s, u)
       PROVE  (Control /\ Streams)'
  BY <1>15 DEF Get, LoopIdle
<1>16. ASSUME NEW c \in Conns, WaitCompletes(c) PROVE (Control /\ Streams)'
  BY <1>16 DEF WaitCompletes, LoopIdle
<1>17. ASSUME NEW c \in Conns, OnClose(c) PROVE (Control /\ Streams)'
  BY <1>17 DEF OnClose, LoopIdle
<1>18. ASSUME NEW c \in Conns, DestroyStream(c) PROVE (Control /\ Streams)'
  BY <1>18 DEF DestroyStream, LoopIdle
<1>19. ASSUME NEW s \in Subs, ClientInactive(s) PROVE (Control /\ Streams)'
  BY <1>19 DEF ClientInactive, LoopIdle
<1>20. CASE LoopStops
  BY <1>20 DEF LoopStops, LoopIdle
<1>21. CASE Stop
  BY SMT, <1>21 DEF Stop, Connected
<1>22. ASSUME NEW c \in Conns, CallSlot(c) PROVE (Control /\ Streams)'
  BY <1>22 DEF CallSlot, Connected
<1>23. CASE SlotTerminate
  BY <1>23 DEF SlotTerminate
<1>24. CASE SlotTerminated
  BY SMT, <1>24 DEF SlotTerminated, SrTerminated
<1>25. CASE SlotWantToClose
  BY <1>25 DEF SlotWantToClose, Connected
<1>26. CASE StopSubscriptions
  BY <1>26 DEF StopSubscriptions
<1>27. ASSUME NEW s \in Subs, StopSubscription(s) PROVE (Control /\ Streams)'
  BY <1>27 DEF StopSubscription, InactivityCancel
<1>28. CASE StopReturns
  BY <1>28 DEF StopReturns
<1>29a. ASSUME NEW s \in Subs, Notify(s) PROVE (Control /\ Streams)'
  BY SMT, <1>29a DEF Notify
<1>29b. ASSUME NEW s \in Subs, StopTime(s) PROVE (Control /\ Streams)'
  BY <1>29b DEF StopTime
<1>29c. ASSUME NEW s \in Subs, TimerExpires(s) PROVE (Control /\ Streams)'
  BY <1>29c DEF TimerExpires
<1>30. CASE UNCHANGED vars
  BY <1>30 DEF vars
<1> HIDE <1>a, <1>b DEF Base, Control, Streams
<1> QED
  BY <1>1, <1>2, <1>3, <1>4, <1>5, <1>6, <1>7, <1>8, <1>9, <1>10, <1>11,
     <1>12, <1>13, <1>14, <1>15, <1>16, <1>17, <1>18, <1>19, <1>20, <1>21,
     <1>22, <1>23, <1>24, <1>25, <1>26, <1>27, <1>28, <1>29a, <1>29b,
     <1>29c, <1>30
     DEF Next, Handler, Request, Stream, Stopper

\* Every step keeps types, registers and streams consistent.
LEMMA NextBase == Base /\ [Next]_vars => Base'
  BY NextTypes, NextControl DEF Base

-----------------------------------------------------------------------------
(* Mutual exclusion *)

\* Who holds a mutex follows from where the two threads are.
Locks ==
  /\ \A s \in Subs :
       /\ mutex[s] = "loop" <=> pc = "processEvent" /\ sub[con] = s
       /\ mutex[s] = "stop" <=> spc = "slot_terminating" /\ sub[scon] = s
  /\ mapMutex = "loop" <=> pc \in {"terminate", "terminating", "remove"}
  /\ mapMutex = "stop" <=> spc = "subscriptions"

\* Every step takes and releases the mutexes as its position says.
LEMMA NextLocks == Base /\ Locks /\ [Next]_vars => Locks'
<1> SUFFICES ASSUME Base, Locks, [Next]_vars PROVE Locks'
  OBVIOUS
<1>a. /\ mutex \in [Subs -> {"free", "loop", "stop"}]
      /\ mapMutex \in {"free", "loop", "stop"}
  BY DEF Base, TypeOK
<1>b. /\ pc = "create" => con \in Conns /\ life[con] = "none"
      /\ pc = "activate" => con \in Conns
      /\ pc \in {"events", "processEvent"} =>
           con \in Conns /\ sub[con] \in Subs
      /\ spc \in {"slot", "slot_terminating"} =>
           scon \in Conns /\ life[scon] # "none" /\ sub[scon] \in Subs
  BY DEF Base, Control, Streams
<1> USE <1>a, <1>b
       DEF Locks, connVars, loopVars, stopVars, Return, GoOn
<1>1a. CASE DeleteTerminated
  BY <1>1a DEF DeleteTerminated
<1>1b. CASE DeleteErase
  BY <1>1b DEF DeleteErase
<1>1c. CASE GetIsReady
  BY <1>1c DEF GetIsReady
<1>2a. CASE ClientInactiveTerminate
  BY <1>2a DEF ClientInactiveTerminate
<1>2b. CASE ClientInactiveTerminated
  BY <1>2b DEF ClientInactiveTerminated
<1>2c. CASE ClientInactiveErase
  BY <1>2c DEF ClientInactiveErase
<1>3a. CASE GetConstruct
  BY SMT, <1>3a DEF GetConstruct
<1>3b. CASE GetActivate
  BY <1>3b DEF GetActivate
<1>4. CASE NextEvent
  BY SMT, <1>4 DEF NextEvent
<1>5. CASE ProcessEvent
  BY <1>5 DEF ProcessEvent
<1>6. CASE ClientDisconnected
  BY <1>6 DEF ClientDisconnected
<1>7. ASSUME NEW s \in Subs, Destructor(s) PROVE Locks'
  BY <1>7 DEF Destructor
<1>8a. ASSUME NEW s \in Subs, NEW u \in Users, EstablishSubscription(s, u)
      PROVE  Locks'
  BY <1>8a DEF EstablishSubscription
<1>8b. ASSUME NEW s \in Subs, NEW u \in Users, NEW k \in BOOLEAN,
             DeleteSubscription(s, u, k)
      PROVE  Locks'
  BY <1>8b DEF DeleteSubscription, LoopIdle
<1>8c. ASSUME NEW s \in Subs, NEW u \in Users, NEW c \in Conns, Get(c, s, u)
      PROVE  Locks'
  BY <1>8c DEF Get, LoopIdle
<1>9a. ASSUME NEW c \in Conns, WaitCompletes(c) PROVE Locks'
  BY <1>9a DEF WaitCompletes, LoopIdle
<1>9b. ASSUME NEW c \in Conns, OnClose(c) PROVE Locks'
  BY <1>9b DEF OnClose, LoopIdle
<1>9c. ASSUME NEW c \in Conns, DestroyStream(c) PROVE Locks'
  BY <1>9c DEF DestroyStream, LoopIdle
<1>10. ASSUME NEW s \in Subs, ClientInactive(s) PROVE Locks'
  BY <1>10 DEF ClientInactive, LoopIdle
<1>11a. CASE LoopStops
  BY <1>11a DEF LoopStops, LoopIdle
<1>11b. CASE Stop
  BY <1>11b DEF Stop
<1>12. ASSUME NEW c \in Conns, CallSlot(c) PROVE Locks'
  BY <1>12 DEF CallSlot
<1>13. CASE SlotTerminate
  BY SMT, <1>13 DEF SlotTerminate
<1>14. CASE SlotTerminated
  BY <1>14 DEF SlotTerminated
<1>15a. CASE SlotWantToClose
  BY <1>15a DEF SlotWantToClose
<1>15b. CASE StopSubscriptions
  BY <1>15b DEF StopSubscriptions
<1>15c. CASE StopReturns
  BY <1>15c DEF StopReturns
<1>16. ASSUME NEW s \in Subs, StopSubscription(s) PROVE Locks'
  BY <1>16 DEF StopSubscription
<1>17a. ASSUME NEW s \in Subs, Notify(s) PROVE Locks'
  BY <1>17a DEF Notify
<1>17b. ASSUME NEW s \in Subs, StopTime(s) PROVE Locks'
  BY <1>17b DEF StopTime
<1>17c. ASSUME NEW s \in Subs, TimerExpires(s) PROVE Locks'
  BY <1>17c DEF TimerExpires
<1>18. CASE UNCHANGED vars
  BY <1>18 DEF vars
<1> HIDE <1>a, <1>b DEF Base, Locks
<1> QED
  BY <1>1a, <1>1b, <1>1c, <1>2a, <1>2b, <1>2c, <1>3a, <1>3b, <1>4, <1>5,
     <1>6, <1>7, <1>8a, <1>8b, <1>8c, <1>9a, <1>9b, <1>9c, <1>10, <1>11a, <1>11b, <1>12, <1>13, <1>14,
     <1>15a, <1>15b, <1>15c, <1>16, <1>17a, <1>17b, <1>17c, <1>18
     DEF Next, Handler, Request, Stream, Stopper

-----------------------------------------------------------------------------
(* Established subscriptions *)

\* What the table, the streams and the loop refer to was established.
Owners ==
  /\ \A c \in Conns : life[c] # "none" => owner[sub[c]] # None
  /\ \A s \in registered : owner[s] # None
  /\ cur # None => owner[cur] # None

\* Every step keeps to subscriptions that were established.
LEMMA NextOwners == Base /\ Owners /\ [Next]_vars => Owners'
<1> SUFFICES ASSUME Base, Owners, [Next]_vars PROVE Owners'
  OBVIOUS
<1>a. /\ registered \subseteq Subs
      /\ owner \in [Subs -> Users \cup {None}]
      /\ None \notin Subs \cup Users
  BY SubscriptionAssumption DEF Base, TypeOK
<1>b. /\ pc = "create" => cur \in Subs /\ con \in Conns
      /\ pc = "activate" => con \in Conns /\ life[con] = "constructed"
      /\ cur # None => cur \in Subs
      /\ life \in [Conns -> Lives]
      /\ sub \in [Conns -> Subs \cup {None}]
      /\ \A c \in Conns : life[c] # "none" => sub[c] \in Subs
  BY DEF Base, TypeOK, Control, Streams
<1> USE <1>a, <1>b
       DEF Owners, Lives, subVars, connVars, loopVars, Return, GoOn
<1>1a. CASE DeleteTerminated
  BY <1>1a DEF DeleteTerminated
<1>1b. CASE DeleteErase
  BY <1>1b DEF DeleteErase
<1>2a. CASE ClientInactiveTerminate
  BY <1>2a DEF ClientInactiveTerminate
<1>2b. CASE ClientInactiveTerminated
  BY <1>2b DEF ClientInactiveTerminated
<1>2c. CASE ClientInactiveErase
  BY <1>2c DEF ClientInactiveErase
<1>3. CASE GetIsReady
  BY <1>3 DEF GetIsReady
<1>4. CASE GetConstruct
  BY <1>4 DEF GetConstruct
<1>5. CASE GetActivate
  BY <1>5 DEF GetActivate
<1>6a. CASE NextEvent
  BY <1>6a DEF NextEvent
<1>6b. CASE ProcessEvent
  BY <1>6b DEF ProcessEvent
<1>7. CASE ClientDisconnected
  BY <1>7 DEF ClientDisconnected
<1>8. ASSUME NEW s \in Subs, Destructor(s) PROVE Owners'
  BY <1>8 DEF Destructor
<1>9. ASSUME NEW s \in Subs, NEW u \in Users, EstablishSubscription(s, u)
      PROVE Owners'
  BY SMT, <1>9 DEF EstablishSubscription, LoopIdle
<1>10. ASSUME NEW s \in Subs, NEW u \in Users, NEW k \in BOOLEAN,
              DeleteSubscription(s, u, k)
       PROVE Owners'
  BY <1>10 DEF DeleteSubscription, Visible, LoopIdle
<1>11. ASSUME NEW s \in Subs, NEW u \in Users, NEW c \in Conns, Get(c, s, u)
       PROVE Owners'
  BY <1>11 DEF Get, Visible, LoopIdle
<1>12a. ASSUME NEW c \in Conns, WaitCompletes(c) PROVE Owners'
  BY <1>12a DEF WaitCompletes, LoopIdle
<1>12b. ASSUME NEW c \in Conns, DestroyStream(c) PROVE Owners'
  BY <1>12b DEF DestroyStream, LoopIdle
<1>13. ASSUME NEW c \in Conns, OnClose(c) PROVE Owners'
  BY <1>13 DEF OnClose, LoopIdle
<1>14. ASSUME NEW s \in Subs, ClientInactive(s) PROVE Owners'
  BY <1>14 DEF ClientInactive, LoopIdle
<1>15a. CASE LoopStops
  BY <1>15a DEF LoopStops, LoopIdle
<1>15b. CASE Stop
  BY <1>15b DEF Stop
<1>16. ASSUME NEW c \in Conns, CallSlot(c) PROVE Owners'
  BY <1>16 DEF CallSlot
<1>17. CASE SlotTerminate
  BY <1>17 DEF SlotTerminate
<1>18a. CASE SlotTerminated
  BY <1>18a DEF SlotTerminated
<1>18b. CASE SlotWantToClose
  BY <1>18b DEF SlotWantToClose
<1>18c. CASE StopSubscriptions
  BY <1>18c DEF StopSubscriptions
<1>18d. CASE StopReturns
  BY <1>18d DEF StopReturns
<1>19. ASSUME NEW s \in Subs, StopSubscription(s) PROVE Owners'
  BY <1>19 DEF StopSubscription
<1>20a. ASSUME NEW s \in Subs, Notify(s) PROVE Owners'
  BY <1>20a DEF Notify
<1>20b. ASSUME NEW s \in Subs, StopTime(s) PROVE Owners'
  BY <1>20b DEF StopTime
<1>20c. ASSUME NEW s \in Subs, TimerExpires(s) PROVE Owners'
  BY <1>20c DEF TimerExpires
<1>21. CASE UNCHANGED vars
  BY <1>21 DEF vars
<1> HIDE <1>a, <1>b DEF Base, Owners
<1> QED
  BY <1>1a, <1>1b, <1>2a, <1>2b, <1>2c, <1>3, <1>4, <1>5, <1>6a, <1>6b,
     <1>7, <1>8, <1>9, <1>10, <1>11, <1>12a, <1>12b, <1>13, <1>14, <1>15a,
     <1>15b, <1>16, <1>17, <1>18a, <1>18b, <1>18c, <1>18d, <1>19, <1>20a,
     <1>20b, <1>20c, <1>21
     DEF Next, Handler, Request, Stream, Stopper

-----------------------------------------------------------------------------
(* At most one receiver *)

\* A stream counts as the receiver until clientDisconnected() has run.
Serving(c) == Connected(c) \/ (pc = "disconnected" /\ con = c)

(***************************************************************************)
(* A subscription with an open stream is not in state Start, so            *)
(* isReadyToAcceptClient() refuses a second one; between that check and    *)
(* clientConnected() no other stream appears.                              *)
(***************************************************************************)
Receivers ==
  /\ \A c \in Conns : life[c] = "open" => state[sub[c]] # "Start"
  /\ \A c, d \in Conns :
       Serving(c) /\ Serving(d) /\ sub[c] = sub[d] => c = d
  /\ pc = "create" => \A c \in Conns : Serving(c) => sub[c] # cur

\* No step gives a subscription a second receiver.
LEMMA NextReceivers == Base /\ Owners /\ Receivers /\ [Next]_vars => Receivers'
<1> SUFFICES ASSUME Base, Owners, Receivers, [Next]_vars PROVE Receivers'
  OBVIOUS
<1>a. /\ state \in [Subs -> States]
      /\ life \in [Conns -> Lives]
      /\ sub \in [Conns -> Subs \cup {None}]
      /\ None \notin Subs \cup Conns \cup Users
  BY SubscriptionAssumption DEF Base, TypeOK
<1>b. /\ pc \in {"idle", "stopped", "events", "processEvent", "disconnected"} =>
           cur = None
      /\ pc \in {"get", "create", "activate"} => cur \in Subs /\ con \in Conns
      /\ pc = "disconnected" => con \in Conns /\ life[con] = "closed"
      /\ pc = "create" => life[con] = "none"
      /\ pc = "activate" => life[con] = "constructed" /\ sub[con] = cur
      /\ \A c \in Conns : life[c] = "constructed" => pc = "activate" /\ con = c
      /\ \A c \in Conns : life[c] # "none" => sub[c] \in Subs
      /\ spc = "slot" => scon \in Conns /\ life[scon] # "none"
  BY DEF Base, Control, Streams
<1>c. /\ \A c \in Conns : life[c] # "none" => owner[sub[c]] # None
      /\ cur # None => owner[cur] # None
  BY DEF Owners
<1> USE <1>a, <1>b
       DEF Receivers, Serving, Connected, States, Lives, subVars,
           connVars, loopVars, Return, GoOn
<1>1a. CASE DeleteTerminated
  BY <1>1a DEF DeleteTerminated
<1>1b. CASE DeleteErase
  BY <1>1b DEF DeleteErase
<1>2a. CASE ClientInactiveTerminate
  BY <1>2a DEF ClientInactiveTerminate
<1>2b. CASE ClientInactiveTerminated
  BY <1>2b DEF ClientInactiveTerminated
<1>2c. CASE ClientInactiveErase
  BY <1>2c DEF ClientInactiveErase
<1>3. CASE GetIsReady
  BY <1>3 DEF GetIsReady
<1>4. CASE GetConstruct
  BY <1>4 DEF GetConstruct
<1>5. CASE GetActivate
  <2>1. /\ pc = "activate" /\ pc' = "idle" /\ cur' = None /\ sub' = sub
        /\ state' = [state EXCEPT ![cur] = "ReceiverActive"]
        /\ life' = [life EXCEPT ![con] = "open"]
    BY ONLY Zenon, <1>5 DEF GetActivate, Return
  <2>2. \A c \in Conns : Serving(c)' => Serving(c)
    BY <2>1
  <2> QED
    BY SMT, <2>1, <2>2
<1>6a. CASE NextEvent
  BY <1>6a DEF NextEvent
<1>6b. CASE ProcessEvent
  BY <1>6b DEF ProcessEvent
<1>7. CASE ClientDisconnected
  <2>1. /\ pc = "disconnected" /\ pc' = "idle" /\ cur' = None
        /\ UNCHANGED <<life, sub>>
        /\ \/ state' = state
           \/ state' = [state EXCEPT ![sub[con]] = "Start"]
    BY ONLY Zenon, <1>7 DEF ClientDisconnected, Return, connVars
  <2>2. \A c \in Conns : Serving(c)' => Serving(c)
    BY <2>1
  <2>3. \A c \in Conns : life[c] = "open" => sub[c] # sub[con]
    BY <2>1
  <2> QED
    BY <2>1, <2>2, <2>3
<1>8. ASSUME NEW s \in Subs, Destructor(s) PROVE Receivers'
  BY <1>8 DEF Destructor
<1>9. ASSUME NEW s \in Subs, NEW u \in Users, EstablishSubscription(s, u)
      PROVE Receivers'
  <2>1. owner[s] = None /\ pc = "idle" /\ state' = [state EXCEPT ![s] = "Start"]
    BY ONLY Zenon, <1>9 DEF EstablishSubscription, LoopIdle
  <2>2. UNCHANGED <<life, sub, pc, cur, con>>
    BY ONLY Zenon, <1>9 DEF EstablishSubscription, connVars, loopVars
  <2>3. \A c \in Conns : life[c] # "none" => sub[c] # s
    BY <1>c, <2>1
  <2> QED
    BY <2>1, <2>2, <2>3
<1>10. ASSUME NEW s \in Subs, NEW u \in Users, NEW k \in BOOLEAN,
              DeleteSubscription(s, u, k)
       PROVE Receivers'
  BY <1>10 DEF DeleteSubscription, Visible, LoopIdle
<1>11. ASSUME NEW s \in Subs, NEW u \in Users, NEW c \in Conns, Get(c, s, u)
       PROVE Receivers'
  BY <1>11 DEF Get, Visible, LoopIdle
<1>12a. ASSUME NEW c \in Conns, WaitCompletes(c) PROVE Receivers'
  BY <1>12a DEF WaitCompletes, LoopIdle
<1>12b. ASSUME NEW c \in Conns, DestroyStream(c) PROVE Receivers'
  BY <1>12b DEF DestroyStream, LoopIdle
<1>13. ASSUME NEW c \in Conns, OnClose(c) PROVE Receivers'
  BY <1>13 DEF OnClose, LoopIdle
<1>14. ASSUME NEW s \in Subs, ClientInactive(s) PROVE Receivers'
  BY <1>14 DEF ClientInactive, LoopIdle
<1>15a. CASE LoopStops
  BY <1>15a DEF LoopStops, LoopIdle
<1>15b. CASE Stop
  BY <1>15b DEF Stop
<1>16. ASSUME NEW c \in Conns, CallSlot(c) PROVE Receivers'
  BY <1>16 DEF CallSlot
<1>17. CASE SlotTerminate
  <2>1. /\ spc = "slot" /\ UNCHANGED <<life, sub, pc, cur, con>>
        /\ \/ state' = state
           \/ state' = [state EXCEPT ![sub[scon]] = "Terminating"]
    BY ONLY Zenon, <1>17 DEF SlotTerminate, connVars, loopVars
  <2> QED
    BY SMT, <2>1
<1>18a. CASE SlotTerminated
  BY <1>18a DEF SlotTerminated
<1>18b. CASE SlotWantToClose
  BY <1>18b DEF SlotWantToClose
<1>18c. CASE StopSubscriptions
  BY <1>18c DEF StopSubscriptions
<1>18d. CASE StopReturns
  BY <1>18d DEF StopReturns
<1>19. ASSUME NEW s \in Subs, StopSubscription(s) PROVE Receivers'
  BY <1>19 DEF StopSubscription
<1>20a. ASSUME NEW s \in Subs, Notify(s) PROVE Receivers'
  BY <1>20a DEF Notify
<1>20b. ASSUME NEW s \in Subs, StopTime(s) PROVE Receivers'
  BY <1>20b DEF StopTime
<1>20c. ASSUME NEW s \in Subs, TimerExpires(s) PROVE Receivers'
  BY <1>20c DEF TimerExpires
<1>21. CASE UNCHANGED vars
  BY <1>21 DEF vars
<1> HIDE <1>a, <1>b DEF Base, Receivers
<1> QED
  BY <1>1a, <1>1b, <1>2a, <1>2b, <1>2c, <1>3, <1>4, <1>5, <1>6a, <1>6b,
     <1>7, <1>8, <1>9, <1>10, <1>11, <1>12a, <1>12b, <1>13, <1>14, <1>15a,
     <1>15b, <1>16, <1>17, <1>18a, <1>18b, <1>18c, <1>18d, <1>19, <1>20a,
     <1>20b, <1>20c, <1>21
     DEF Next, Handler, Request, Stream, Stopper

-----------------------------------------------------------------------------
(* Objects and references *)

\* NoUseAfterFree is inductive on top of Base: only an object to which no
\* shared_ptr is left is destroyed.
LEMMA NextNoUseAfterFree ==
  Base /\ NoUseAfterFree /\ [Next]_vars => NoUseAfterFree'
<1> SUFFICES ASSUME Base, NoUseAfterFree, [Next]_vars
             PROVE  NoUseAfterFree'
  OBVIOUS
<1>a. /\ registered \subseteq Subs
      /\ life \in [Conns -> Lives]
      /\ sub \in [Conns -> Subs \cup {None}]
      /\ None \notin Subs \cup Conns \cup Users
  BY SubscriptionAssumption DEF Base, TypeOK
<1>b. /\ pc \in {"idle", "stopped", "events", "processEvent", "disconnected"} =>
           cur = None
      /\ pc \in {"get", "create", "activate"} => cur \in Subs /\ con \in Conns
      /\ pc \in {"events", "processEvent"} => life[con] \in {"open", "closed"}
      /\ \A c \in Conns : wait[c] = "pending" => life[c] \in {"open", "closed"}
      /\ pc = "disconnected" => life[con] = "closed"
      /\ pc = "activate" => life[con] = "constructed" /\ sub[con] = cur
      /\ \A c \in Conns : life[c] = "constructed" => pc = "activate" /\ con = c
  BY DEF Base, Control, Streams
<1> USE <1>a, <1>b
       DEF NoUseAfterFree, Lives, subVars, connVars, loopVars, Return, GoOn
<1>1a. CASE DeleteTerminated
  BY <1>1a DEF DeleteTerminated
<1>1b. CASE DeleteErase
  BY <1>1b DEF DeleteErase
<1>2a. CASE ClientInactiveTerminate
  BY <1>2a DEF ClientInactiveTerminate
<1>2b. CASE ClientInactiveTerminated
  BY <1>2b DEF ClientInactiveTerminated
<1>2c. CASE ClientInactiveErase
  BY <1>2c DEF ClientInactiveErase
<1>3. CASE GetIsReady
  BY <1>3 DEF GetIsReady
<1>4. CASE GetConstruct
  BY <1>4 DEF GetConstruct
<1>5. CASE GetActivate
  BY <1>5 DEF GetActivate
<1>6a. CASE NextEvent
  BY <1>6a DEF NextEvent
<1>6b. CASE ProcessEvent
  BY <1>6b DEF ProcessEvent
<1>7. CASE ClientDisconnected
  BY <1>7 DEF ClientDisconnected
<1>8. ASSUME NEW s \in Subs, Destructor(s) PROVE NoUseAfterFree'
  BY <1>8 DEF Destructor, Referenced
<1>9. ASSUME NEW s \in Subs, NEW u \in Users, EstablishSubscription(s, u)
      PROVE  NoUseAfterFree'
  BY <1>9 DEF EstablishSubscription, LoopIdle
<1>10. ASSUME NEW s \in Subs, NEW u \in Users, NEW k \in BOOLEAN,
              DeleteSubscription(s, u, k)
       PROVE  NoUseAfterFree'
  BY <1>10 DEF DeleteSubscription, Visible, LoopIdle
<1>11. ASSUME NEW s \in Subs, NEW u \in Users, NEW c \in Conns, Get(c, s, u)
       PROVE  NoUseAfterFree'
  BY <1>11 DEF Get, Visible, LoopIdle
<1>12a. ASSUME NEW c \in Conns, WaitCompletes(c) PROVE NoUseAfterFree'
  BY <1>12a DEF WaitCompletes, LoopIdle
<1>12b. ASSUME NEW c \in Conns, DestroyStream(c) PROVE NoUseAfterFree'
  BY <1>12b DEF DestroyStream, LoopIdle
<1>13. ASSUME NEW c \in Conns, OnClose(c) PROVE NoUseAfterFree'
  BY <1>13 DEF OnClose, LoopIdle
<1>14. ASSUME NEW s \in Subs, ClientInactive(s) PROVE NoUseAfterFree'
  BY <1>14 DEF ClientInactive, LoopIdle
<1>15a. CASE LoopStops
  BY <1>15a DEF LoopStops, LoopIdle
<1>15b. CASE Stop
  BY <1>15b DEF Stop
<1>16. ASSUME NEW c \in Conns, CallSlot(c) PROVE NoUseAfterFree'
  BY <1>16 DEF CallSlot
<1>17. CASE SlotTerminate
  BY <1>17 DEF SlotTerminate
<1>18a. CASE SlotTerminated
  BY <1>18a DEF SlotTerminated
<1>18b. CASE SlotWantToClose
  BY <1>18b DEF SlotWantToClose
<1>18c. CASE StopSubscriptions
  BY <1>18c DEF StopSubscriptions
<1>18d. CASE StopReturns
  BY <1>18d DEF StopReturns
<1>19. ASSUME NEW s \in Subs, StopSubscription(s) PROVE NoUseAfterFree'
  BY <1>19 DEF StopSubscription
<1>20a. ASSUME NEW s \in Subs, Notify(s) PROVE NoUseAfterFree'
  BY <1>20a DEF Notify
<1>20b. ASSUME NEW s \in Subs, StopTime(s) PROVE NoUseAfterFree'
  BY <1>20b DEF StopTime
<1>20c. ASSUME NEW s \in Subs, TimerExpires(s) PROVE NoUseAfterFree'
  BY <1>20c DEF TimerExpires
<1>21. CASE UNCHANGED vars
  BY <1>21 DEF vars
<1> HIDE <1>a, <1>b DEF Base, NoUseAfterFree
<1> QED
  BY <1>1a, <1>1b, <1>2a, <1>2b, <1>2c, <1>3, <1>4, <1>5, <1>6a, <1>6b,
     <1>7, <1>8, <1>9, <1>10, <1>11, <1>12a, <1>12b, <1>13, <1>14, <1>15a,
     <1>15b, <1>16, <1>17, <1>18a, <1>18b, <1>18c, <1>18d, <1>19, <1>20a,
     <1>20b, <1>20c, <1>21
     DEF Next, Handler, Request, Stream, Stopper

-----------------------------------------------------------------------------
(* Removal *)

(***************************************************************************)
(* Before Server::stop() only the inactivity handler sets Terminating, and *)
(* it ends the subscription in sysrepo before it erases it; so does        *)
(* deleteSubscription().                                                   *)
(***************************************************************************)
Removal ==
  /\ \A s \in Subs : sr[s] = "live" => owner[s] # None
  /\ pc = "erase" => sr[cur] # "live"
  /\ stops = 0 =>
       /\ pc = "remove" => sr[cur] # "live"
       /\ \A s \in registered :
            state[s] = "Terminating" /\ sr[s] = "live" =>
              pc = "terminating" /\ cur = s
       /\ \A s \in Subs : sr[s] = "live" => s \in registered

\* Every step that erases a subscription finds it ended in sysrepo.
LEMMA NextRemoval ==
  Base /\ Owners /\ Removal /\ [Next]_vars => Removal'
<1> SUFFICES ASSUME Base, Owners, Removal, [Next]_vars
             PROVE  Removal'
  OBVIOUS
<1>a. /\ registered \subseteq Subs
      /\ owner \in [Subs -> Users \cup {None}]
      /\ state \in [Subs -> States]
      /\ sr \in [Subs -> {"none", "live", "ended", "terminated"}]
      /\ stops \in Nat
      /\ None \notin Users
  BY SubscriptionAssumption DEF Base, TypeOK
<1>b. /\ pc \in {"idle", "stopped"} => cur = None
      /\ pc \in {"delete", "erase", "terminate", "terminating", "remove", "activate"} => cur \in Subs
      /\ spc # "idle" => stops > 0
  BY DEF Base, Control
<1>c. /\ \A s \in registered : owner[s] # None
      /\ cur # None => owner[cur] # None
  BY DEF Owners
<1>d. ASSUME stops' # 0, UNCHANGED <<owner, sr, pc, cur>>
      PROVE  Removal'
  <2>1. /\ \A s \in Subs : sr[s] = "live" => owner[s] # None
        /\ pc = "erase" => sr[cur] # "live"
    BY DEF Removal
  <2> QED
    BY ONLY Zenon, <1>d, <2>1 DEF Removal
<1>e. spc # "idle" => stops # 0
  BY ONLY <1>a, <1>b
<1> USE <1>a, <1>b, <1>c
       DEF Removal, States, subVars, sysrepoVars, loopVars, stopVars,
           Return, GoOn
<1>1a. CASE DeleteTerminated
  BY <1>1a DEF DeleteTerminated, SrTerminated
<1>1b. CASE DeleteErase
  BY <1>1b DEF DeleteErase
<1>2a. CASE ClientInactiveTerminate
  BY <1>2a DEF ClientInactiveTerminate
<1>2b. CASE ClientInactiveTerminated
  BY <1>2b DEF ClientInactiveTerminated, SrTerminated
<1>2c. CASE ClientInactiveErase
  BY <1>2c DEF ClientInactiveErase
<1>3. CASE GetIsReady
  BY <1>3 DEF GetIsReady
<1>4. CASE GetConstruct
  BY <1>4 DEF GetConstruct
<1>5. CASE GetActivate
  BY <1>5 DEF GetActivate
<1>6a. CASE NextEvent
  BY <1>6a DEF NextEvent
<1>6b. CASE ProcessEvent
  BY <1>6b DEF ProcessEvent
<1>7. CASE ClientDisconnected
  BY <1>7 DEF ClientDisconnected
<1>8. ASSUME NEW s \in Subs, Destructor(s) PROVE Removal'
  BY <1>8 DEF Destructor, Referenced, SrTerminated
<1>9. ASSUME NEW s \in Subs, NEW u \in Users, EstablishSubscription(s, u)
      PROVE  Removal'
  BY <1>9 DEF EstablishSubscription, LoopIdle
<1>10. ASSUME NEW s \in Subs, NEW u \in Users, NEW k \in BOOLEAN,
              DeleteSubscription(s, u, k)
       PROVE  Removal'
  BY <1>10 DEF DeleteSubscription, Visible, LoopIdle
<1>11. ASSUME NEW s \in Subs, NEW u \in Users, NEW c \in Conns, Get(c, s, u)
       PROVE  Removal'
  BY <1>11 DEF Get, Visible, LoopIdle
<1>12a. ASSUME NEW c \in Conns, WaitCompletes(c) PROVE Removal'
  BY <1>12a DEF WaitCompletes, LoopIdle
<1>12b. ASSUME NEW c \in Conns, DestroyStream(c) PROVE Removal'
  BY <1>12b DEF DestroyStream, LoopIdle
<1>13. ASSUME NEW c \in Conns, OnClose(c) PROVE Removal'
  BY <1>13 DEF OnClose, LoopIdle
<1>14. ASSUME NEW s \in Subs, ClientInactive(s) PROVE Removal'
  BY <1>14 DEF ClientInactive, LoopIdle
<1>15a. CASE LoopStops
  BY <1>15a DEF LoopStops, LoopIdle
<1>15b. CASE Stop
  <2>1. stops' = stops + 1 /\ UNCHANGED <<owner, sr, pc, cur>>
    BY ONLY Zenon, <1>15b DEF Stop, subVars, sysrepoVars, loopVars
  <2> QED
    BY ONLY <1>a, <1>d, <2>1
<1>16. ASSUME NEW c \in Conns, CallSlot(c) PROVE Removal'
  BY <1>16 DEF CallSlot
<1>17. CASE SlotTerminate
  <2>1. spc # "idle" /\ stops' = stops /\ UNCHANGED <<owner, sr, pc, cur>>
    BY ONLY Zenon, <1>17 DEF SlotTerminate, subVars, sysrepoVars, loopVars
  <2>2. stops' # 0
    BY ONLY Zenon, <1>e, <2>1
  <2> QED
    BY ONLY Zenon, <1>d, <2>1, <2>2
<1>18a. CASE SlotTerminated
  BY <1>18a DEF SlotTerminated, SrTerminated
<1>18b. CASE SlotWantToClose
  BY <1>18b DEF SlotWantToClose
<1>18c. CASE StopSubscriptions
  BY <1>18c DEF StopSubscriptions
<1>18d. CASE StopReturns
  BY <1>18d DEF StopReturns
<1>19. ASSUME NEW s \in Subs, StopSubscription(s) PROVE Removal'
  <2>1. spc # "idle" /\ stops' = stops /\ UNCHANGED <<owner, sr, pc, cur>>
    BY ONLY Zenon, <1>19 DEF StopSubscription, subVars, sysrepoVars, loopVars
  <2>2. stops' # 0
    BY ONLY Zenon, <1>e, <2>1
  <2> QED
    BY ONLY Zenon, <1>d, <2>1, <2>2
<1>20a. ASSUME NEW s \in Subs, Notify(s) PROVE Removal'
  BY <1>20a DEF Notify
<1>20b. ASSUME NEW s \in Subs, StopTime(s) PROVE Removal'
  BY <1>20b DEF StopTime
<1>20c. ASSUME NEW s \in Subs, TimerExpires(s) PROVE Removal'
  BY <1>20c DEF TimerExpires
<1>21. CASE UNCHANGED vars
  BY <1>21 DEF vars
<1> HIDE <1>a, <1>b, <1>c DEF Base, Owners, Removal
<1> QED
  BY <1>1a, <1>1b, <1>2a, <1>2b, <1>2c, <1>3, <1>4, <1>5, <1>6a, <1>6b,
     <1>7, <1>8, <1>9, <1>10, <1>11, <1>12a, <1>12b, <1>13, <1>14, <1>15a,
     <1>15b, <1>16, <1>17, <1>18a, <1>18b, <1>18c, <1>18d, <1>19, <1>20a,
     <1>20b, <1>20c, <1>21
     DEF Next, Handler, Request, Stream, Stopper

-----------------------------------------------------------------------------
(* The inactivity timer *)

\* Whoever changes the state of a subscription sets its timer to match.
LEMMA NextNotTimed ==
  Base /\ NotTimedWhileActive /\ [Next]_vars => NotTimedWhileActive'
<1> SUFFICES ASSUME Base, NotTimedWhileActive, [Next]_vars
             PROVE  NotTimedWhileActive'
  OBVIOUS
<1>a. /\ state \in [Subs -> States]
      /\ timer \in [Subs -> {"off", "hollow", "armed"}]
      /\ rest \subseteq Subs
  BY DEF Base, TypeOK
<1>b. /\ pc \in {"terminate", "activate"} => cur \in Subs
      /\ pc = "disconnected" => con \in Conns /\ life[con] = "closed"
      /\ spc = "slot" => scon \in Conns /\ life[scon] # "none"
      /\ \A c \in Conns : life[c] # "none" => sub[c] \in Subs
  BY DEF Base, Control, Streams
<1> USE <1>a, <1>b
       DEF NotTimedWhileActive, States, InactivityCancel, InactivityStart,
           timerVars
<1>1a. CASE DeleteTerminated
  BY <1>1a DEF DeleteTerminated
<1>1b. CASE DeleteErase
  BY <1>1b DEF DeleteErase
<1>2a. CASE ClientInactiveTerminate
  BY <1>2a DEF ClientInactiveTerminate
<1>2b. CASE ClientInactiveTerminated
  BY <1>2b DEF ClientInactiveTerminated
<1>2c. CASE ClientInactiveErase
  BY <1>2c DEF ClientInactiveErase
<1>3. CASE GetIsReady
  BY <1>3 DEF GetIsReady
<1>4. CASE GetConstruct
  BY <1>4 DEF GetConstruct
<1>5. CASE GetActivate
  BY <1>5 DEF GetActivate
<1>6a. CASE NextEvent
  BY <1>6a DEF NextEvent
<1>6b. CASE ProcessEvent
  BY <1>6b DEF ProcessEvent
<1>7. CASE ClientDisconnected
  BY SMT, <1>7 DEF ClientDisconnected
<1>8. ASSUME NEW s \in Subs, Destructor(s) PROVE NotTimedWhileActive'
  BY <1>8 DEF Destructor
<1>9. ASSUME NEW s \in Subs, NEW u \in Users, EstablishSubscription(s, u)
      PROVE  NotTimedWhileActive'
  BY <1>9 DEF EstablishSubscription, LoopIdle
<1>10. ASSUME NEW s \in Subs, NEW u \in Users, NEW k \in BOOLEAN,
              DeleteSubscription(s, u, k)
       PROVE  NotTimedWhileActive'
  BY <1>10 DEF DeleteSubscription, Visible, LoopIdle
<1>11. ASSUME NEW s \in Subs, NEW u \in Users, NEW c \in Conns, Get(c, s, u)
       PROVE  NotTimedWhileActive'
  BY <1>11 DEF Get, Visible, LoopIdle
<1>12a. ASSUME NEW c \in Conns, WaitCompletes(c) PROVE NotTimedWhileActive'
  BY <1>12a DEF WaitCompletes, LoopIdle
<1>12b. ASSUME NEW c \in Conns, DestroyStream(c) PROVE NotTimedWhileActive'
  BY <1>12b DEF DestroyStream, LoopIdle
<1>13. ASSUME NEW c \in Conns, OnClose(c) PROVE NotTimedWhileActive'
  BY <1>13 DEF OnClose, LoopIdle
<1>14. ASSUME NEW s \in Subs, ClientInactive(s) PROVE NotTimedWhileActive'
  BY <1>14 DEF ClientInactive, LoopIdle
<1>15a. CASE LoopStops
  BY <1>15a DEF LoopStops, LoopIdle
<1>15b. CASE Stop
  BY <1>15b DEF Stop
<1>16. ASSUME NEW c \in Conns, CallSlot(c) PROVE NotTimedWhileActive'
  BY <1>16 DEF CallSlot
<1>17. CASE SlotTerminate
  BY <1>17 DEF SlotTerminate
<1>18a. CASE SlotTerminated
  BY <1>18a DEF SlotTerminated
<1>18b. CASE SlotWantToClose
  BY <1>18b DEF SlotWantToClose
<1>18c. CASE StopSubscriptions
  BY <1>18c DEF StopSubscriptions
<1>18d. CASE StopReturns
  BY <1>18d DEF StopReturns
<1>19. ASSUME NEW s \in Subs, StopSubscription(s) PROVE NotTimedWhileActive'
  BY <1>19 DEF StopSubscription
<1>20a. ASSUME NEW s \in Subs, Notify(s) PROVE NotTimedWhileActive'
  BY <1>20a DEF Notify
<1>20b. ASSUME NEW s \in Subs, StopTime(s) PROVE NotTimedWhileActive'
  BY <1>20b DEF StopTime
<1>20c. ASSUME NEW s \in Subs, TimerExpires(s) PROVE NotTimedWhileActive'
  BY <1>20c DEF TimerExpires
<1>21. CASE UNCHANGED vars
  BY <1>21 DEF vars
<1> HIDE <1>a, <1>b DEF Base, NotTimedWhileActive
<1> QED
  BY <1>1a, <1>1b, <1>2a, <1>2b, <1>2c, <1>3, <1>4, <1>5, <1>6a, <1>6b,
     <1>7, <1>8, <1>9, <1>10, <1>11, <1>12a, <1>12b, <1>13, <1>14, <1>15a,
     <1>15b, <1>16, <1>17, <1>18a, <1>18b, <1>18c, <1>18d, <1>19, <1>20a,
     <1>20b, <1>20c, <1>21
     DEF Next, Handler, Request, Stream, Stopper

-----------------------------------------------------------------------------
(* The theorems *)

IInv ==
  /\ Base
  /\ Locks
  /\ Owners
  /\ Receivers
  /\ NoUseAfterFree
  /\ Removal
  /\ NotTimedWhileActive

(***************************************************************************)
(* IInv, the conjunction of all invariants above, holds in every reachable *)
(* state of DynamicSubscriptions.                                          *)
(***************************************************************************)
THEOREM Invariance == Spec => []IInv
<1>1. Init => IInv
  <2>1. Init => Locks /\ Owners /\ Receivers /\ NoUseAfterFree /\ Removal
    BY DEF Init, Locks, Owners, Receivers, Serving, Connected, NoUseAfterFree,
           Removal
  <2>2. Init => NotTimedWhileActive
    BY DEF Init, NotTimedWhileActive
  <2> QED
    BY <2>1, <2>2, InitBase DEF IInv
<1>2. IInv /\ [Next]_vars => IInv'
  BY NextBase, NextLocks, NextOwners, NextReceivers, NextNoUseAfterFree, NextRemoval,
     NextNotTimed
     DEF IInv
<1> QED
  BY <1>1, <1>2, PTL DEF Spec

(***************************************************************************)
(* Every variable keeps its type; in particular processEvent() is never    *)
(* called on an empty pipe.                                                *)
(***************************************************************************)
THEOREM TypeCorrect == Spec => []TypeOK
<1>1. IInv => TypeOK
  BY DEF IInv, Base
<1> QED
  BY <1>1, Invariance, PTL

(***************************************************************************)
(* At most one HTTP stream consumes a subscription: the check in the GET   *)
(* handler and clientConnected() cannot be torn apart by Server::stop().   *)
(***************************************************************************)
THEOREM AtMostOneReceiver == Spec => []OneReceiver
<1>1. IInv => OneReceiver
  BY DEF IInv, Receivers, Serving, OneReceiver
<1> QED
  BY <1>1, Invariance, PTL

(***************************************************************************)
(* Neither the table nor a stream nor a handler of the event loop refers   *)
(* to a SubscriptionData object, or an aborted read to a stream, that was  *)
(* destroyed.                                                              *)
(***************************************************************************)
THEOREM ObjectsOutliveTheirUsers == Spec => []NoUseAfterFree
<1>1. IInv => NoUseAfterFree
  BY DEF IInv
<1> QED
  BY <1>1, Invariance, PTL

(***************************************************************************)
(* processEvent() in the event loop and terminate() in the termination     *)
(* slot exclude each other, for each subscription.                         *)
(***************************************************************************)
THEOREM EventsAndTerminationExclude == Spec => []EventsExcludeTermination
<1>1. IInv => EventsExcludeTermination
  BY DEF IInv, Base, TypeOK, Control, Streams, Locks,
         EventsExcludeTermination
<1> QED
  BY <1>1, Invariance, PTL

(***************************************************************************)
(* Until the server is stopped, delete, kill and inactivity never leave a  *)
(* live subscription behind in sysrepo.                                    *)
(***************************************************************************)
THEOREM NothingLeaks == Spec => []RemovedIsTerminated
<1>1. IInv => RemovedIsTerminated
  BY DEF IInv, Removal, RemovedIsTerminated
<1> QED
  BY <1>1, Invariance, PTL

(***************************************************************************)
(* The inactivity timer of a subscription that is being consumed is off.   *)
(***************************************************************************)
THEOREM ActiveIsNotTimed == Spec => []NotTimedWhileActive
<1>1. IInv => NotTimedWhileActive
  BY DEF IInv
<1> QED
  BY <1>1, Invariance, PTL
-----------------------------------------------------------------------------
(* Deadlock between the two threads *)

\* The event loop waits for a mutex that thread h holds: between two handlers,
\* the next one or a destructor may.
LoopWaitsFor(h) ==
  \/ pc = "idle" /\ (mapMutex = h \/ \E s \in Subs : mutex[s] = h)
  \/ pc = "erase" /\ mapMutex = h
  \/ pc \in {"get", "activate"} /\ mutex[cur] = h
  \/ /\ pc = "events" /\ batch + 1 < MAX_EVENTS /\ pipe[sub[con]] > 0
     /\ mutex[sub[con]] = h
  \/ pc = "disconnected" /\ mutex[sub[con]] = h

\* Server::stop() does.
StopWaitsFor(h) ==
  \/ spc = "emit" /\ slots = {} /\ mapMutex = h
  \/ spc = "slot" /\ life[scon] # "destroyed" /\ mutex[sub[scon]] = h
  \/ spc = "subscriptions" /\ \E s \in rest : mutex[s] = h

(***************************************************************************)
(* No thread waits for a mutex it holds itself (they are not recursive),   *)
(* and the two never wait for each other, although stop() holds m_mutex    *)
(* while it locks one subscription after the other.                        *)
(***************************************************************************)
NoCircularWait ==
  /\ ~LoopWaitsFor("loop")
  /\ ~StopWaitsFor("stop")
  /\ ~(LoopWaitsFor("stop") /\ StopWaitsFor("loop"))

(***************************************************************************)
(* m_mutex and the mutexes of the subscriptions cannot deadlock, however   *)
(* many subscriptions and streams there are.                               *)
(***************************************************************************)
THEOREM ThreadsDoNotDeadlock == Spec => []NoCircularWait
<1>1. IInv => NoCircularWait
  <2> SUFFICES ASSUME IInv PROVE NoCircularWait
    OBVIOUS
  <2>1. /\ pc \in {"get", "activate"} => cur \in Subs
        /\ pc \in {"events", "disconnected"} => sub[con] \in Subs
        /\ spc = "slot" => sub[scon] \in Subs
        /\ rest \subseteq Subs
    BY DEF IInv, Base, TypeOK, Control, Streams
  <2>2. Locks
    BY DEF IInv
  <2>3. ~LoopWaitsFor("loop")
    BY <2>1, <2>2 DEF LoopWaitsFor, Locks
  <2>4. ~StopWaitsFor("stop")
    BY <2>1, <2>2 DEF StopWaitsFor, Locks
  <2>5. ASSUME StopWaitsFor("loop"), LoopWaitsFor("stop") PROVE FALSE
    <3>1. pc \in {"terminate", "terminating", "remove", "processEvent"}
      BY <2>1, <2>2, <2>5 DEF StopWaitsFor, Locks
    <3> QED
      BY <2>5, <3>1 DEF LoopWaitsFor
  <2> QED
    BY <2>3, <2>4, <2>5 DEF NoCircularWait
<1> QED
  BY <1>1, Invariance, PTL
-----------------------------------------------------------------------------
(* Terminating is final *)

(***************************************************************************)
(* A subscription nobody has established yet has not been touched; until   *)
(* Server::stop() is called a GET that found its subscription ready still  *)
(* finds it so when it activates the stream.                               *)
(***************************************************************************)
Fresh ==
  /\ \A s \in Subs : owner[s] = None => state[s] = "Start"
  /\ \A s \in alive \cup rest : owner[s] # None
  /\ pc \in {"create", "activate"} /\ stops = 0 => state[cur] = "Start"

\* Every step keeps it so.
LEMMA NextFresh == Base /\ Owners /\ Fresh /\ [Next]_vars => Fresh'
<1> SUFFICES ASSUME Base, Owners, Fresh, [Next]_vars PROVE Fresh'
  OBVIOUS
<1>a. /\ registered \subseteq Subs
      /\ alive \subseteq Subs
      /\ rest \subseteq Subs
      /\ owner \in [Subs -> Users \cup {None}]
      /\ state \in [Subs -> States]
      /\ stops \in Nat
      /\ None \notin Subs \cup Conns \cup Users
  BY SubscriptionAssumption DEF Base, TypeOK
<1>b. /\ pc \in {"terminate", "activate"} => cur \in Subs /\ owner[cur] # None
      /\ pc = "disconnected" => sub[con] \in Subs /\ owner[sub[con]] # None
      /\ spc = "slot" => sub[scon] \in Subs /\ owner[sub[scon]] # None
      /\ \A s \in registered : owner[s] # None
  BY SubscriptionAssumption DEF Base, TypeOK, Control, Streams, Owners
<1>c. spc # "idle" => stops # 0
  BY SMT DEF Base, Control
<1> USE <1>a, <1>b, <1>c
       DEF Fresh, subVars, loopVars, stopVars, Return, GoOn
<1>1. CASE DeleteTerminated
  BY <1>1 DEF DeleteTerminated
<1>2. CASE DeleteErase
  BY <1>2 DEF DeleteErase
<1>3. CASE ClientInactiveTerminate
  BY <1>3 DEF ClientInactiveTerminate
<1>4. CASE ClientInactiveTerminated
  BY <1>4 DEF ClientInactiveTerminated
<1>5. CASE ClientInactiveErase
  BY <1>5 DEF ClientInactiveErase
<1>6. CASE GetIsReady
  BY <1>6 DEF GetIsReady
<1>7. CASE GetConstruct
  BY <1>7 DEF GetConstruct
<1>8. CASE GetActivate
  BY <1>8 DEF GetActivate
<1>9. CASE NextEvent
  BY <1>9 DEF NextEvent
<1>10. CASE ProcessEvent
  BY <1>10 DEF ProcessEvent
<1>11. CASE ClientDisconnected
  BY <1>11 DEF ClientDisconnected
<1>12. ASSUME NEW s \in Subs, Destructor(s) PROVE Fresh'
  BY <1>12 DEF Destructor
<1>13. ASSUME NEW s \in Subs, NEW u \in Users, EstablishSubscription(s, u)
      PROVE  Fresh'
  BY SMT, <1>13 DEF EstablishSubscription, LoopIdle
<1>14. ASSUME NEW s \in Subs, NEW u \in Users, NEW k \in BOOLEAN,
             DeleteSubscription(s, u, k)
      PROVE  Fresh'
  BY <1>14 DEF DeleteSubscription, LoopIdle
<1>15. ASSUME NEW s \in Subs, NEW u \in Users, NEW c \in Conns, Get(c, s, u)
      PROVE  Fresh'
  BY <1>15 DEF Get, LoopIdle
<1>16. ASSUME NEW c \in Conns, WaitCompletes(c) PROVE Fresh'
  BY <1>16 DEF WaitCompletes, LoopIdle
<1>17. ASSUME NEW c \in Conns, OnClose(c) PROVE Fresh'
  BY <1>17 DEF OnClose, LoopIdle
<1>18. ASSUME NEW c \in Conns, DestroyStream(c) PROVE Fresh'
  BY <1>18 DEF DestroyStream, LoopIdle
<1>19. ASSUME NEW s \in Subs, ClientInactive(s) PROVE Fresh'
  BY <1>19 DEF ClientInactive, LoopIdle
<1>20. CASE LoopStops
  BY <1>20 DEF LoopStops, LoopIdle
<1>21. CASE Stop
  BY SMT, <1>21 DEF Stop
<1>22. ASSUME NEW c \in Conns, CallSlot(c) PROVE Fresh'
  BY <1>22 DEF CallSlot
<1>23. CASE SlotTerminate
  BY <1>23 DEF SlotTerminate
<1>24. CASE SlotTerminated
  BY <1>24 DEF SlotTerminated
<1>25. CASE SlotWantToClose
  BY <1>25 DEF SlotWantToClose
<1>26. CASE StopSubscriptions
  BY <1>26 DEF StopSubscriptions
<1>27. ASSUME NEW s \in Subs, StopSubscription(s) PROVE Fresh'
  BY <1>27 DEF StopSubscription
<1>28. CASE StopReturns
  BY <1>28 DEF StopReturns
<1>29. ASSUME NEW s \in Subs, Notify(s) PROVE Fresh'
  BY <1>29 DEF Notify
<1>30. ASSUME NEW s \in Subs, StopTime(s) PROVE Fresh'
  BY <1>30 DEF StopTime
<1>31. ASSUME NEW s \in Subs, TimerExpires(s) PROVE Fresh'
  BY <1>31 DEF TimerExpires
<1>32. CASE UNCHANGED vars
  BY <1>32 DEF vars
<1> HIDE <1>a, <1>b, <1>c DEF Base, Fresh
<1> QED
  BY <1>1, <1>2, <1>3, <1>4, <1>5, <1>6, <1>7, <1>8, <1>9, <1>10, <1>11,
     <1>12, <1>13, <1>14, <1>15, <1>16, <1>17, <1>18, <1>19, <1>20, <1>21,
     <1>22, <1>23, <1>24, <1>25, <1>26, <1>27, <1>28, <1>29, <1>30, <1>31,
     <1>32
     DEF Next, Handler, Request, Stream, Stopper

\* clientConnected() of s runs although Server::stop() was called.
Revives(s) == stops > 0 /\ pc = "activate" /\ cur = s

\* Nothing else takes a subscription out of the state Terminating.
TerminatingIsFinal ==
  [][\A s \in Subs :
       state[s] = "Terminating" /\ state'[s] # "Terminating" => Revives(s)]_vars

(***************************************************************************)
(* Terminating is final, except that clientConnected() of a GET which has  *)
(* passed its check overwrites it: no other step undoes it, and before     *)
(* Server::stop() is called that one cannot either.                        *)
(***************************************************************************)
THEOREM OnlyActivationRevives == Spec => TerminatingIsFinal
<1>1. Init => Fresh
  BY DEF Init, Fresh
<1>2. IInv /\ Fresh /\ [Next]_vars => Fresh'
  BY NextFresh DEF IInv
<1>3. ASSUME IInv, Fresh, [Next]_vars, NEW s \in Subs,
             state[s] = "Terminating", state'[s] # "Terminating"
      PROVE  Revives(s)
  <2>1. state \in [Subs -> States] /\ stops \in Nat
    BY <1>3 DEF IInv, Base, TypeOK
  <2>2. CASE GetActivate
    <3>1. pc = "activate" /\ cur = s
      BY SMT, <1>3, <2>1, <2>2 DEF GetActivate
    <3> QED
      BY SMT, <1>3, <2>1, <3>1 DEF Fresh, Revives
  <2>3. CASE ClientDisconnected
    BY SMT, <1>3, <2>1, <2>3 DEF ClientDisconnected
  <2>4. ASSUME NEW t \in Subs, NEW u \in Users, EstablishSubscription(t, u)
        PROVE  FALSE
    BY SMT, <1>3, <2>1, <2>4 DEF EstablishSubscription, Fresh
  <2>5. CASE ClientInactiveTerminate \/ SlotTerminate
    BY SMT, <1>3, <2>1, <2>5 DEF ClientInactiveTerminate, SlotTerminate
  <2>6. ASSUME NEW t \in Subs, Destructor(t) \/ StopSubscription(t)
        PROVE  FALSE
    BY SMT, <1>3, <2>1, <2>6 DEF Destructor, StopSubscription
  <2>7. CASE state' = state
    BY <1>3, <2>7
  <2>8. \/ GetActivate \/ ClientDisconnected
        \/ ClientInactiveTerminate \/ SlotTerminate
        \/ \E t \in Subs : Destructor(t) \/ StopSubscription(t)
        \/ \E t \in Subs, u \in Users : EstablishSubscription(t, u)
        \/ state' = state
    BY <1>3
       DEF Next, Handler, Request, Stream, Stopper, vars, DeleteTerminated,
           DeleteErase, ClientInactiveTerminated, ClientInactiveErase,
           GetIsReady, GetConstruct, NextEvent, ProcessEvent,
           DeleteSubscription, Get, WaitCompletes, OnClose, DestroyStream,
           ClientInactive, LoopStops, Stop, CallSlot, SlotTerminated,
           SlotWantToClose, StopSubscriptions, StopReturns, Notify, StopTime,
           TimerExpires
  <2> QED
    BY <2>2, <2>3, <2>4, <2>5, <2>6, <2>7, <2>8
<1>4. IInv /\ Fresh /\ [Next]_vars =>
        [\A s \in Subs :
           state[s] = "Terminating" /\ state'[s] # "Terminating" =>
             Revives(s)]_vars
  BY <1>3
<1> QED
  BY <1>1, <1>2, <1>4, Invariance, PTL DEF Spec, TerminatingIsFinal
=============================================================================
