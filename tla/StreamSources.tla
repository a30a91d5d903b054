--------------------------- MODULE StreamSources ---------------------------
(***************************************************************************)
(* The sources of the event streams of one server: the telemetry of        *)
(* OpticalEvents and a NETCONF notification stream.  What they share is    *)
(* the event loop.  While one of its handlers waits, for a mutex or for    *)
(* sysrepo, no other handler runs; when one lets an exception escape, the  *)
(* loop is over.  The callbacks of sysrepo go on in both cases.            *)
(***************************************************************************)
EXTENDS OpticalEvents, NotificationStream

CONSTANT
  Workloads   \* what the environment may do at most: see load

ASSUME WorkloadAssumption == \A w \in Workloads : w.clients \subseteq Clients

\* The clients of the telemetry, the version its data reach, whether there is
\* a request for notifications, and how many each module sends.
VARIABLE load

vars == <<opticalVars, streamVars, load>>

TelemetryHandlerRuns == \E c \in Clients : stage[c] = "asked"

StreamsHandlerRuns == nstage \in {"subscribing", "unwinding", "released"}

\* Server's constructor is done, and run() of the io_context did not throw.
LoopRuns == setup \in {"done", "disabled"} /\ status # 1

LoopIsFree == LoopRuns /\ ~TelemetryHandlerRuns /\ ~StreamsHandlerRuns

Init ==
  /\ load \in Workloads
  /\ OpticalInit
  /\ NotificationInit
  /\ times = load.times

\* The handlers of the event loop and the steps of those that run.
TelemetryHandler ==
  /\ \/ LoopIsFree /\ \E c \in load.clients : currentData(c) \/ CloseTelemetry(c)
     \/ \E c \in Clients : OpenTelemetry(c)
  /\ UNCHANGED streamVars

StreamsHandler ==
  /\ \/ LoopIsFree /\ load.wanted /\ (Construct \/ CloseNotifications)
     \/ SubscribeNext \/ ActivateStream
     \/ DestroySubscriptions \/ DestroyStream
  /\ UNCHANGED opticalVars

\* shutdownRequested(), in another thread.
Shutdown ==
  \/ (\E c \in Clients : EndTelemetry(c)) /\ UNCHANGED streamVars
  \/ EndNotifications /\ UNCHANGED opticalVars

\* sysrepo and what it runs in its threads.
Startup == Construction /\ UNCHANGED streamVars
OpticalThread == (onChange \/ CallSlot \/ ChangeReturns) /\ UNCHANGED streamVars
NotificationThread == (SysrepoCalls \/ notifCb) /\ UNCHANGED opticalVars
Environment ==
  \/ oper < load.versions /\ OperChange /\ UNCHANGED streamVars
  \/ /\ LoopRuns
     /\ \E m \in Modules : published[m] < load.notifications[m] /\ Publish(m)
     /\ UNCHANGED opticalVars

Next ==
  /\ \/ Startup \/ TelemetryHandler \/ StreamsHandler \/ Shutdown
     \/ OpticalThread \/ NotificationThread \/ Environment
  /\ UNCHANGED load

Spec == Init /\ [][Next]_vars

(***************************************************************************)
(* The threads of sysrepo run, and so does the event loop once a handler   *)
(* started: a step of it that waits for a callback has to wait for fair    *)
(* threads only.  Clients, publishers and the shutdown need not act.       *)
(***************************************************************************)
FairSpec ==
  /\ Spec
  /\ WF_vars(OpticalThread /\ UNCHANGED load)
  /\ WF_vars(NotificationThread /\ UNCHANGED load)
  /\ WF_vars(StreamsHandlerRuns /\ StreamsHandler /\ UNCHANGED load)
  /\ WF_vars(TelemetryHandlerRuns /\ TelemetryHandler /\ UNCHANGED load)

TypeOK == load \in Workloads /\ OpticalTypeOK /\ NotificationTypeOK
=============================================================================
