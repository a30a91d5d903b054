--------------------------- MODULE OpticalEvents ---------------------------
(***************************************************************************)
(* The source of /telemetry/optics (src/src/sr/OpticalEvents.cpp) and its  *)
(* clients.  sysrepo calls onChange() in a thread of its own; the event    *)
(* loop reads currentData() and creates the event streams.  A stream       *)
(* appears here as the ordered channel that EventStream is shown to be:    *)
(* view[c] is what was accepted for client c.                              *)
(*                                                                         *)
(* The operational data of the module that is listened for is a version:   *)
(* every change makes the next one, and a dump reads the current one.      *)
(***************************************************************************)
EXTENDS Naturals, Sequences

CONSTANTS
  Clients,      \* requests for /telemetry/optics
  DeviceCount,  \* how many modules the constructor tries in turn
  MaxVersion    \* bound: no change of the data past this version

ASSUME OpticalAssumption == DeviceCount \in Nat /\ MaxVersion \in Nat

VARIABLES
  setup,     \* the constructor, which runs before the server accepts anybody
  tried,     \* its loop: modules that turned out not to exist
  sub,       \* OpticalEvents::sub has a value: sysrepo calls onChange()
  oper,      \* version of the operational data
  calls,     \* changes sysrepo did not call onChange() for yet
  lastData,  \* OpticalEvents::lastData
  lost,      \* history: the latest dump failed, lastData is an older one
  onchange,  \* "emitting": onChange() runs and holds mtx
  slots,     \* streams this emission of the signal still has to call
  stage,     \* stage[c]: the request of client c and its stream
  held,      \* held[c]: what currentData() returned for client c
  view,      \* view[c]: the versions enqueued for client c
  since      \* history: the version when the stream of client c connected

opticalVars == <<setup, tried, sub, oper, calls, lastData, lost, onchange,
                 slots, stage, held, view, since>>
source == <<setup, tried, sub, oper, calls, lastData, lost, onchange, slots>>
clients == <<stage, held, view, since>>

\* "asked": currentData() returned, the stream is not connected yet.
ClientStages == {"idle", "asked", "open", "ending", "closed"}

OpticalInit ==
  /\ setup = "subscribing" /\ tried = 0 /\ sub = FALSE
  /\ oper = 0 /\ calls = 0 /\ lastData = 0 /\ lost = FALSE
  /\ onchange = "idle" /\ slots = {}
  /\ stage = [c \in Clients |-> "idle"]
  /\ held = [c \in Clients |-> 0]
  /\ view = [c \in Clients |-> <<>>]
  /\ since = [c \in Clients |-> 0]

-----------------------------------------------------------------------------
(* The constructor. *)

\* A subscription that is replaced or destroyed waits for its callback; the
\* changes it did not report are forgotten with it.
Resubscribe(on) ==
  /\ onchange = "idle"
  /\ sub' = on
  /\ calls' = 0

\* Mutant of SubscribeToDevice: one turn too many.
SubscribeToDeviceOnceMore ==
  /\ setup = "subscribing"
  /\ tried <= DeviceCount
  /\ \/ Resubscribe(TRUE) /\ setup' = "dumping" /\ tried' = tried
     \/ UNCHANGED <<sub, calls, setup>> /\ tried' = tried + 1
  /\ UNCHANGED <<oper, lastData, lost, onchange, slots, clients>>

(***************************************************************************)
(* onModuleChange() for the next module: it succeeds, the module does not  *)
(* exist, or another error ends the construction of the server.            *)
(***************************************************************************)
SubscribeToDevice ==
  /\ setup = "subscribing"
  /\ tried < DeviceCount
  /\ \/ Resubscribe(TRUE) /\ setup' = "dumping" /\ tried' = tried
     \/ UNCHANGED <<sub, calls, setup>> /\ tried' = tried + 1
     \/ Resubscribe(FALSE) /\ setup' = "failed" /\ tried' = 0
  /\ UNCHANGED <<oper, lastData, lost, onchange, slots, clients>>

\* No module was found: telemetry stays disabled, the server runs.  A module
\* whose first dump was not found keeps its subscription.
NoDevice ==
  /\ setup = "subscribing"
  /\ tried = DeviceCount
  /\ setup' = "disabled"
  /\ tried' = 0
  /\ UNCHANGED <<sub, oper, calls, lastData, lost, onchange, slots, clients>>

(***************************************************************************)
(* The dump under mtx.  NotFound makes the loop go on with the next        *)
(* module, another error ends the construction of the server.              *)
(***************************************************************************)
FirstDump ==
  /\ setup = "dumping"
  /\ onchange = "idle"
  /\ \/ /\ setup' = "done" /\ tried' = 0
        /\ lastData' = oper /\ lost' = FALSE
        /\ UNCHANGED <<sub, calls>>
     \/ /\ setup' = "subscribing" /\ tried' = tried + 1
        /\ UNCHANGED <<sub, calls, lastData, lost>>
     \/ /\ setup' = "failed" /\ tried' = 0
        /\ Resubscribe(FALSE)
        /\ UNCHANGED <<lastData, lost>>
  /\ UNCHANGED <<oper, onchange, slots, clients>>

-----------------------------------------------------------------------------
(* sysrepo's thread. *)

\* External: somebody changes the operational data.
OperChange ==
  /\ sub
  /\ oper < MaxVersion
  /\ oper' = oper + 1
  /\ calls' = calls + 1
  /\ UNCHANGED <<setup, tried, sub, lastData, lost, onchange, slots, clients>>

\* Mutant of Connected: the stream connects before its initial event.
ConnectedEarly(c) == stage[c] \in {"asked", "open", "ending"}

\* The slot of the stream is connected to the signal.
Connected(c) == stage[c] \in {"open", "ending"}

\* EventStream::enqueue()
EnqueueFor(c, v) ==
  view' = IF stage[c] \in {"ending", "closed"} THEN view
          ELSE [view EXCEPT ![c] = Append(@, v)]

\* Mutant of onChange: data that were empty are taken for the first dump.
onChangeFirstIsSilent ==
  /\ sub
  /\ calls > 0
  /\ onchange = "idle"
  /\ calls' = calls - 1
  /\ lastData' = oper
  /\ lost' = FALSE
  /\ onchange' = "emitting"
  /\ slots' = {c \in Clients : Connected(c) /\ lastData # 0}
  /\ UNCHANGED <<setup, tried, sub, oper, clients>>

(***************************************************************************)
(* onChange() takes mtx, dumps the data as they are now, and emits the     *)
(* signal with mtx held.  The signal calls the slots connected when the    *)
(* emission starts, one after the other, unless they disconnected.  When   *)
(* the dump throws, nothing is stored or emitted: sysrepo gets the error,  *)
(* does not repeat the call, and the clients keep what they have.          *)
(***************************************************************************)
onChange ==
  /\ sub
  /\ calls > 0
  /\ onchange = "idle"
  /\ calls' = calls - 1
  /\ \/ /\ lastData' = oper
        /\ lost' = FALSE
        /\ onchange' = "emitting"
        /\ slots' = {c \in Clients : Connected(c)}
     \/ /\ lost' = TRUE
        /\ UNCHANGED <<lastData, onchange, slots>>
  /\ UNCHANGED <<setup, tried, sub, oper, clients>>

CallSlot ==
  /\ onchange = "emitting"
  /\ \E c \in slots :
       /\ slots' = slots \ {c}
       /\ IF Connected(c) THEN EnqueueFor(c, lastData) ELSE UNCHANGED view
  /\ UNCHANGED <<setup, tried, sub, oper, calls, lastData, lost, onchange,
                 stage, held, since>>

ChangeReturns ==
  /\ onchange = "emitting"
  /\ slots = {}
  /\ onchange' = "idle"
  /\ UNCHANGED <<setup, tried, sub, oper, calls, lastData, lost, slots, clients>>

-----------------------------------------------------------------------------
(* The handler of /telemetry/optics, in the event loop. *)

\* currentData() waits for mtx.
currentData(c) ==
  /\ setup \in {"done", "disabled"}
  /\ stage[c] = "idle"
  /\ onchange = "idle"
  /\ held' = [held EXCEPT ![c] = lastData]
  /\ stage' = [stage EXCEPT ![c] = "asked"]
  /\ UNCHANGED <<source, view, since>>

\* EventStream::create(): the initial event is enqueued, the slot connects.
OpenTelemetry(c) ==
  /\ stage[c] = "asked"
  /\ EnqueueFor(c, held[c])
  /\ stage' = [stage EXCEPT ![c] = "open"]
  /\ since' = [since EXCEPT ![c] = oper]
  /\ UNCHANGED <<source, held>>

\* The termination slot, in the thread that stops the server.
EndTelemetry(c) ==
  /\ stage[c] = "open"
  /\ stage' = [stage EXCEPT ![c] = "ending"]
  /\ UNCHANGED <<source, held, view, since>>

\* on_close() disconnects the slots.
CloseTelemetry(c) ==
  /\ stage[c] \in {"open", "ending"}
  /\ stage' = [stage EXCEPT ![c] = "closed"]
  /\ UNCHANGED <<source, held, view, since>>

Construction == SubscribeToDevice \/ NoDevice \/ FirstDump

-----------------------------------------------------------------------------

OpticalTypeOK ==
  /\ setup \in {"subscribing", "dumping", "done", "disabled", "failed"}
  /\ tried \in 0 .. DeviceCount /\ sub \in BOOLEAN
  /\ oper \in 0 .. MaxVersion /\ calls \in 0 .. MaxVersion
  /\ lastData \in 0 .. MaxVersion /\ lost \in BOOLEAN
  /\ onchange \in {"idle", "emitting"} /\ slots \subseteq Clients
  /\ stage \in [Clients -> ClientStages]
  /\ held \in [Clients -> 0 .. MaxVersion]
  /\ view \in [Clients -> Seq(0 .. MaxVersion)]
  /\ since \in [Clients -> 0 .. MaxVersion]

(***************************************************************************)
(* A telemetry client never gets data older than what it already has:      *)
(* the initial event is read before the stream connects and enqueued       *)
(* before it can be called, and every dump happens under mtx together with *)
(* its emission.                                                           *)
(***************************************************************************)
ViewNeverGoesBack ==
  \A c \in Clients : \A i \in 1 .. Len(view[c]) - 1 :
    view[c][i] <= view[c][i + 1]

(***************************************************************************)
(* A client whose stream connected before a change gets the current data,  *)
(* unless the stream ends first: onChange() is called until no change is   *)
(* left, and then the client has the data as they are, or the last dump    *)
(* failed.  Two things are not covered because onChange() does not cover   *)
(* them: a change between currentData() and the connect, and one whose     *)
(* dump throws.  Both are only sent with the next change.                  *)
(***************************************************************************)
TelemetryConverges ==
  \A c \in Clients :
    (stage[c] = "open" /\ since[c] < oper)
      ~> \/ stage[c] # "open"
         \/ /\ calls = 0 /\ onchange = "idle"
            /\ lost \/ view[c][Len(view[c])] = oper
=============================================================================
