-------------------------- MODULE MCStreamSources --------------------------
(* An instance of StreamSources for TLC. *)
EXTENDS StreamSources

CONSTANTS alarms, system, library, sysrepo, c1, c2

\* A module without notifications comes between two that have some.
MCModuleList == <<alarms, library, sysrepo, system>>
MCImplemented == {alarms, library, sysrepo, system}
MCNotifying == {alarms, sysrepo, system}

Silent == [m \in Modules |-> 0]
NoTimes == [start |-> Absent, stop |-> Absent]

\* Telemetry alone, a notification stream alone, and both with less traffic.
TelemetryLoads ==
  {[clients |-> {c1, c2}, versions |-> 2, wanted |-> FALSE, times |-> NoTimes,
    notifications |-> Silent]}
StreamLoads ==
  {[clients |-> {}, versions |-> 0, wanted |-> TRUE, times |-> t,
    notifications |-> [Silent EXCEPT ![alarms] = 2, ![system] = 1]] :
     t \in Times}
MixedLoads ==
  {[clients |-> {c1}, versions |-> 1, wanted |-> TRUE,
    times |-> [start |-> "past", stop |-> Absent],
    notifications |-> [Silent EXCEPT ![alarms] = 1]]}

MCWorkloads == TelemetryLoads \cup StreamLoads \cup MixedLoads
=============================================================================
