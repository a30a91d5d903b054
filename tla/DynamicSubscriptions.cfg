SPECIFICATION FairSpec
CONSTANTS
  Subs = {s1}
  Conns = {c1, c2}
  Users = {root}
  RecoveryUser = root
  None = None
  MAX_EVENTS = 3
  MaxPipe = 1
  MaxStops = 1
INVARIANTS
  TypeOK
  OneReceiver
  NoUseAfterFree
  EventsExcludeTermination
  RemovedIsTerminated
  NotTimedWhileActive
PROPERTIES
  AbandonedIsRemoved
  HandlersEnd
CHECK_DEADLOCK FALSE
