SPECIFICATION FairSpec
CONSTANTS
  Subs = {s1}
  Conns = {c1}
  Users = {root}
  RecoveryUser = root
  None = None
  MAX_EVENTS = 2
  MaxPipe = 0
  MaxStops = 1
PROPERTY UnusedIsRemoved
CHECK_DEADLOCK FALSE
