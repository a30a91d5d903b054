SPECIFICATION Spec
CONSTANTS
  Subs = {s1}
  Conns = {c1, c2}
  Users = {root}
  RecoveryUser = root
  None = None
  MAX_EVENTS = 2
  MaxPipe = 0
  MaxStops = 1
INVARIANT ServedIsNotInactive
CHECK_DEADLOCK FALSE
