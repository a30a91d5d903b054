SPECIFICATION Spec
CONSTANTS
  Threads = {t1}
  Sizes = {1}
  Lens = {1}
  MaxBytes = 1
  MaxTerminations = 1
INVARIANT LateSlotFindsStream
CHECK_DEADLOCK FALSE
