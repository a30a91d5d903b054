SPECIFICATION FairSpec
CONSTANTS
  Threads = {t1, t2}
  Sizes = {1, 3}
  Lens = {2, 3}
  MaxBytes = 4
  MaxTerminations = 2
INVARIANTS
  TypeOK
  NoLostWakeup
  StateMatchesQueue
  ExactDelivery
PROPERTIES
  ImplementsDelivery
  NoResumeAfterClose
  EventsAreDelivered
  TerminationCloses
CHECK_DEADLOCK FALSE
