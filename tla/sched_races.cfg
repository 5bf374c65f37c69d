CONSTANTS
  c1 = c1
  c2 = c2
  Client = {c1, c2}
  MaxScheduled = 1
  MaxSchedCrashes = 2
  MaxErrors = 2
SPECIFICATION FairSpec
INVARIANT TypeOK
INVARIANT DispatchedOnce
PROPERTY CancelHolds
PROPERTY AnsweredGoesWhole
PROPERTY EventuallyQueued
CHECK_DEADLOCK FALSE
