CONSTANTS
  c1 = c1
  c2 = c2
  Client = {c1}
  MaxScheduled = 1
  MaxSchedCrashes = 0
  MaxErrors = 0
SPECIFICATION Spec
PROPERTY CancelIsFinal
CHECK_DEADLOCK FALSE
