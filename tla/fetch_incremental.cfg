CONSTANTS
  ticker = ticker
  button = button
  Session = {ticker}
  Poller = ticker
  MaxMsg = 1
  MaxGone = 0
  MaxMishaps = 0
  MaxValidity = 1
  MaxSilent = 0
  SaveEvery = 2
  SeenCap = 1
SPECIFICATION Spec
INVARIANT Incremental
CHECK_DEADLOCK FALSE
