CONSTANTS
  ticker = ticker
  button = button
  Session = {ticker}
  Poller = ticker
  MaxMsg = 1
  MaxGone = 0
  MaxMishaps = 0
  MaxValidity = 1
  MaxSilent = 1
  SaveEvery = 2
  SeenCap = 1
SPECIFICATION FairSpec
PROPERTY FetchesOverAnyTls
CHECK_DEADLOCK FALSE
