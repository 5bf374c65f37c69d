CONSTANTS
  ticker = ticker
  button = button
  Session = {ticker, button}
  Poller = ticker
  MaxMsg = 2
  MaxGone = 0
  MaxMishaps = 1
  MaxValidity = 2
  MaxSilent = 1
  SaveEvery = 2
  SeenCap = 1
SPECIFICATION FairSpec
CHECK_DEADLOCK FALSE
PROPERTY EventuallyInInbox
PROPERTY TakenOffServer
