CONSTANTS
  ticker = ticker
  button = button
  Session = {ticker, button}
  Poller = ticker
  MaxMsg = 3
  MaxGone = 1
  MaxMishaps = 1
  MaxValidity = 2
  MaxSilent = 0
  SaveEvery = 2
  SeenCap = 2
SYMMETRY SymmetricPolls
SPECIFICATION Spec
CHECK_DEADLOCK FALSE
INVARIANT TypeOK
INVARIANT MarkCovers
INVARIANT LostOnlyIfMistaken
INVARIANT AgainBounded
