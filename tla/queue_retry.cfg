CONSTANTS
  ticker = ticker
  flush = flush
  r1 = r1
  r2 = r2
  Processor = {ticker, flush}
  Rcpt = {r1, r2}
  None = None
  MaxAttempts = 2
  MaxItems = 2
  MaxCrashes = 1
  MaxFaults = 1
SPECIFICATION FairSpec
INVARIANT TypeOK
INVARIANT CopiesBounded
INVARIANT NeverGivesUpEarly
PROPERTY NoCopyOnceSettled
PROPERTY EventuallySettled
PROPERTY OutboundSpec
CHECK_DEADLOCK FALSE
