CONSTANTS
  c1 = c1
  c2 = c2
  Conn = {c1, c2}
  alice = alice
  bob = bob
  User = {alice, bob}
  Nobody = Nobody
  Flag = {"Deleted"}
  Date = {1}
  DefaultPage = 2
  MaxRows = 3
  MaxFolders = 4
  MaxUid = 3
  MaxRcpts = 2
  Scenario <- MCScenario
  Names = {"Work"}
SPECIFICATION Spec
INVARIANT TypeOK
INVARIANT SameNumbers
INVARIANT SmtpAnswerHolds
INVARIANT ComposeAnswerHolds
PROPERTY LostOnlyIfAsked
CHECK_DEADLOCK FALSE
