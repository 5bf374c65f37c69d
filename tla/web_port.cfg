CONSTANTS
  h1 = h1
  h2 = h2
  Handler = {h1}
  Port = {1, 2, 3, 4, 5}
  Proto = {"smtp", "pop3"}
  DefaultPort <- MCDefault
  Scenario <- MCTaken
  MaxInstalls = 1
  MaxAccounts = 1
SPECIFICATION Spec
INVARIANT TakenPortKept
CHECK_DEADLOCK FALSE
