CONSTANTS
  h1 = h1
  h2 = h2
  Handler = {h1, h2}
  Port = {1, 2, 3, 4, 5}
  Proto = {"smtp", "pop3"}
  DefaultPort <- MCDefault
  Scenario <- MCScenario
  MaxInstalls = 2
  MaxAccounts = 2
SYMMETRY SymmetricHandlers
SPECIFICATION Spec
INVARIANT TypeOK
INVARIANT FileCurrent
INVARIANT SessionOfThisInstall
INVARIANT RowsKeepFiles
INVARIANT ConfigTellsPorts
INVARIANT ServedWhereTold
INVARIANT WebFollows
PROPERTY ResetLeavesOnlyNew
CHECK_DEADLOCK FALSE
