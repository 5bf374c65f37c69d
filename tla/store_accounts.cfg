CONSTANTS
  w1 = w1
  w2 = w2
  Worker = {w1, w2}
  None = None
  Inbox = Inbox
  Trash = Trash
  Work = Work
  Name = {Inbox, Trash, Work}
  SysNames <- MCInboxOnly
  MaxAccounts = 2
  MaxFolders = 2
  MaxBlobs = 1
  MaxUid = 1
  MaxCrashes = 0
SPECIFICATION FairSpec
INVARIANT OwnFolder
INVARIANT InboxMade
PROPERTY InboxKept
PROPERTY CallsEnd
CHECK_DEADLOCK FALSE
