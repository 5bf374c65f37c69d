CONSTANTS
  w1 = w1
  w2 = w2
  Worker = {w1, w2}
  None = None
  Inbox = Inbox
  Trash = Trash
  Work = Work
  Name = {Inbox, Trash}
  SysNames <- MCSysNames
  MaxAccounts = 1
  MaxFolders = 2
  MaxBlobs = 2
  MaxUid = 1
  MaxCrashes = 1
SYMMETRY WorkerSymmetry
SPECIFICATION Spec
INVARIANT TypeOK
INVARIANT UidNeverReused
INVARIANT Conserved
INVARIANT NoLeak
INVARIANT GivenBack
PROPERTY UidSpec
CHECK_DEADLOCK FALSE
