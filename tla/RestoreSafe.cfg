SPECIFICATION FairSpec
CONSTANTS
  Backups = {full, dbonly}
  WithBooks = {full}
  Current = Current
  None = None
  Partial = Partial
  Requests = {r1, r2}
  MaxCrashes = 2
  MaxFaults = 2
INVARIANTS TypeOK NothingLost RollbackComplete
PROPERTIES ReapplyOnlyIfCut ForeignWalOnlyIfCut RestoreCompletes
