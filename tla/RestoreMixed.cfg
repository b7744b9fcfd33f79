SPECIFICATION Spec
CONSTANTS
  Backups = {full, dbonly}
  WithBooks = {full}
  Current = Current
  None = None
  Partial = Partial
  Requests = {r1, r2}
  MaxCrashes = 1
  MaxFaults = 0
INVARIANT StartsWithCurrentData
