SPECIFICATION Spec
CONSTANTS
  Backups = {full, dbonly}
  WithBooks = {full}
  Current = Current
  None = None
  Partial = Partial
  Requests = {r1, r2}
  MaxCrashes = 0
  MaxFaults = 0
INVARIANT OnlyValidatedApplied
