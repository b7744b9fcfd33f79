SPECIFICATION FairSpec
CONSTANTS
  Jobs = {j1, j2}
  Workers = {w1, w2}
  NoJob = NoJob
  BufferSize = 1
  Keep = 1
  MaxRestarts = 1
  MaxFaults = 1
INVARIANTS
  TypeOK SingleCopy InFlightUnfinished NoOrphanRow RerunOnlyUnrecorded RejectedNeverRuns
  RecoveryFits
PROPERTIES LifecycleSpec AcceptedFinishes StopDrains
CHECK_DEADLOCK FALSE
