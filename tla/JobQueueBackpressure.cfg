SPECIFICATION Spec
CONSTANTS
  Jobs = {j1, j2, j3, j4}
  Workers = {w1}
  NoJob = NoJob
  BufferSize = 1
  Keep = 1
  MaxRestarts = 0
  MaxFaults = 0
SYMMETRY Symmetry
INVARIANT ChannelIsOnlyBound
CHECK_DEADLOCK FALSE
