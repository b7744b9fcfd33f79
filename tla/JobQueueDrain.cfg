SPECIFICATION Spec
CONSTANTS
  Jobs = {j1}
  Workers = {w1}
  NoJob = NoJob
  BufferSize = 1
  Keep = 1
  MaxRestarts = 0
  MaxFaults = 0
INVARIANT RunningIsRunning
CHECK_DEADLOCK FALSE
