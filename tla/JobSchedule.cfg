SPECIFICATION FairSpec
CONSTANTS
  Procs = {p1, p2}
  Schedules = {s1}
  Intervals = {2}
  RetryAfter = 1
  Nothing = Nothing
  MaxTime = 3
  MaxWrites = 2
  MaxFaults = 1
INVARIANTS TypeOK NeverEarly OutdatedIsExplained LostOnlyIfCut
PROPERTY DueIsServed
CHECK_DEADLOCK FALSE
