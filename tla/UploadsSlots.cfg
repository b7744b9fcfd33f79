SPECIFICATION FairSpec
CONSTANTS
  Uploads = {u1,u2}
  Chunks = {c1}
  Requests = {r1,r2}
  Nobody = Nobody
  Limit = 1
  MaxIncidents = 1
INVARIANTS SlotsMatch LimitHolds DirsOwned
PROPERTY RequestsReturn
CHECK_DEADLOCK FALSE
