SPECIFICATION Spec
CONSTANTS
  Uploads = {u1}
  Chunks = {c1}
  Requests = {r1,r2}
  Nobody = Nobody
  Limit = 1
  MaxIncidents = 1
SYMMETRY Symmetry
INVARIANT OnlyOrphansSwept
CHECK_DEADLOCK FALSE
