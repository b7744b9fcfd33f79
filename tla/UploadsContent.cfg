SPECIFICATION Spec
CONSTANTS
  Uploads = {u1}
  Chunks = {c1,c2}
  Requests = {r1,r2,r3}
  Nobody = Nobody
  Limit = 1
  MaxIncidents = 3
SYMMETRY Symmetry
INVARIANTS TypeOK CountsMatchDisk ImportsAreIntact ImportsOnce
CHECK_DEADLOCK FALSE
