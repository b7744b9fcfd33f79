SPECIFICATION Spec
CONSTANTS
  Procs = {p1, p2, p3}
  None = None
  MaxActive = 2
  MaxTries = 2
  MaxTokens = 3
  MaxOps = 4
SYMMETRY Symmetry
INVARIANTS TypeOK RevocationFinal RotatedOnce NoSessionLost SignedInIsAdmitted
CHECK_DEADLOCK FALSE
