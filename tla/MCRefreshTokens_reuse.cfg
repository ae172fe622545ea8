SPECIFICATION Spec
CONSTANTS
  User = {u1}
  Request = {r1, r2, r3}
  Lifetime = 1
  MaxTime = 2
  Overlap = TRUE
  Faults = FALSE
  None = None
SYMMETRY Symmetry
INVARIANTS
  SingleUse
