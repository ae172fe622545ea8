SPECIFICATION Spec
CONSTANTS
  User = {u1}
  Request = {r1, r2, r3, r4}
  Lifetime = 1
  MaxTime = 2
  Overlap = FALSE
  Faults = TRUE
  None = None
SYMMETRY Symmetry
INVARIANTS
  SingleUse
  OneTokenPerLogin
PROPERTIES
  NoGrantAfterLogout
