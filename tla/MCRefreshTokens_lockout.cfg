SPECIFICATION Spec
CONSTANTS
  User = {u1}
  Request = {r1, r2}
  Lifetime = 1
  MaxTime = 1
  Overlap = FALSE
  Faults = FALSE
  None = None
SYMMETRY Symmetry
INVARIANTS
  RevokeAndIssue
