SPECIFICATION Spec
CONSTANTS
  User = {u1}
  Request = {r1, r2, r3, r4}
  Lifetime = 1
  MaxTime = 2
  Overlap = TRUE
  Faults = TRUE
  None = None
SYMMETRY Symmetry
INVARIANTS
  TypeOK
  OrphansRevoked
  ParentSpent
  LoggedOutDead
PROPERTIES
  ImplementsTokenLife
