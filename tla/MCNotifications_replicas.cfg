SPECIFICATION Spec
CONSTANTS
  Replica = {p1, p2}
  User = {u1, u2}
  Socket = {s1, s2}
  Event = {e1, e2}
  Faults = TRUE
  None = None
SYMMETRY Symmetry
INVARIANTS
  TypeOK
  SavedFirst
  PushedOnce
  RegistryExact
