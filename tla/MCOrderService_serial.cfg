SPECIFICATION Spec
CONSTANTS
  Order = {o1, o2}
  User = {u1, u2}
  Request = {r1, r2, r3, r4}
  RequestedStatus = {"pending", "processing", "shipped"}
  Overlap = FALSE
  Faults = TRUE
  None = None
SYMMETRY Symmetry
INVARIANTS
  LastEventIsCurrent
PROPERTIES
  ImplementsOrderBook
