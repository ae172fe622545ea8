SPECIFICATION Spec
CONSTANTS
  Order = {o1}
  User = {u1}
  Request = {r1, r2, r3}
  RequestedStatus = {"pending", "processing", "shipped"}
  Overlap = TRUE
  Faults = FALSE
  None = None
SYMMETRY Symmetry
PROPERTIES
  DeleteIsFinal
