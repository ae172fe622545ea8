SPECIFICATION FairSpec
CONSTANTS
  Order = {o1}
  User = {u1, u2}
  Request = {r1, r2, r3, r4}
  RequestedStatus = {"pending", "shipped"}
  Overlap = TRUE
  Faults = TRUE
  None = None
INVARIANTS
  TypeOK
  EventsTruthful
  HeldStatusAnnounced
PROPERTIES
  EventuallyAnnounced
