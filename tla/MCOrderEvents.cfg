SPECIFICATION FairSpec
CONSTANTS
  Order = {o1}
  User = {u1, u2}
  Request = {r1, r2}
  RequestedStatus = {"shipped"}
  Overlap = TRUE
  Replica = {p1, p2}
  Socket = {s1}
  Faults = TRUE
  None = None
ACTION_CONSTRAINTS
  SparesOnlyWork
  FewAtOnce
INVARIANTS
  TypeOK
  InboxTruthful
PROPERTIES
  DeliversMail
  StatusReachesCustomer
  QueuedIsSent
