SPECIFICATION FairSpec
CONSTANTS
  Address = {a1, a2}
  Request = {1, 2}
  Used = {"health", "hello", "unknown", "refresh", "adminOnly", "orders", "bare"}
  StrategyIn = {"auth"}
  Limit = 1
  MaxTime = 1
  Faults = TRUE
  None = None
ACTION_CONSTRAINT
  WithoutRepeats
INVARIANTS
  TypeOK
  AnswerTruthful
  VerdictJust
  CountersAgree
  LimitedByOwnHits
PROPERTIES
  EventuallyAnswered
