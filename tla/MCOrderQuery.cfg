SPECIFICATION Spec
CONSTANTS
  Orders = 4
  Status = {"pending", "shipped"}
  Dates = {3}
  Limit = 2
  MaxMoves = 3
  None = None
INVARIANTS
  TypeOK
  HiddenAtMostLeft
  RepeatedAtMostArrived
  TotalFits
  ExactWhenStill
