SPECIFICATION StreamSpec
CONSTANTS
  Plans <- TwoPlans
  FallbackBars = 8
  ChunkBars = 4
  MaxTotalBars = 10
  CallTries = 2
  CallCosts = {0, 1, 2}
  Budget = 18
  Margin = 2
INVARIANTS
  StreamTypeOK
  PieceInOrder
  SpendBounded
  EndsSquare
PROPERTY StreamEnds
CHECK_DEADLOCK FALSE
