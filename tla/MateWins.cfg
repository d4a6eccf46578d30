SPECIFICATION Spec
CONSTANTS
  Side = 8
  Starts <- ResetOnly
  Attempts <- FoolsMate
  MaxMoves = 4
CHECK_DEADLOCK FALSE
INVARIANT MateWins
