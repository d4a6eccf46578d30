SPECIFICATION Spec
CONSTANTS
  Side = 8
  Starts <- ResetOnly
  Attempts <- KnightRaid
  MaxMoves = 7
CHECK_DEADLOCK FALSE
INVARIANT KingNotCaptured
