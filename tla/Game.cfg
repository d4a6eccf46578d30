SPECIFICATION Spec
CONSTANTS
  Side = 5
  Starts <- SmallStarts
  Attempts <- AnyMove
  MaxMoves = 4
CHECK_DEADLOCK FALSE
INVARIANTS TypeOK AcceptsChess KingsSafe EndsWhenStuck FenRoundTrip ReportIsBoard
PROPERTIES OnePieceMoves PlaysInTurn ReportsJudged
