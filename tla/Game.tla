-------------------------------- MODULE Game --------------------------------
(***************************************************************************)
(* engine::Game (src/ChessJam/Engine/Game.h): a board, played on with      *)
(* makeMove until checkGameEnd says that it is over.                       *)
(*                                                                         *)
(* A move that is refused changes nothing.  moveHistory and lastMoveColor  *)
(* are written and never read, and are left out.                           *)
(***************************************************************************)
EXTENDS Rules, Chess, Fen, Locators

CONSTANTS
  Starts,      \* boards a game may be played from: the server's games start
               \* from the one of reset
  Attempts,    \* the <<from, to>> that players send, as locators
  MaxMoves     \* moves looked at (bounds moveCount)

VARIABLES board, status, moveCount

vars == <<board, status, moveCount>>

\* No pawn stands on the first or the last rank.
PawnsInside(b) ==
  \A sq \in Squares : KindOf(b, sq) = "Pawn" => RankOf(sq) \in 1..(Side - 2)

ASSUME StartsAssumption   == \A b \in Starts : b \in Boards /\ PawnsInside(b)
ASSUME AttemptsAssumption ==
  \A m \in Attempts : \A loc \in {m[1], m[2]} : loc.file \in Codes /\ loc.rank \in Codes
ASSUME MaxMovesAssumption == MaxMoves \in Nat

(* The text that reset parses, for Side = 8.                               *)
ResetFen ==
  LET rank(chars) == chars \o <<Slash>>
      pawns(char) == rank([f \in 1..8 |-> char])
      empty       == rank(<<"8">>)
  IN  rank(<<"r", "n", "b", "q", "k", "b", "n", "r">>) \o pawns("p")
        \o empty \o empty \o empty \o empty
        \o pawns("P") \o <<"R", "N", "B", "Q", "K", "B", "N", "R", Space, "w">>

Init ==
  /\ board \in Starts
  /\ status = "Ongoing"
  /\ moveCount = 0

\* Mutant: a pawn stays a pawn.
PlacedAsIs(b, from, to) ==
  [b.squares EXCEPT ![from] = Empty, ![to] = b.squares[from]]

\* Mutant: the square the piece came from is not cleared.
PlacedTwice(b, from, to) == [b.squares EXCEPT ![to] = b.squares[from]]

(* Any pawn on the first or last rank becomes a queen.                     *)
Placed(b, from, to) ==
  LET piece == b.squares[from]
      lands == IF piece.kind = "Pawn" /\ RankOf(to) \in {0, Side - 1}
               THEN Piece("Queen", piece.color) ELSE piece
  IN  [b.squares EXCEPT ![from] = Empty, ![to] = lands]

\* Mutant: the turn does not pass.
AfterTurnKept(b, from, to) == [squares |-> Placed(b, from, to), active |-> b.active]

After(b, from, to) == [squares |-> Placed(b, from, to), active |-> Opponent(b.active)]

MakeMove(from, to) ==
  /\ status = "Ongoing"
  /\ moveCount < MaxMoves
  /\ IsLegal(board, Move(from, to, "Queen"))
  /\ board' = After(board, from, to)
  /\ moveCount' = moveCount + 1
  /\ status' = StatusOf(CheckGameEnd(board'))

\* makeMove by locators, as applyMove calls it.
MakeMoveSaid(from, to) ==
  LET f == LocatorToSquare(from)
      t == LocatorToSquare(to)
  IN  f # Invalid /\ t # Invalid /\ MakeMove(f, t)

Next == \E m \in Attempts : MakeMoveSaid(m[1], m[2])

Spec == Init /\ [][Next]_vars

-----------------------------------------------------------------------------
(* The board is one, and no pawn stands where it must have been promoted.  *)
TypeOK ==
  /\ board \in Boards
  /\ PawnsInside(board)
  /\ status \in Statuses
  /\ moveCount \in 0..MaxMoves

(* What isLegal accepts, with its pseudo-legal generation, its trial board *)
(* on which every pawn that moves turns into a queen, and its search for   *)
(* attackers outwards from the king, is what chess allows: no move more,   *)
(* none less.                                                              *)
AcceptsChess ==
  {<<m.from, m.to>> : m \in {n \in GenerateMoves(board) : IsLegal(board, n)}}
    = LegalMoves(board)

(* Whoever has just moved has not left or put their king in check, and so  *)
(* no king is ever captured, which findPiece and isInCheck depend on.      *)
KingsSafe ==
  /\ \A color \in Colors : \E k \in Squares : Found(board, "King", color) = {k}
  /\ ~InCheck(board, Opponent(board.active))

(* The game goes on exactly as long as the side to move can.               *)
EndsWhenStuck ==
  moveCount > 0 => (status = "Ongoing" <=> LegalMoves(board) # {})

(* A move costs the mover nothing and the opponent at most one piece, and  *)
(* what stood elsewhere stays.                                             *)
Men(b, color) == {sq \in Squares : Own(b, sq, color)}
OnePieceMoves ==
  [][LET mover == board.active
         other == Opponent(mover)
     IN  /\ \E from \in Men(board, mover) : \E to \in Squares \ Men(board, mover) :
              /\ Men(board', mover) = (Men(board, mover) \ {from}) \cup {to}
              /\ Men(board', other) = Men(board, other) \ {to}
         /\ \A color \in Colors : \A sq \in Men(board, color) \cap Men(board', color) :
              board'.squares[sq] = board.squares[sq]]_vars

(* Seen from outside, the engine plays as SessionManager takes it to: one  *)
(* move at a time, the turn passing with each, and none after the end.     *)
PlaysInTurn ==
  [][[status |-> status', turn |-> board'.active]
       \in GamesAfterMove([status |-> status, turn |-> board.active])]_vars

(* What a client is sent as GameState, parsed again, is the board.         *)
FenRoundTrip == Parse(Generate(board)) = [ok |-> TRUE, board |-> board]

(* The locators the server holds a board to be, read as it reads those of  *)
(* a move, name every man once and where it stands: whatever may be moved  *)
(* can be said.                                                            *)
ReportIsBoard ==
  LET pawns == PawnState(board) IN
  \A sq \in Squares :
    LET here == {i \in DOMAIN pawns : LocatorToSquare(pawns[i]) = sq} IN
    IF IsEmpty(board, sq) THEN here = {}
    ELSE \E i \in DOMAIN pawns : here = {i} /\ pawns[i] = LocatorAt(board, sq)

(* VerifyGameState holds a client to the board as it is: the men in any    *)
(* order are accepted, and those before the last move, with one left out   *)
(* or with one said twice are not.                                         *)
ReportsJudged ==
  [][LET pawns == PawnState(board')
         n     == Len(pawns)
     IN  /\ Verified(board', [i \in 1..n |-> pawns[n + 1 - i]])
         /\ ~Verified(board', PawnState(board))
         /\ ~Verified(board', Tail(pawns))
         /\ ~Verified(board', Append(pawns, pawns[1]))]_vars

-----------------------------------------------------------------------------
(* Rules.cpp:259 "checkmate - the side that just moved wins".              *)
MateWins ==
  moveCount > 0 /\ Checkmate(board) =>
    status = IF board.active = "White" THEN "BlackWins" ELSE "WhiteWins"

(* Rules.cpp:206 "king captured (shouldn't happen)".                       *)
KingNotCaptured == \A color \in Colors : Found(board, "King", color) # {}
=============================================================================
