------------------------------- MODULE Rules --------------------------------
(***************************************************************************)
(* engine::Rules (src/ChessJam/Engine/Rules.cpp): pseudo-legal moves by    *)
(* kind of piece, attacked squares found by looking outwards from the      *)
(* square, legality by trying the move, and the end of the game.           *)
(***************************************************************************)
EXTENDS Board

\* Offsets as <<file, rank>>.
Lines       == {<<1, 0>>, <<-1, 0>>, <<0, 1>>, <<0, -1>>}
Diagonals   == {<<1, 1>>, <<1, -1>>, <<-1, 1>>, <<-1, -1>>}
KnightJumps == \* kKnightDx, kKnightDy: eight entries, two of them twice
  {<<1, 2>>, <<1, -2>>, <<2, 1>>, <<2, -1>>, <<-1, 2>>, <<-2, -1>>}

File(sq, d, k)  == FileOf(sq) + k * d[1]
Rank(sq, d, k)  == RankOf(sq) + k * d[2]
Inside(sq, d, k) == OnBoard(File(sq, d, k), Rank(sq, d, k))
Shift(sq, d, k) == At(File(sq, d, k), Rank(sq, d, k))

Neighbours(sq, offsets) == {Shift(sq, d, 1) : d \in {e \in offsets : Inside(sq, e, 1)}}

\* Mutant: a slider goes on behind the first piece.
SeeThrough(b, sq, offsets) ==
  UNION {{Shift(sq, d, k) : k \in {n \in 1..(Side - 1) : Inside(sq, d, n)}} : d \in offsets}

\* Along each direction up to the edge, or to the first piece and including it.
InSight(b, sq, offsets) ==
  UNION {{Shift(sq, d, k) : k \in {n \in 1..(Side - 1) :
            /\ Inside(sq, d, n)
            /\ \A j \in 1..(n - 1) : IsEmpty(b, Shift(sq, d, j))}} : d \in offsets}

-----------------------------------------------------------------------------
Promotions == {"Queen", "Rook", "Bishop", "Knight"}

\* A Move's promotion is Queen unless it is said to be another.
Move(from, to, promotion) == [from |-> from, to |-> to, promotion |-> promotion]

PawnPushes(b, sq, color) ==
  LET ahead(n) == At(FileOf(sq), RankOf(sq) + n * Forward(color))
      free(n)  == ahead(n) \in Squares /\ IsEmpty(b, ahead(n))
  IN  {ahead(n) : n \in {k \in 1..2 : /\ free(1)
                                      /\ k = 2 => RankOf(sq) = PawnRank(color) /\ free(2)}}

PawnSteps(color) == {<<-1, Forward(color)>>, <<1, Forward(color)>>}

PawnTargets(b, sq, color) ==
  PawnPushes(b, sq, color)
    \cup {to \in Neighbours(sq, PawnSteps(color)) : Own(b, to, Opponent(color))}

PieceTargets(b, sq) ==
  LET kind == KindOf(b, sq) IN
  {to \in (IF kind = "Knight" THEN Neighbours(sq, KnightJumps)
           ELSE IF kind = "King" THEN Neighbours(sq, Lines \cup Diagonals)
           ELSE IF kind = "Bishop" THEN InSight(b, sq, Diagonals)
           ELSE IF kind = "Rook" THEN InSight(b, sq, Lines)
           ELSE InSight(b, sq, Lines \cup Diagonals)) :
     ~Own(b, to, ColorOf(b, sq))}

(* generateMoves, for one square of the colour to move.                    *)
MovesFrom(b, sq) ==
  IF ~Own(b, sq, b.active) THEN {}
  ELSE IF KindOf(b, sq) = "Pawn"
       THEN UNION {{Move(sq, to, p) :
              p \in IF RankOf(to) = LastRank(b.active) THEN Promotions ELSE {"Queen"}} :
              to \in PawnTargets(b, sq, b.active)}
       ELSE {Move(sq, to, "Queen") : to \in PieceTargets(b, sq)}

GenerateMoves(b) == UNION {MovesFrom(b, sq) : sq \in Squares}

(* isPseudoLegal looks the move up among all those generated.              *)
IsPseudoLegal(b, m) == m.from \in Squares /\ m.to \in Squares /\ m \in MovesFrom(b, m.from)

-----------------------------------------------------------------------------
IsSquareAttacked(b, sq, by) ==
  LET at(squares, kinds) == \E s \in squares : ~IsEmpty(b, s) /\ ColorOf(b, s) = by
                                               /\ KindOf(b, s) \in kinds
  IN  \/ at(Neighbours(sq, PawnSteps(Opponent(by))), {"Pawn"})
      \/ at(Neighbours(sq, KnightJumps), {"Knight"})
      \/ at(Neighbours(sq, Lines \cup Diagonals), {"King"})
      \/ at(InSight(b, sq, Diagonals), {"Bishop", "Queen"})
      \/ at(InSight(b, sq, Lines), {"Rook", "Queen"})

(* applyMove, on a copy and without a change of turn: every pawn move that *)
(* names another piece, promoting or not, puts that piece down.            *)
Tried(b, m) ==
  LET piece == b.squares[m.from]
      down  == IF piece.kind = "Pawn" THEN Piece(m.promotion, piece.color) ELSE piece
  IN  [b EXCEPT !.squares = [@ EXCEPT ![m.from] = Empty, ![m.to] = down]]

\* isSquareAttacked of the first king; whose is nowhere is in check.
IsInCheck(b, color) ==
  LET kings == Found(b, "King", color)
  IN  \/ kings = {}
      \/ IsSquareAttacked(b, CHOOSE k \in kings : \A s \in kings : k <= s, Opponent(color))

\* Mutant: the king's safety is not looked at.
LegalWithoutKing(b, m) == IsPseudoLegal(b, m)

IsLegal(b, m) == IsPseudoLegal(b, m) /\ ~IsInCheck(Tried(b, m), b.active)

HasLegalMoves(b, color) ==
  LET copy == [b EXCEPT !.active = color]
  IN  \E m \in GenerateMoves(copy) : IsLegal(copy, m)

\* Mutant: the moves of the side that has just moved are counted.
EndOfMover(b) ==
  IF HasLegalMoves(b, Opponent(b.active)) THEN 0
  ELSE IF IsInCheck(b, b.active) THEN 1 ELSE 2

CheckGameEnd(b) ==
  IF HasLegalMoves(b, b.active) THEN 0
  ELSE IF IsInCheck(b, b.active) THEN 1 ELSE 2
=============================================================================
