------------------------------- MODULE Chess --------------------------------
(***************************************************************************)
(* The moves of chess, as a rule book states them and with no regard to    *)
(* how Rules finds them: which piece attacks which square, what a move     *)
(* does, and that nobody may leave their king attacked.  Castling and      *)
(* capture en passant, which the server does not offer, are left out, and  *)
(* a pawn on the last rank becomes a queen.                                *)
(***************************************************************************)
EXTENDS Board

Distance(x, y) == IF x > y THEN x - y ELSE y - x
Files(s, t)    == Distance(FileOf(s), FileOf(t))
Ranks(s, t)    == Distance(RankOf(s), RankOf(t))
Straight(s, t) == s # t /\ (Files(s, t) = 0 \/ Ranks(s, t) = 0)
Diagonal(s, t) == s # t /\ Files(s, t) = Ranks(s, t)

\* u lies strictly between s and t, which are on one line or diagonal.
Between(s, u, t) ==
  /\ Files(s, u) + Files(u, t) = Files(s, t)
  /\ Ranks(s, u) + Ranks(u, t) = Ranks(s, t)
  /\ Straight(s, t) => Straight(s, u) /\ Straight(u, t)
  /\ Diagonal(s, t) => Diagonal(s, u) /\ Diagonal(u, t)

Unobstructed(b, s, t) ==
  \A u \in Squares : ~IsEmpty(b, u) /\ u \notin {s, t} => ~Between(s, u, t)

Advances(b, s, t, n) ==
  Files(s, t) = 0 /\ RankOf(t) - RankOf(s) = n * Forward(ColorOf(b, s))

Attacks(b, s, t) ==
  LET kind == KindOf(b, s) IN
  CASE kind = "Pawn"   -> /\ Files(s, t) = 1
                          /\ RankOf(t) - RankOf(s) = Forward(ColorOf(b, s))
    [] kind = "Knight" -> {Files(s, t), Ranks(s, t)} = {1, 2}
    [] kind = "King"   -> s # t /\ Files(s, t) <= 1 /\ Ranks(s, t) <= 1
    [] kind = "Rook"   -> Straight(s, t) /\ Unobstructed(b, s, t)
    [] kind = "Bishop" -> Diagonal(s, t) /\ Unobstructed(b, s, t)
    [] kind = "Queen"  -> (Straight(s, t) \/ Diagonal(s, t)) /\ Unobstructed(b, s, t)

CanMove(b, s, t) ==
  IF KindOf(b, s) = "Pawn" /\ IsEmpty(b, t)
  THEN \/ Advances(b, s, t, 1)
       \/ /\ Advances(b, s, t, 2)
          /\ RankOf(s) = PawnRank(ColorOf(b, s))
          /\ Unobstructed(b, s, t)
  ELSE Attacks(b, s, t) /\ ~Own(b, t, ColorOf(b, s))

Moved(b, s, t) ==
  LET piece == b.squares[s]
      lands == IF piece.kind = "Pawn" /\ RankOf(t) = LastRank(piece.color)
               THEN Piece("Queen", piece.color) ELSE piece
  IN  [squares |-> [b.squares EXCEPT ![s] = Empty, ![t] = lands],
       active  |-> Opponent(b.active)]

InCheck(b, color) ==
  \E s \in Squares : Own(b, s, Opponent(color))
    /\ \E k \in Found(b, "King", color) : Attacks(b, s, k)

LegalMoves(b) ==
  {move \in {s \in Squares : Own(b, s, b.active)} \X Squares :
     /\ CanMove(b, move[1], move[2])
     /\ ~InCheck(Moved(b, move[1], move[2]), b.active)}

Checkmate(b) == LegalMoves(b) = {} /\ InCheck(b, b.active)
=============================================================================
