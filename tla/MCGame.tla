------------------------------- MODULE MCGame -------------------------------
(* Instances of Game for TLC.                                              *)
EXTENDS Game

\* A board with the given <<file, rank, kind, color>> on it.
Position(men, color) ==
  [squares |-> [sq \in Squares |->
     IF \E m \in men : sq = At(m[1], m[2])
     THEN LET m == CHOOSE n \in men : sq = At(n[1], n[2]) IN Piece(m[3], m[4])
     ELSE Empty],
   active |-> color]

White(f, r, kind) == <<f, r, kind, "White">>
Black(f, r, kind) == <<f, r, kind, "Black">>

\* On five files and ranks, without knights.
SmallStarts ==
  { \* pawns that push once or twice, capture, and promote
    Position({White(0, 0, "King"), White(3, 1, "Pawn"),
              Black(2, 3, "King"), Black(4, 3, "Pawn")}, "White"),
    \* a pawn that promotes by a push or a capture, the king cut off by a rook
    Position({White(0, 1, "King"), White(2, 3, "Pawn"),
              Black(4, 3, "King"), Black(1, 4, "Rook")}, "White"),
    \* the same for Black, against a bishop that is pinned
    Position({White(0, 0, "King"), White(0, 2, "Bishop"),
              Black(4, 4, "King"), Black(3, 1, "Pawn"), Black(0, 4, "Rook")}, "Black"),
    \* a queen that mates or stalemates, of either colour
    Position({White(2, 2, "King"), White(4, 1, "Queen"), Black(0, 3, "King")}, "White"),
    Position({Black(2, 2, "King"), Black(4, 3, "Queen"), White(0, 1, "King")}, "Black")}

\* A square as players say it: who stands there is not looked at.
Said(sq) == Locator("White", "King", CodeA + FileOf(sq), Code1 + RankOf(sq))
SaidLow(sq) == [Said(sq) EXCEPT !.file = @ + Lower]
Moves(pairs) == {<<Said(m[1]), Said(m[2])>> : m \in pairs}

\* Every pair of squares, and one with locators that name none.
AnyMove ==
  Moves(Squares \X Squares)
    \cup {<<SaidLow(At(3, 1)), Said(At(3, 2))>>, <<Said(At(3, 1)), SaidLow(At(3, 2))>>}

\* reset leaves the board of chess.
Officers == <<"Rook", "Knight", "Bishop", "Queen", "King", "Bishop", "Knight", "Rook">>
ResetBoard == Parse(ResetFen).board
ResetOnly  == {ResetBoard}
ASSUME ResetIsChess ==
  Side = 8 =>
    /\ Parse(ResetFen).ok
    /\ ResetBoard =
         [squares |-> [sq \in Squares |->
            CASE RankOf(sq) = 0        -> Piece(Officers[FileOf(sq) + 1], "White")
              [] RankOf(sq) = 1        -> Piece("Pawn", "White")
              [] RankOf(sq) = Side - 2 -> Piece("Pawn", "Black")
              [] RankOf(sq) = Side - 1 -> Piece(Officers[FileOf(sq) + 1], "Black")
              [] OTHER                 -> Empty],
          active |-> "White"]

\* 1. f3 e5 2. g4 Qh4, mate.
FoolsMate == Moves({<<At(5, 1), At(5, 2)>>, <<At(4, 6), At(4, 4)>>,
              <<At(6, 1), At(6, 3)>>, <<At(3, 7), At(7, 3)>>})

\* A knight by c3, b5 and d6 to the king on e8, and a pawn that looks on.
KnightRaid == Moves({<<At(1, 0), At(2, 2)>>, <<At(2, 2), At(1, 4)>>,
               <<At(1, 4), At(3, 5)>>, <<At(3, 5), At(4, 7)>>,
               <<At(7, 6), At(7, 5)>>, <<At(7, 5), At(7, 4)>>, <<At(7, 4), At(7, 3)>>})
=============================================================================
