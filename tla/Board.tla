------------------------------- MODULE Board --------------------------------
(***************************************************************************)
(* engine::Board (src/ChessJam/Engine/Board.h): squares numbered rank by   *)
(* rank, a piece or nothing on each, and the colour to move.               *)
(***************************************************************************)
EXTENDS Integers, Outcome

CONSTANT Side   \* files and ranks: 8 in the code, whose 7 is Side - 1 and
                \* whose 6 is Side - 2

ASSUME SideAssumption == Side \in Nat /\ Side >= 5

Squares    == 0..(Side * Side - 1)
FileOf(sq) == sq % Side
RankOf(sq) == sq \div Side
OnBoard(f, r) == f \in 0..(Side - 1) /\ r \in 0..(Side - 1)
At(f, r)   == r * Side + f

Kinds      == {"Pawn", "Knight", "Bishop", "Rook", "Queen", "King"}
Pieces     == [kind : Kinds, color : Colors]
Piece(kind, color) == [kind |-> kind, color |-> color]

\* The byte 0 has no piece and decodes to the colour White.
Empty == Piece("None", "White")

Boards == [squares : [Squares -> Pieces \cup {Empty}], active : Colors]

IsEmpty(b, sq)      == b.squares[sq] = Empty
ColorOf(b, sq)      == b.squares[sq].color
KindOf(b, sq)       == b.squares[sq].kind
Own(b, sq, color)   == ~IsEmpty(b, sq) /\ ColorOf(b, sq) = color
Forward(color)      == IF color = "White" THEN 1 ELSE -1
LastRank(color)     == IF color = "White" THEN Side - 1 ELSE 0
PawnRank(color)     == IF color = "White" THEN 1 ELSE Side - 2

\* The squares findPiece looks for; it returns the first, or -1 for none.
Found(b, kind, color) == {sq \in Squares : b.squares[sq] = Piece(kind, color)}
=============================================================================
