------------------------------ MODULE Locators ------------------------------
(***************************************************************************)
(* Locators (src/ChessJam/Engine/Game.h), the four characters by which     *)
(* moves and boards are said on the wire: a colour, a kind, a file and a   *)
(* rank, such as WKD1.  A character of a file or rank is its code.         *)
(***************************************************************************)
EXTENDS Board, Sequences, FiniteSets

CodeA == 65     \* 'A'; a lower-case letter is 32 more
Code1 == 49     \* '1'
Lower == 32
Codes == 0..255

Letter == [Pawn |-> "P", Knight |-> "N", Bishop |-> "B",
           Rook |-> "R", Queen |-> "Q", King |-> "K"]

Locator(color, kind, file, rank) ==
  [color |-> IF color = "White" THEN "W" ELSE "B", kind |-> Letter[kind],
   file |-> file, rank |-> rank]

Invalid == -1

(* Of the colour and the kind the code asks only that they are not NUL,    *)
(* which is left out: no locator of this model has a NUL there.  As a file *)
(* or a rank, NUL (the code 0) is before 'A' and before '1'.               *)
LocatorToSquare(loc) ==
  LET file == loc.file - CodeA
      rank == loc.rank - Code1
  IN  IF OnBoard(file, rank) THEN At(file, rank) ELSE Invalid

\* Mutant: the files are counted from the other side.
LocatorAtFlipped(b, sq) ==
  Locator(ColorOf(b, sq), KindOf(b, sq), CodeA + Side - 1 - FileOf(sq), Code1 + RankOf(sq))

LocatorAt(b, sq) ==
  Locator(ColorOf(b, sq), KindOf(b, sq), CodeA + FileOf(sq), Code1 + RankOf(sq))

(* getPawnState: the men in the order of their squares.  The list after    *)
(* the first n squares have been looked at, for each n.                    *)
PawnsListed(b) ==
  LET listed[n \in 0..(Side * Side)] ==
        IF n = 0 THEN <<>>
        ELSE listed[n - 1] \o IF IsEmpty(b, n - 1) THEN <<>> ELSE <<LocatorAt(b, n - 1)>>
  IN  listed

PawnState(b) == PawnsListed(b)[Side * Side]

\* Mutant: the lists are compared without being sorted.
VerifiedInOrder(b, pawns) == pawns = PawnState(b)

(* verifyGameState sorts both lists: the order is of no account, and how   *)
(* often each locator occurs is.                                           *)
Occurrences(list) ==
  [l \in {list[i] : i \in DOMAIN list} |-> Cardinality({i \in DOMAIN list : list[i] = l})]

Verified(b, pawns) == Occurrences(pawns) = Occurrences(PawnState(b))
=============================================================================
