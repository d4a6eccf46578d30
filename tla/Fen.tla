-------------------------------- MODULE Fen ---------------------------------
(***************************************************************************)
(* engine::FenParser (src/ChessJam/Engine/FenParser.cpp): a board as a     *)
(* text, a sequence of characters.  The fields after the colour are not    *)
(* read, and not written.  The limits of the buffers are never reached: a  *)
(* placement is at most Side * (Side + 1) - 1 characters.                  *)
(***************************************************************************)
EXTENDS Board, Sequences

Space  == " "
Slash  == "/"
Digits == <<"1", "2", "3", "4", "5", "6", "7", "8">>
DigitsUsed == {Digits[n] : n \in 1..Side}
ValueOf(digit) == CHOOSE n \in 1..Side : Digits[n] = digit

PieceToChar ==
  [White |-> [Pawn |-> "P", Knight |-> "N", Bishop |-> "B",
              Rook |-> "R", Queen |-> "Q", King |-> "K"],
   Black |-> [Pawn |-> "p", Knight |-> "n", Bishop |-> "b",
              Rook |-> "r", Queen |-> "q", King |-> "k"]]

\* Any other character stands for an empty square.
CharToPiece(char) ==
  IF \E p \in Pieces : PieceToChar[p.color][p.kind] = char
  THEN CHOOSE p \in Pieces : PieceToChar[p.color][p.kind] = char
  ELSE Empty

-----------------------------------------------------------------------------
\* One round of the loop of parsePlacement, which ends at a space or when all
\* squares are read; a digit may take sq past the last one.
ReadChar(reading, char) ==
  LET read == [reading EXCEPT !.length = @ + 1] IN
  IF reading.loop = "Ended" \/ char = Space \/ reading.sq \notin Squares
    THEN [reading EXCEPT !.loop = "Ended"]
  ELSE IF char = Slash THEN read
  ELSE IF char \in DigitsUsed THEN [read EXCEPT !.sq = @ + ValueOf(char)]
  ELSE [read EXCEPT !.temp[reading.sq] = CharToPiece(char), !.sq = @ + 1]

Unread == [temp |-> [sq \in Squares |-> Empty], sq |-> 0, length |-> 0, loop |-> "Runs"]

\* What is read of the first n characters, for each n.
ReadUpTo(fen) ==
  LET read[n \in 0..Len(fen)] == IF n = 0 THEN Unread ELSE ReadChar(read[n - 1], fen[n])
  IN  read

Placement(fen) == ReadUpTo(fen)[Len(fen)]

\* The text has the last rank first: what square its n-th is of the board.
InText(n) == At(FileOf(n), Side - 1 - RankOf(n))

RanksReversed(temp) == [sq \in Squares |-> temp[InText(sq)]]

Cleared == [squares |-> [sq \in Squares |-> Empty], active |-> "White"]

(* parse: whether it succeeded, and the board it leaves.                   *)
Parse(fen) ==
  LET placed == Placement(fen)
      board  == [Cleared EXCEPT !.squares = RanksReversed(placed.temp)]
      rest   == {i \in (placed.length + 1)..Len(fen) : fen[i] # Space}
      color  == IF rest = {} THEN Space ELSE fen[CHOOSE i \in rest : \A j \in rest : i <= j]
  IN  IF placed.sq # Side * Side THEN [ok |-> FALSE, board |-> Cleared]
      ELSE IF color = "w" THEN [ok |-> TRUE, board |-> [board EXCEPT !.active = "White"]]
      ELSE IF color = "b" THEN [ok |-> TRUE, board |-> [board EXCEPT !.active = "Black"]]
      ELSE [ok |-> FALSE, board |-> board]

-----------------------------------------------------------------------------
Gap(n) == IF n = 0 THEN <<>> ELSE <<Digits[n]>>

\* A text as it grows: what is written, and the empty squares since.
WriteSquare(text, b, sq) ==
  IF IsEmpty(b, sq) THEN [text EXCEPT !.empty = @ + 1]
  ELSE [empty |-> 0,
        out   |-> text.out \o Gap(text.empty)
                    \o <<PieceToChar[ColorOf(b, sq)][KindOf(b, sq)]>>]

\* Mutant: the empty squares at the end of a rank are not written.
EndRankUnfinished(text, n) ==
  IF n % Side # 0 THEN text
  ELSE [empty |-> 0, out |-> text.out \o IF n < Side * Side THEN <<Slash>> ELSE <<>>]

\* After n squares.
EndRank(text, n) ==
  IF n % Side # 0 THEN text
  ELSE [empty |-> 0,
        out   |-> text.out \o Gap(text.empty) \o IF n < Side * Side THEN <<Slash>> ELSE <<>>]

(* The two loops of generatePlacement, the ranks and their files, as one.  *)
Written(b) ==
  LET written[n \in 0..(Side * Side)] ==
        IF n = 0 THEN [empty |-> 0, out |-> <<>>]
        ELSE EndRank(WriteSquare(written[n - 1], b, InText(n - 1)), n)
  IN  written

GeneratePlacement(b) == Written(b)[Side * Side].out

Generate(b) == GeneratePlacement(b) \o <<Space, IF b.active = "White" THEN "w" ELSE "b">>
=============================================================================
