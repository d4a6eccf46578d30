----------------------------- MODULE FenProofs ------------------------------
(***************************************************************************)
(* What FenParser writes of a board it reads back as that board, for every *)
(* board whose ranks a digit can count.                                    *)
(***************************************************************************)
EXTENDS Fen, RulesProofs, Induction

USE SideAssumption

CharOf(p) == PieceToChar[p.color][p.kind]
Chars == {CharOf(p) : p \in Pieces} \cup DigitsUsed \cup {Space, Slash, "w", "b"}

LEMMA Characters ==
  /\ CharOf(Piece("Pawn", "White")) = "P" /\ CharOf(Piece("Knight", "White")) = "N"
  /\ CharOf(Piece("Bishop", "White")) = "B" /\ CharOf(Piece("Rook", "White")) = "R"
  /\ CharOf(Piece("Queen", "White")) = "Q" /\ CharOf(Piece("King", "White")) = "K"
  /\ CharOf(Piece("Pawn", "Black")) = "p" /\ CharOf(Piece("Knight", "Black")) = "n"
  /\ CharOf(Piece("Bishop", "Black")) = "b" /\ CharOf(Piece("Rook", "Black")) = "r"
  /\ CharOf(Piece("Queen", "Black")) = "q" /\ CharOf(Piece("King", "Black")) = "k"
  BY DEF CharOf, Piece, PieceToChar

LEMMA AllPieces ==
  ASSUME NEW p \in Pieces
  PROVE  /\ p = Piece(p.kind, p.color)
         /\ p.kind \in Kinds /\ p.color \in Colors
  BY DEF Pieces, Piece

LEMMA CharactersDiffer ==
  ASSUME NEW p \in Pieces, NEW q \in Pieces, CharOf(p) = CharOf(q)
  PROVE  p = q
<1>1. p = Piece(p.kind, p.color) /\ p.kind \in Kinds /\ p.color \in Colors
  BY AllPieces
<1>2. q = Piece(q.kind, q.color) /\ q.kind \in Kinds /\ q.color \in Colors
  BY AllPieces
<1> QED BY <1>1, <1>2, Characters DEF Kinds, Colors

LEMMA DigitsAre ==
  ASSUME Side <= 8
  PROVE  /\ DigitsUsed \subseteq {"1", "2", "3", "4", "5", "6", "7", "8"}
         /\ \A n \in 1..Side : Digits[n] \in DigitsUsed /\ ValueOf(Digits[n]) = n
<1>1. \A n \in 1..8 : Digits[n] \in {"1", "2", "3", "4", "5", "6", "7", "8"}
  BY DEF Digits
<1>2. \A n, m \in 1..8 : Digits[n] = Digits[m] => n = m
  BY DEF Digits
<1>3. 1..Side \subseteq 1..8
  OBVIOUS
<1> QED BY <1>1, <1>2, <1>3 DEF DigitsUsed, ValueOf

(* The character of a piece is none of the others, and is read as the      *)
(* piece.                                                                  *)
LEMMA PieceIsRead ==
  ASSUME Side <= 8, NEW p \in Pieces
  PROVE  /\ CharOf(p) # Space /\ CharOf(p) # Slash /\ CharOf(p) \notin DigitsUsed
         /\ CharToPiece(CharOf(p)) = p
<1>1. p = Piece(p.kind, p.color) /\ p.kind \in Kinds /\ p.color \in Colors
  BY AllPieces
<1>2. CharOf(p) \in {"P", "N", "B", "R", "Q", "K", "p", "n", "b", "r", "q", "k"}
  BY <1>1, Characters DEF Kinds, Colors
<1>3. CharToPiece(CharOf(p)) = p
  <2>1. \A q \in Pieces : PieceToChar[q.color][q.kind] = CharOf(p) <=> q = p
    BY CharactersDiffer DEF CharOf
  <2> QED BY <2>1 DEF CharToPiece
<1>5. CharOf(p) # Space /\ CharOf(p) # Slash
  BY <1>2 DEF Space, Slash
<1>6. CharOf(p) \notin {"1", "2", "3", "4", "5", "6", "7", "8"}
  BY <1>2
<1> QED BY <1>3, <1>5, <1>6, DigitsAre

(* The recursion of Placement: a text is read character by character.      *)
LEMMA ReadUpToStep ==
  ASSUME NEW fen \in Seq(Chars)
  PROVE  /\ ReadUpTo(fen)[0] = Unread
         /\ \A n \in 1..Len(fen) :
              ReadUpTo(fen)[n] = ReadChar(ReadUpTo(fen)[n - 1], fen[n])
<1> DEFINE size == Len(fen)
           next(f, n) == IF n = 0 THEN Unread ELSE ReadChar(f[n - 1], fen[n])
           upTo(f, n) == f = [m \in 0..n |-> next(f, m)]
           T == {n \in Nat : \E f : upTo(f, n)}
<1>0. size \in Nat
  OBVIOUS
<1>1. 0 \in T
  <2>1. upTo([m \in 0..0 |-> Unread], 0)
    OBVIOUS
  <2> QED BY <2>1
<1>2. ASSUME NEW n \in Nat, n \in T
      PROVE  n + 1 \in T
  <2>1. PICK f : upTo(f, n)
    BY <1>2
  <2> DEFINE at(m) == IF m = n + 1 THEN ReadChar(f[n], fen[n + 1]) ELSE f[m]
             g     == [m \in 0..(n + 1) |-> at(m)]
  <2>2. n + 1 \in 0..(n + 1) /\ \A m \in 0..n : m \in 0..(n + 1) /\ m # n + 1
    OBVIOUS
  <2>3. /\ at(n + 1) = ReadChar(f[n], fen[n + 1])
        /\ \A m \in 0..n : at(m) = f[m]
    BY <2>2
  <2> HIDE DEF at
  <2>4. /\ g = [m \in 0..(n + 1) |-> at(m)]
        /\ \A m \in 0..(n + 1) : g[m] = at(m)
        /\ g[n + 1] = ReadChar(f[n], fen[n + 1])
        /\ \A m \in 0..n : g[m] = f[m]
    BY <2>2, <2>3
  <2>5. \A m \in 0..n : f[m] = next(f, m)
    BY <2>1
  <2> HIDE DEF g
  <2>6. ASSUME NEW m \in 0..(n + 1)
        PROVE  g[m] = next(g, m)
    <3>1. CASE m = n + 1
      <4>1. m # 0 /\ m - 1 = n /\ n \in 0..n
        BY <3>1
      <4> QED BY <2>4, <3>1, <4>1
    <3>2. CASE m = 0
      <4>1. 0 \in 0..n
        OBVIOUS
      <4> QED BY <2>4, <2>5, <3>2, <4>1
    <3>3. CASE m \in 1..n
      <4>1. m # 0 /\ m \in 0..n /\ m - 1 \in 0..n
        BY <3>3
      <4> QED BY <2>4, <2>5, <4>1
    <3> QED BY <3>1, <3>2, <3>3
  <2> HIDE DEF next
  <2>7. upTo(g, n + 1)
    BY <2>4, <2>6
  <2> QED BY <2>7
<1> HIDE DEF T
<1>3. size \in T
  BY <1>0, <1>1, <1>2, InductionOnSet
<1>4. \E f : upTo(f, size)
  BY <1>3 DEF T
<1>5. ReadUpTo(fen) = CHOOSE f : upTo(f, size)
  BY DEF ReadUpTo
<1>6. upTo(ReadUpTo(fen), size)
  BY <1>4, <1>5
<1> HIDE DEF size
<1>8. \A n \in 0..size : ReadUpTo(fen)[n] = next(ReadUpTo(fen), n)
  BY <1>6
<1>9. 0 \in 0..size /\ \A n \in 1..size : n \in 0..size /\ n # 0
  BY <1>0
<1> QED BY <1>0, <1>8, <1>9 DEF size

(* So is the generation: square by square.                                 *)
Step(b, text, n) == EndRank(WriteSquare(text, b, InText(n - 1)), n)

LEMMA WrittenStep ==
  ASSUME NEW b
  PROVE  /\ Written(b)[0] = [empty |-> 0, out |-> <<>>]
         /\ \A n \in 1..(Side * Side) : Written(b)[n] = Step(b, Written(b)[n - 1], n)
<1> DEFINE size == Side * Side
           next(f, n) == IF n = 0 THEN [empty |-> 0, out |-> <<>>] ELSE Step(b, f[n - 1], n)
           upTo(f, n) == f = [m \in 0..n |-> next(f, m)]
           T == {n \in Nat : \E f : upTo(f, n)}
<1>0. size \in Nat
  OBVIOUS
<1>1. 0 \in T
  <2>1. upTo([m \in 0..0 |-> [empty |-> 0, out |-> <<>>]], 0)
    OBVIOUS
  <2> QED BY <2>1
<1>2. ASSUME NEW n \in Nat, n \in T
      PROVE  n + 1 \in T
  <2>1. PICK f : upTo(f, n)
    BY <1>2
  <2> DEFINE at(m) == IF m = n + 1 THEN Step(b, f[n], n + 1) ELSE f[m]
             g     == [m \in 0..(n + 1) |-> at(m)]
  <2>2. n + 1 \in 0..(n + 1) /\ \A m \in 0..n : m \in 0..(n + 1) /\ m # n + 1
    OBVIOUS
  <2>3. /\ at(n + 1) = Step(b, f[n], n + 1)
        /\ \A m \in 0..n : at(m) = f[m]
    BY <2>2
  <2> HIDE DEF at
  <2>4. /\ g = [m \in 0..(n + 1) |-> at(m)]
        /\ \A m \in 0..(n + 1) : g[m] = at(m)
        /\ g[n + 1] = Step(b, f[n], n + 1)
        /\ \A m \in 0..n : g[m] = f[m]
    BY <2>2, <2>3
  <2>5. \A m \in 0..n : f[m] = next(f, m)
    BY <2>1
  <2> HIDE DEF g
  <2>6. ASSUME NEW m \in 0..(n + 1)
        PROVE  g[m] = next(g, m)
    <3>1. CASE m = n + 1
      <4>1. m # 0 /\ m - 1 = n /\ n \in 0..n
        BY <3>1
      <4> QED BY <2>4, <3>1, <4>1
    <3>2. CASE m = 0
      <4>1. 0 \in 0..n
        OBVIOUS
      <4> QED BY <2>4, <2>5, <3>2, <4>1
    <3>3. CASE m \in 1..n
      <4>1. m # 0 /\ m \in 0..n /\ m - 1 \in 0..n
        BY <3>3
      <4> QED BY <2>4, <2>5, <4>1
    <3> QED BY <3>1, <3>2, <3>3
  <2> HIDE DEF next
  <2>7. upTo(g, n + 1)
    BY <2>4, <2>6
  <2> QED BY <2>7
<1> HIDE DEF T
<1>3. size \in T
  BY <1>0, <1>1, <1>2, InductionOnSet
<1>4. \E f : upTo(f, size)
  BY <1>3 DEF T
<1>5. Written(b) = CHOOSE f : upTo(f, size)
  BY DEF Written, Step
<1>6. upTo(Written(b), size)
  BY <1>4, <1>5
<1> HIDE DEF size
<1>8. \A n \in 0..size : Written(b)[n] = next(Written(b), n)
  BY <1>6
<1>9. 0 \in 0..size /\ \A n \in 1..size : n \in 0..size /\ n # 0
  BY <1>0
<1> QED BY <1>0, <1>8, <1>9 DEF size

(* A text that is read as far as its first part reads as that part.        *)
LEMMA ReadsOn ==
  ASSUME NEW text \in Seq(Chars), NEW char \in Chars
  PROVE  Placement(Append(text, char)) = ReadChar(Placement(text), char)
<1> DEFINE more == Append(text, char)
           T == {n \in Nat : n <= Len(text) => ReadUpTo(more)[n] = ReadUpTo(text)[n]}
<1>1. /\ more \in Seq(Chars) /\ Len(text) \in Nat /\ Len(more) = Len(text) + 1
      /\ more[Len(text) + 1] = char
      /\ \A n \in 1..Len(text) : more[n] = text[n]
  OBVIOUS
<1> HIDE DEF more
<1>2. 0 \in T
  BY <1>1, ReadUpToStep
<1>3. ASSUME NEW n \in Nat, n \in T
      PROVE  n + 1 \in T
  <2> SUFFICES ASSUME n + 1 <= Len(text)
               PROVE  ReadUpTo(more)[n + 1] = ReadUpTo(text)[n + 1]
    OBVIOUS
  <2>1. n + 1 \in 1..Len(text) /\ n + 1 \in 1..Len(more) /\ (n + 1) - 1 = n /\ n <= Len(text)
    BY <1>1
  <2>2. ReadUpTo(more)[n + 1] = ReadChar(ReadUpTo(more)[n], more[n + 1])
    BY <1>1, <2>1, ReadUpToStep
  <2>3. ReadUpTo(text)[n + 1] = ReadChar(ReadUpTo(text)[n], text[n + 1])
    BY <2>1, ReadUpToStep
  <2> QED BY <1>1, <1>3, <2>1, <2>2, <2>3
<1> HIDE DEF T
<1>4. Len(text) \in T
  BY <1>1, <1>2, <1>3, InductionOnSet
<1>5. ReadUpTo(more)[Len(text)] = ReadUpTo(text)[Len(text)]
  BY <1>1, <1>4 DEF T
<1>6. Len(more) \in 1..Len(more) /\ Len(more) - 1 = Len(text)
  BY <1>1
<1>7. ReadUpTo(more)[Len(more)] = ReadChar(ReadUpTo(more)[Len(text)], more[Len(more)])
  BY <1>1, <1>6, ReadUpToStep
<1> QED BY <1>1, <1>5, <1>7 DEF Placement, more

LEMMA LastSquares == Side * Side \in Nat /\ Squares = 0..(Side * Side - 1)
  BY DEF Squares

LEMMA TextOrder ==
  ASSUME NEW n \in Squares
  PROVE  InText(n) \in Squares /\ InText(InText(n)) = n
<1>1. FileOf(n) \in Lane /\ RankOf(n) \in Lane /\ At(FileOf(n), RankOf(n)) = n
  BY Coordinates
<1>2. Side - 1 - RankOf(n) \in Lane /\ Side - 1 - (Side - 1 - RankOf(n)) = RankOf(n)
  BY <1>1 DEF Lane
<1> QED BY <1>1, <1>2, AtCoordinates DEF InText

LEMMA Remainders ==
  ASSUME NEW n \in Nat
  PROVE  /\ n % Side \in Lane /\ n % Side <= n
         /\ (n + 1) % Side \in {0, (n % Side) + 1}
  BY Z3T(30) DEF Lane

(* What is read of a text that says the first n squares, in its order; the *)
(* last of them may still be unsaid, if they are empty.                    *)
Filled(b, n) == [i \in Squares |-> IF i < n THEN b.squares[InText(i)] ELSE Empty]

Reading(temp, sq, length) ==
  [temp |-> temp, sq |-> sq, length |-> length, loop |-> "Runs"]

Says(text, b, n, sq) ==
  /\ text \in Seq(Chars)
  /\ Placement(text) = Reading(Filled(b, n), sq, Len(text))

\* What a character does to a reading that is not over.
LEMMA CharRead ==
  ASSUME NEW temp, NEW sq \in Squares, NEW length \in Int, NEW c, c # Space
  PROVE  /\ c = Slash =>
              ReadChar(Reading(temp, sq, length), c) = Reading(temp, sq, length + 1)
         /\ c # Slash /\ c \in DigitsUsed =>
              ReadChar(Reading(temp, sq, length), c)
                = Reading(temp, sq + ValueOf(c), length + 1)
         /\ c # Slash /\ c \notin DigitsUsed =>
              ReadChar(Reading(temp, sq, length), c)
                = Reading([temp EXCEPT ![sq] = CharToPiece(c)], sq + 1, length + 1)
<1> DEFINE reading == Reading(temp, sq, length)
           read    == Reading(temp, sq, length + 1)
           p       == CharToPiece(c)
<1> HIDE DEF p
<1>1. [reading EXCEPT !.length = @ + 1] = read
  BY DEF Reading
<1>2. reading.loop # "Ended" /\ reading.sq = sq
  BY DEF Reading
<1>3. [read EXCEPT !.sq = @ + ValueOf(c)] = Reading(temp, sq + ValueOf(c), length + 1)
  BY DEF Reading
<1>4. [read EXCEPT !.temp[sq] = p, !.sq = @ + 1]
        = [[read EXCEPT !.temp[sq] = p] EXCEPT !.sq = @ + 1]
  BY DEF Reading
<1>5. [read EXCEPT !.temp[sq] = p] = Reading([temp EXCEPT ![sq] = p], sq, length + 1)
  BY DEF Reading
<1>6. [Reading([temp EXCEPT ![sq] = p], sq, length + 1) EXCEPT !.sq = @ + 1]
        = Reading([temp EXCEPT ![sq] = p], sq + 1, length + 1)
  BY DEF Reading
<1> HIDE DEF reading, read
<1>7. c = Slash => ReadChar(reading, c) = read
  BY <1>1, <1>2 DEF ReadChar, Slash, Space
<1>8. c # Slash /\ c \in DigitsUsed =>
        ReadChar(reading, c) = [read EXCEPT !.sq = @ + ValueOf(c)]
  BY <1>1, <1>2 DEF ReadChar
<1>9. c # Slash /\ c \notin DigitsUsed =>
        ReadChar(reading, c) = [read EXCEPT !.temp[sq] = p, !.sq = @ + 1]
  BY <1>1, <1>2 DEF ReadChar, p
<1>10. c # Slash /\ c \notin DigitsUsed =>
         ReadChar(reading, c) = Reading([temp EXCEPT ![sq] = p], sq + 1, length + 1)
  BY <1>4, <1>5, <1>6, <1>9
<1> QED BY <1>3, <1>7, <1>8, <1>10 DEF reading, read, p

LEMMA SaysNothing ==
  ASSUME NEW b
  PROVE  Says(<<>>, b, 0, 0)
<1>1. <<>> \in Seq(Chars) /\ Len(<<>>) = 0
  OBVIOUS
<1>2. Filled(b, 0) = [sq \in Squares |-> Empty]
  BY DEF Filled, Squares
<1> QED BY <1>1, <1>2, ReadUpToStep DEF Says, Placement, Unread, Reading

LEMMA EmptySquareSaid ==
  ASSUME NEW b, NEW n \in Squares, IsEmpty(b, InText(n))
  PROVE  Filled(b, n + 1) = Filled(b, n)
<1>1. \A i \in Squares : i < n + 1 <=> i < n \/ i = n
  BY DEF Squares
<1> QED BY <1>1 DEF Filled, IsEmpty, Squares

LEMMA GapSaid ==
  ASSUME Side <= 8, NEW b, NEW n \in 0..(Side * Side), NEW e \in 0..Side, e <= n,
         NEW text, Says(text, b, n, n - e)
  PROVE  Says(text \o Gap(e), b, n, n)
<1>1. text \in Seq(Chars) /\ Len(text) \in Nat
  BY DEF Says
<1>2. CASE e = 0
  BY <1>1, <1>2 DEF Gap, Says
<1>3. CASE e # 0
  <2> DEFINE c == Digits[e]
  <2>1. c \in DigitsUsed /\ ValueOf(c) = e
    BY <1>3, DigitsAre
  <2>2. c # Space /\ c # Slash
    BY <2>1, DigitsAre DEF Space, Slash
  <2>3. n - e \in Squares /\ (n - e) + e = n
    BY <1>3, LastSquares DEF Squares
  <2>4. text \o Gap(e) = Append(text, c) /\ c \in Chars
    BY <1>1, <1>3, <2>1 DEF Gap, Chars
  <2> HIDE DEF c
  <2>5. Append(text, c) \in Seq(Chars) /\ Len(Append(text, c)) = Len(text) + 1
    BY <1>1, <2>4
  <2>6. Placement(Append(text, c)) = ReadChar(Placement(text), c)
    BY <1>1, <2>4, ReadsOn
  <2>8. Placement(text) = Reading(Filled(b, n), n - e, Len(text))
    BY DEF Says
  <2> DEFINE temp == Filled(b, n)
             length == Len(text)
             sq == n - e
  <2>9. length \in Int /\ sq \in Squares
    BY <1>1, <2>3
  <2> HIDE DEF temp, length, sq
  <2>10. ReadChar(Reading(temp, sq, length), c) = Reading(temp, sq + ValueOf(c), length + 1)
    BY <2>1, <2>2, <2>9, CharRead
  <2>7. Placement(Append(text, c))
          = Reading(Filled(b, n), n, Len(text) + 1)
    BY <2>1, <2>3, <2>6, <2>8, <2>10 DEF temp, length, sq
  <2> QED BY <2>4, <2>5, <2>7 DEF Says
<1> QED BY <1>2, <1>3

LEMMA SlashSaid ==
  ASSUME NEW b, NEW n \in Squares, NEW text, Says(text, b, n, n)
  PROVE  Says(Append(text, Slash), b, n, n)
<1>1. text \in Seq(Chars) /\ Len(text) \in Nat /\ Slash \in Chars
  BY DEF Says, Chars
<1>2. Append(text, Slash) \in Seq(Chars) /\ Len(Append(text, Slash)) = Len(text) + 1
  BY <1>1
<1>3. Slash # Space
  BY DEF Space, Slash
<1>4. Placement(Append(text, Slash)) = ReadChar(Placement(text), Slash)
  BY <1>1, ReadsOn
<1> DEFINE temp == Filled(b, n)
           length == Len(text)
<1>5. length \in Int
  BY <1>1
<1> HIDE DEF temp, length
<1>6. ReadChar(Reading(temp, n, length), Slash) = Reading(temp, n, length + 1)
  BY <1>3, <1>5, CharRead
<1>7. Placement(Append(text, Slash)) = Reading(Filled(b, n), n, Len(text) + 1)
  BY <1>4, <1>6 DEF Says, temp, length
<1> QED BY <1>2, <1>7 DEF Says

LEMMA PieceSaid ==
  ASSUME Side <= 8, NEW b \in Boards, NEW n \in Squares, ~IsEmpty(b, InText(n)),
         NEW text, Says(text, b, n, n)
  PROVE  Says(Append(text, CharOf(b.squares[InText(n)])), b, n + 1, n + 1)
<1> DEFINE p == b.squares[InText(n)]
           c == CharOf(p)
<1>1. p \in Pieces
  BY TextOrder DEF Boards, IsEmpty
<1>2. c # Space /\ c # Slash /\ c \notin DigitsUsed /\ CharToPiece(c) = p
  BY <1>1, PieceIsRead
<1>3. text \in Seq(Chars) /\ Len(text) \in Nat /\ c \in Chars
  BY <1>1 DEF Says, Chars
<1>4. \A i \in Squares : i < n + 1 <=> i < n \/ i = n
  BY DEF Squares
<1>5. [Filled(b, n) EXCEPT ![n] = p] = Filled(b, n + 1)
  BY <1>4 DEF Filled, Squares
<1> HIDE DEF p, c
<1>6. Append(text, c) \in Seq(Chars) /\ Len(Append(text, c)) = Len(text) + 1
  BY <1>3
<1>7. Placement(Append(text, c)) = ReadChar(Placement(text), c)
  BY <1>3, ReadsOn
<1>8. Placement(Append(text, c))
        = Reading([Filled(b, n) EXCEPT ![n] = p], n + 1, Len(text) + 1)
  BY <1>2, <1>7, CharRead DEF Says
<1> QED BY <1>5, <1>6, <1>8 DEF Says, c, p

(* The text as it grows says the squares it has passed.                    *)
Growing(text, b, n) ==
  /\ text \in [empty : Nat, out : Seq(Chars)]
  /\ text.empty <= n % Side
  /\ Says(text.out, b, n, n - text.empty)

\* After one square more; it may be the last of its rank, which is not ended.
Grown(text, b, n) ==
  /\ text \in [empty : Nat, out : Seq(Chars)]
  /\ text.empty <= (n % Side) + 1
  /\ Says(text.out, b, n + 1, (n + 1) - text.empty)

LEMMA SquareWritten ==
  ASSUME Side <= 8, NEW b \in Boards, NEW n \in Squares, NEW text, Growing(text, b, n)
  PROVE  Grown(WriteSquare(text, b, InText(n)), b, n)
<1> DEFINE sq == InText(n)
<1>1. n \in Nat /\ n \in 0..(Side * Side)
  BY LastSquares
<1>2. n % Side \in 0..(Side - 1) /\ n % Side <= n
  BY <1>1, Remainders DEF Lane
<1>3. text.empty \in Nat /\ text.out \in Seq(Chars) /\ text.empty <= n % Side
  BY DEF Growing
<1>4. text.empty \in 0..Side /\ text.empty <= n
  BY <1>1, <1>2, <1>3
<1>5. CASE IsEmpty(b, sq)
  <2> DEFINE new == WriteSquare(text, b, sq)
  <2>1. new = [text EXCEPT !.empty = @ + 1]
    BY <1>5 DEF WriteSquare
  <2>2. /\ new \in [empty : Nat, out : Seq(Chars)]
        /\ new.empty = text.empty + 1 /\ new.out = text.out
    BY <2>1 DEF Growing
  <2>3. (n + 1) - (text.empty + 1) = n - text.empty
    BY <1>1, <1>3
  <2>4. Says(text.out, b, n + 1, n - text.empty)
    BY <1>5, EmptySquareSaid DEF Says, Growing
  <2> HIDE DEF new
  <2>5. new.empty <= (n % Side) + 1
    BY <1>2, <1>3, <2>2
  <2>6. Says(new.out, b, n + 1, (n + 1) - new.empty)
    BY <2>2, <2>3, <2>4
  <2>7. Grown(new, b, n)
    BY <2>2, <2>5, <2>6 DEF Grown
  <2> QED BY <2>7 DEF new
<1>6. CASE ~IsEmpty(b, sq)
  <2> DEFINE gone == text.out \o Gap(text.empty)
             c    == CharOf(b.squares[sq])
  <2>1. Says(gone, b, n, n)
    BY <1>1, <1>4, GapSaid DEF Growing
  <2>2. Says(Append(gone, c), b, n + 1, n + 1)
    BY <1>6, <2>1, PieceSaid
  <2>3. b.squares[sq] \in Pieces
    BY <1>6, TextOrder DEF Boards, IsEmpty
  <2>4. gone \in Seq(Chars) /\ c \in Chars
    BY <2>1, <2>3 DEF Says, Chars
  <2>5. WriteSquare(text, b, sq) = [empty |-> 0, out |-> gone \o <<c>>]
    BY <1>6 DEF WriteSquare, CharOf, ColorOf, KindOf
  <2> HIDE DEF gone, c
  <2>6. gone \o <<c>> = Append(gone, c) /\ Append(gone, c) \in Seq(Chars)
    BY <2>4
  <2>7. 0 <= (n % Side) + 1 /\ (n + 1) - 0 = n + 1
    BY <1>1, <1>2
  <2> DEFINE new == [empty |-> 0, out |-> Append(gone, c)]
  <2>8. new \in [empty : Nat, out : Seq(Chars)]
    BY <2>6
  <2>9. new.empty = 0 /\ new.out = Append(gone, c)
    OBVIOUS
  <2> HIDE DEF new
  <2>10. Says(new.out, b, n + 1, (n + 1) - new.empty)
    BY <2>2, <2>7, <2>9
  <2>11. new.empty <= (n % Side) + 1
    BY <2>7, <2>9
  <2>12. Grown(new, b, n)
    BY <2>8, <2>10, <2>11 DEF Grown
  <2> QED BY <2>5, <2>6, <2>12 DEF new
<1> QED BY <1>5, <1>6

LEMMA RankEnded ==
  ASSUME Side <= 8, NEW b, NEW n \in Squares, NEW text, Grown(text, b, n)
  PROVE  Growing(EndRank(text, n + 1), b, n + 1)
<1> DEFINE k == n + 1
<1>1. /\ n \in Nat /\ k \in Nat /\ k = n + 1
      /\ k \in 0..(Side * Side) /\ (k < Side * Side => k \in Squares)
  BY LastSquares
<1>2. /\ n % Side \in 0..(Side - 1) /\ n % Side <= n
      /\ k % Side \in {0, (n % Side) + 1} /\ k % Side \in Nat
  BY <1>1, Remainders DEF Lane
<1>3. /\ text.empty \in Nat /\ text.out \in Seq(Chars) /\ text.empty <= (n % Side) + 1
      /\ text \in [empty : Nat, out : Seq(Chars)] /\ Says(text.out, b, k, k - text.empty)
  <2>1. /\ text \in [empty : Nat, out : Seq(Chars)] /\ text.empty <= (n % Side) + 1
        /\ Says(text.out, b, n + 1, (n + 1) - text.empty)
    BY DEF Grown
  <2>2. text.empty \in Nat /\ text.out \in Seq(Chars)
    BY <2>1
  <2> HIDE DEF k
  <2>3. Says(text.out, b, k, k - text.empty)
    BY <2>1 DEF k
  <2> QED BY <2>1, <2>2, <2>3
<1> HIDE DEF k
<1>4. CASE k % Side # 0
  <2>1. text.empty <= k % Side
    BY <1>2, <1>3, <1>4
  <2>2. Growing(EndRank(text, k), b, k)
    BY <1>3, <1>4, <2>1 DEF EndRank, Growing
  <2> QED BY <2>2 DEF k
<1>5. CASE k % Side = 0
  <2> DEFINE gone  == text.out \o Gap(text.empty)
             slash == IF k < Side * Side THEN <<Slash>> ELSE <<>>
             out   == text.out \o Gap(text.empty) \o slash
             new   == [empty |-> 0, out |-> out]
  <2>1. text.empty \in 0..Side /\ text.empty <= k
    BY <1>1, <1>2, <1>3
  <2>2. Says(gone, b, k, k)
    BY <1>1, <1>3, <2>1, GapSaid
  <2>3. gone \in Seq(Chars)
    BY <2>2 DEF Says
  <2>4. EndRank(text, k) = new /\ out = gone \o slash
    BY <1>5 DEF EndRank
  <2>5. new.empty = 0 /\ new.out = out
    OBVIOUS
  <2> HIDE DEF gone, out, slash
  <2>6. Says(gone \o slash, b, k, k)
    <3>1. CASE k < Side * Side
      <4>1. k \in Squares /\ Slash \in Chars
        BY <1>1, <3>1 DEF Chars
      <4>2. gone \o slash = Append(gone, Slash)
        BY <2>3, <3>1, <4>1 DEF slash
      <4> QED BY <2>2, <4>1, <4>2, SlashSaid
    <3>2. CASE ~(k < Side * Side)
      <4>1. gone \o slash = gone
        BY <2>3, <3>2 DEF slash
      <4> QED BY <2>2, <4>1
    <3> QED BY <3>1, <3>2
  <2>7. Says(out, b, k, k - 0) /\ out \in Seq(Chars)
    BY <1>1, <2>4, <2>6 DEF Says
  <2>8. new \in [empty : Nat, out : Seq(Chars)]
    BY <2>7
  <2> HIDE DEF new
  <2>9. Growing(new, b, k)
    BY <1>2, <2>5, <2>7, <2>8 DEF Growing
  <2> QED BY <2>4, <2>9 DEF k
<1> QED BY <1>4, <1>5

LEMMA AllWritten ==
  ASSUME Side <= 8, NEW b \in Boards
  PROVE  Says(GeneratePlacement(b), b, Side * Side, Side * Side)
<1> DEFINE size == Side * Side
           T == {n \in Nat : n <= size => Growing(Written(b)[n], b, n)}
<1>1. size \in Nat /\ 0 % Side = 0 /\ size % Side = 0 /\ size >= 1
  BY Z3T(30)
<1>2. 0 \in T
  <2>1. Written(b)[0] = [empty |-> 0, out |-> <<>>]
    BY WrittenStep
  <2>2. <<>> \in Seq(Chars) /\ 0 - 0 = 0
    OBVIOUS
  <2>3. Growing([empty |-> 0, out |-> <<>>], b, 0)
    BY <1>1, <2>2, SaysNothing DEF Growing
  <2> QED BY <2>1, <2>3
<1>3. ASSUME NEW n \in Nat, n \in T
      PROVE  n + 1 \in T
  <2> SUFFICES ASSUME n + 1 <= size
               PROVE  Growing(Written(b)[n + 1], b, n + 1)
    OBVIOUS
  <2>1. n <= size /\ n \in Squares /\ n + 1 \in 1..(Side * Side) /\ (n + 1) - 1 = n
    BY <1>1, LastSquares
  <2>2. Growing(Written(b)[n], b, n)
    BY <1>3, <2>1
  <2>3. Grown(WriteSquare(Written(b)[n], b, InText(n)), b, n)
    BY <2>1, <2>2, SquareWritten
  <2>4. Growing(EndRank(WriteSquare(Written(b)[n], b, InText(n)), n + 1), b, n + 1)
    BY <2>1, <2>3, RankEnded
  <2>5. Written(b)[n + 1] = EndRank(WriteSquare(Written(b)[n], b, InText(n)), n + 1)
    BY <2>1, WrittenStep DEF Step
  <2> QED BY <2>4, <2>5
<1> HIDE DEF T
<1>4. size \in T
  BY <1>1, <1>2, <1>3, InductionOnSet
<1>5. Growing(Written(b)[size], b, size)
  BY <1>1, <1>4 DEF T
<1> HIDE DEF size
<1>6. Written(b)[size].empty = 0 /\ size - 0 = size
  BY <1>1, <1>5 DEF Growing
<1>7. Says(Written(b)[size].out, b, size, size)
  BY <1>5, <1>6 DEF Growing
<1> QED BY <1>7 DEF GeneratePlacement, size

(* generate and then parse: the board, its ranks in their order again, and *)
(* the colour to move.                                                     *)
THEOREM BoardsReadBack ==
  ASSUME Side <= 8, NEW b \in Boards
  PROVE  Parse(Generate(b)) = [ok |-> TRUE, board |-> b]
<1> DEFINE text  == GeneratePlacement(b)
           color == IF b.active = "White" THEN "w" ELSE "b"
           temp  == Filled(b, Side * Side)
           size  == Side * Side
           fen   == Generate(b)
<1>1. text \in Seq(Chars) /\ Placement(text) = Reading(temp, size, Len(text))
  BY AllWritten DEF Says
<1>2. Len(text) \in Nat /\ Space \in Chars /\ color \in Chars /\ size \in Nat
  BY <1>1, LastSquares DEF Chars
<1>3. fen = Append(Append(text, Space), color)
  BY <1>1, <1>2 DEF Generate
<1>4. \A sq \in Squares : temp[InText(sq)] = b.squares[sq]
  BY TextOrder DEF Filled, Squares
<1>5. RanksReversed(temp) = b.squares
  BY <1>4 DEF RanksReversed, Boards
<1>6. b.active \in Colors /\ color # Space
  BY DEF Boards, Space
<1>7. color = "w" => [squares |-> b.squares, active |-> "White"] = b
  BY <1>6 DEF Boards, Colors
<1>8. color # "w" => color = "b" /\ [squares |-> b.squares, active |-> "Black"] = b
  BY <1>6 DEF Boards, Colors
<1> HIDE DEF text, color, temp, size, fen
<1>9. Append(text, Space) \in Seq(Chars)
  BY <1>1, <1>2
<1>10. ReadChar(Reading(temp, size, Len(text)), Space)
         = [Reading(temp, size, Len(text)) EXCEPT !.loop = "Ended"]
  BY DEF ReadChar
<1> DEFINE ended == [temp |-> temp, sq |-> size, length |-> Len(text), loop |-> "Ended"]
<1>11. [Reading(temp, size, Len(text)) EXCEPT !.loop = "Ended"] = ended
  BY DEF Reading
<1>12. Placement(Append(text, Space)) = ended
  BY <1>1, <1>2, <1>10, <1>11, ReadsOn
<1>13. ended.loop = "Ended" /\ [ended EXCEPT !.loop = "Ended"] = ended
  OBVIOUS
<1>14. /\ ended.temp = temp /\ ended.sq = size /\ ended.length = Len(text)
  OBVIOUS
<1> HIDE DEF ended
<1>15. ReadChar(ended, color) = ended
  BY <1>13 DEF ReadChar
<1>16. Placement(fen) = ended
  BY <1>2, <1>3, <1>9, <1>12, <1>15, ReadsOn
<1>17. /\ Len(fen) = Len(text) + 2
       /\ fen[Len(text) + 1] = Space /\ fen[Len(text) + 2] = color
  BY <1>1, <1>2, <1>3, <1>9
<1> DEFINE rest  == {i \in (Len(text) + 1)..Len(fen) : fen[i] # Space}
           first == CHOOSE i \in rest : \A j \in rest : i <= j
<1>18. rest = {Len(text) + 2}
  BY <1>2, <1>6, <1>17
<1>19. rest # {} /\ first = Len(text) + 2
  BY <1>2, <1>18
<1> DEFINE board == [Cleared EXCEPT !.squares = RanksReversed(temp)]
<1>20. board = [squares |-> b.squares, active |-> "White"]
  BY <1>5 DEF Cleared
<1> HIDE DEF board
<1>21. /\ [board EXCEPT !.active = "White"] = [squares |-> b.squares, active |-> "White"]
       /\ [board EXCEPT !.active = "Black"] = [squares |-> b.squares, active |-> "Black"]
  BY <1>20
<1> HIDE DEF rest, first
<1>22. Parse(fen) =
         IF ended.sq # Side * Side THEN [ok |-> FALSE, board |-> Cleared]
         ELSE IF color = "w" THEN [ok |-> TRUE, board |-> [board EXCEPT !.active = "White"]]
         ELSE IF color = "b" THEN [ok |-> TRUE, board |-> [board EXCEPT !.active = "Black"]]
         ELSE [ok |-> FALSE, board |-> board]
  BY <1>14, <1>16, <1>17, <1>19 DEF Parse, board, rest, first
<1>23. CASE color = "w"
  BY <1>7, <1>14, <1>21, <1>22, <1>23 DEF size, fen
<1>24. CASE color # "w"
  BY <1>8, <1>14, <1>21, <1>22, <1>24 DEF size, fen
<1> QED BY <1>23, <1>24
=============================================================================
