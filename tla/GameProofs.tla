----------------------------- MODULE GameProofs -----------------------------
(***************************************************************************)
(* What holds of every game: on a board of any size, from any of the       *)
(* starts, for any attempts and with no bound on the number of moves.      *)
(***************************************************************************)
EXTENDS Game, RulesProofs, LocatorsProofs, FenProofs

USE SideAssumption, StartsAssumption, MaxMovesAssumption

(* A step of the game: the move that is made, between two squares.         *)
Played(s, t) ==
  /\ s \in Squares /\ t \in Squares
  /\ Own(board, s, board.active) /\ CanMove(board, s, t)
  /\ IsLegal(board, Move(s, t, "Queen"))
  /\ status = "Ongoing"
  /\ moveCount < MaxMoves
  /\ board' = Moved(board, s, t)
  /\ moveCount' = moveCount + 1
  /\ status' = StatusOf(CheckGameEnd(board'))

LEMMA PawnsGoForward ==
  ASSUME NEW b \in Boards, NEW s \in Squares, NEW t \in Squares, NEW color \in Colors,
         Own(b, s, color), KindOf(b, s) = "Pawn", CanMove(b, s, t),
         RankOf(s) \in 1..(Side - 2)
  PROVE  /\ RankOf(t) = LastRank(color) <=> RankOf(t) \in {0, Side - 1}
         /\ RankOf(t) # LastRank(color) => RankOf(t) \in 1..(Side - 2)
<1>1. RankOf(t) \in Lane /\ RankOf(s) \in Lane
  BY Coordinates
<1>2. ColorOf(b, s) = color
  BY DEF Own
<1>3. PICK n \in 1..2 : RankOf(t) - RankOf(s) = n * Forward(color)
  BY <1>2 DEF CanMove, Attacks, Advances, Forward
<1>4. RankOf(t) - RankOf(s) = Forward(color) \/ RankOf(t) - RankOf(s) = 2 * Forward(color)
  BY <1>3 DEF Forward
<1>5. CASE color = "White"
  <2>1. RankOf(t) > RankOf(s) /\ LastRank(color) = Side - 1
    BY <1>1, <1>4, <1>5 DEF Forward, LastRank, Lane
  <2> QED BY <1>1, <2>1 DEF Lane
<1>6. CASE color = "Black"
  <2>1. RankOf(t) < RankOf(s) /\ LastRank(color) = 0
    BY <1>1, <1>4, <1>6 DEF Forward, LastRank, Lane
  <2> QED BY <1>1, <2>1 DEF Lane
<1> QED BY <1>5, <1>6 DEF Colors

\* What makeMove puts down is what chess does, its promotion included.
LEMMA AfterIsMoved ==
  ASSUME NEW b \in Boards, PawnsInside(b), NEW s \in Squares, NEW t \in Squares,
         Own(b, s, b.active), CanMove(b, s, t)
  PROVE  After(b, s, t) = Moved(b, s, t)
<1>1. b.active \in Colors
  BY DEF Boards
<1>2. b.squares[s].color = b.active /\ KindOf(b, s) = b.squares[s].kind
  BY DEF Own, ColorOf, KindOf
<1>3. b.squares[s].kind = "Pawn" =>
        (RankOf(t) \in {0, Side - 1} <=> RankOf(t) = LastRank(b.squares[s].color))
  BY <1>1, <1>2, PawnsGoForward DEF PawnsInside
<1> QED BY <1>3 DEF After, Placed, Moved

LEMMA MovedInside ==
  ASSUME NEW b \in Boards, PawnsInside(b), NEW s \in Squares, NEW t \in Squares,
         Own(b, s, b.active), CanMove(b, s, t)
  PROVE  Moved(b, s, t) \in Boards /\ PawnsInside(Moved(b, s, t))
<1> DEFINE c == Moved(b, s, t)
<1>1. c \in Boards /\ b.active \in Colors
  BY MovedLands DEF Boards
<1>2. PICK piece : /\ Lands(b, s, piece)
                   /\ c.squares = Put(b, s, t, piece)
                   /\ \/ piece = b.squares[s]
                      \/ piece.kind = "Queen" /\ KindOf(b, s) = "Pawn"
                   /\ piece.kind = "Pawn" => RankOf(t) # LastRank(b.active)
  BY MovedLands
<1> HIDE DEF c
<1>3. ASSUME NEW q \in Squares, KindOf(c, q) = "Pawn"
      PROVE  RankOf(q) \in 1..(Side - 2)
  <2>1. c.squares[q] = IF q = t THEN piece ELSE IF q = s THEN Empty ELSE b.squares[q]
    BY <1>2, PutBoard DEF Lands
  <2>2. CASE q = t
    <3>1. piece.kind = "Pawn" /\ KindOf(b, s) = "Pawn" /\ RankOf(t) # LastRank(b.active)
      BY <1>2, <1>3, <2>1, <2>2 DEF KindOf
    <3> QED BY <1>1, <2>2, <3>1, PawnsGoForward DEF PawnsInside
  <2>3. CASE q # t
    BY <1>3, <2>1, <2>3 DEF KindOf, Empty, Piece, PawnsInside
  <2> QED BY <2>2, <2>3
<1> QED BY <1>1, <1>3 DEF c, PawnsInside

LEMMA NextPlays ==
  ASSUME TypeOK, Next
  PROVE  \E s, t : Played(s, t)
<1>1. PICK s, t : MakeMove(s, t)
  BY DEF Next, MakeMoveSaid
<1>2. board \in Boards /\ PawnsInside(board)
  BY DEF TypeOK
<1>3. IsPseudoLegal(board, Move(s, t, "Queen"))
  BY <1>1 DEF MakeMove, IsLegal
<1>4. s \in Squares /\ t \in Squares /\ Own(board, s, board.active) /\ CanMove(board, s, t)
  BY <1>2, <1>3, PseudoLegalAsInChess
<1>5. After(board, s, t) = Moved(board, s, t)
  BY <1>2, <1>4, AfterIsMoved
<1>6. Played(s, t)
  BY <1>1, <1>4, <1>5 DEF MakeMove, Played
<1> QED BY <1>6

LEMMA EndsAreStatuses ==
  ASSUME NEW b
  PROVE  CheckGameEnd(b) \in GameEnds /\ StatusOf(CheckGameEnd(b)) \in Statuses
<1>1. CheckGameEnd(b) \in {0, 1, 2}
  BY DEF CheckGameEnd
<1> QED BY <1>1 DEF GameEnds, StatusOf, Statuses

LEMMA InitTypeOK == Init => TypeOK
  BY DEF Init, TypeOK, Statuses

LEMMA NextTypeOK ==
  ASSUME TypeOK, [Next]_vars
  PROVE  TypeOK'
<1>1. CASE Next
  <2>1. PICK s, t : Played(s, t)
    BY <1>1, NextPlays
  <2>2. board' \in Boards /\ PawnsInside(board')
    BY <2>1, MovedInside DEF TypeOK, Played
  <2>3. status' \in Statuses
    BY <2>1, EndsAreStatuses DEF Played
  <2>4. moveCount' \in 0..MaxMoves
    BY <2>1 DEF Played, TypeOK
  <2> QED BY <2>2, <2>3, <2>4 DEF TypeOK
<1>2. CASE UNCHANGED vars
  BY <1>2 DEF vars, TypeOK, PawnsInside
<1> QED BY <1>1, <1>2

(* The board stays one, and every pawn that reaches the end of the board   *)
(* has become something else by makeMove (Game.h).                         *)
THEOREM TypeCorrect == Spec => []TypeOK
<1>1. Init => TypeOK
  BY InitTypeOK
<1>2. TypeOK /\ [Next]_vars => TypeOK'
  BY NextTypeOK
<1> QED BY <1>1, <1>2, PTL DEF Spec

(* Whatever stands on the board, knights and all: a move that makeMove     *)
(* accepts is one that the piece can make, and what it does is what chess  *)
(* has it do.                                                              *)
THEOREM MovesArePlayed ==
  Spec => [][\E s, t \in Squares : /\ Own(board, s, board.active)
                                   /\ CanMove(board, s, t)
                                   /\ board' = Moved(board, s, t)]_vars
<1>1. ASSUME TypeOK, Next
      PROVE  \E s, t \in Squares : /\ Own(board, s, board.active)
                                   /\ CanMove(board, s, t)
                                   /\ board' = Moved(board, s, t)
  BY <1>1, NextPlays DEF Played
<1>2. TypeOK /\ [Next]_vars =>
        [\E s, t \in Squares : /\ Own(board, s, board.active)
                               /\ CanMove(board, s, t)
                               /\ board' = Moved(board, s, t)]_vars
  BY <1>1
<1> QED BY <1>2, TypeCorrect, PTL DEF Spec

-----------------------------------------------------------------------------
LEMMA PlayedMen ==
  ASSUME TypeOK, NEW s, NEW t, Played(s, t)
  PROVE  LET mover == board.active
             other == Opponent(mover)
         IN  /\ s \in Men(board, mover) /\ t \in Squares \ Men(board, mover)
             /\ Men(board', mover) = (Men(board, mover) \ {s}) \cup {t}
             /\ Men(board', other) = Men(board, other) \ {t}
             /\ \A sq \in Squares \ {s, t} : board'.squares[sq] = board.squares[sq]
<1> DEFINE mover == board.active
           other == Opponent(mover)
<1>1. /\ board \in Boards /\ mover \in Colors
      /\ s \in Squares /\ t \in Squares /\ Own(board, s, mover) /\ CanMove(board, s, t)
      /\ board' = Moved(board, s, t)
  BY DEF TypeOK, Played, Boards
<1>2. ~Own(board, t, mover)
  BY <1>1, CanMoveAway
<1>3. /\ board' \in Boards
      /\ \E piece : Lands(board, s, piece) /\ board'.squares = Put(board, s, t, piece)
  BY <1>1, MovedLands
<1> HIDE DEF mover
<1>4. \A q \in Squares :
        /\ Own(board', q, mover) <=> q = t \/ (q # s /\ Own(board, q, mover))
        /\ Own(board', q, other) <=> q # t /\ Own(board, q, other)
        /\ q \notin {s, t} => board'.squares[q] = board.squares[q]
  BY <1>1, <1>2, <1>3, PutPieces
<1>5. \A b, color, q : q \in Men(b, color) <=> q \in Squares /\ Own(b, q, color)
  BY DEF Men
<1>6. Men(board', mover) = (Men(board, mover) \ {s}) \cup {t}
  BY <1>1, <1>4, <1>5
<1>7. Men(board', other) = Men(board, other) \ {t}
  BY <1>1, <1>4, <1>5
<1>8. s \in Men(board, mover) /\ t \in Squares \ Men(board, mover)
  BY <1>1, <1>2, <1>5
<1> QED BY <1>4, <1>6, <1>7, <1>8 DEF mover

(* A move made by makeMove (Game.h) takes at most the piece it lands on    *)
(* and disturbs no other.                                                  *)
THEOREM MovesDisturbNothingElse == Spec => OnePieceMoves
<1> DEFINE OnePiece ==
      LET mover == board.active
          other == Opponent(mover)
      IN  /\ \E from \in Men(board, mover) : \E to \in Squares \ Men(board, mover) :
               /\ Men(board', mover) = (Men(board, mover) \ {from}) \cup {to}
               /\ Men(board', other) = Men(board, other) \ {to}
          /\ \A color \in Colors : \A sq \in Men(board, color) \cap Men(board', color) :
               board'.squares[sq] = board.squares[sq]
<1>1. ASSUME TypeOK, Next
      PROVE  OnePiece
  <2> DEFINE mover == board.active
             other == Opponent(mover)
  <2>1. PICK s, t : Played(s, t)
    BY <1>1, NextPlays
  <2>2. /\ s \in Men(board, mover) /\ t \in Squares \ Men(board, mover)
        /\ Men(board', mover) = (Men(board, mover) \ {s}) \cup {t}
        /\ Men(board', other) = Men(board, other) \ {t}
        /\ \A sq \in Squares \ {s, t} : board'.squares[sq] = board.squares[sq]
    BY <1>1, <2>1, PlayedMen
  <2>3. mover \in Colors /\ \A color \in Colors : color \in {mover, other}
    BY <1>1 DEF TypeOK, Boards, Colors, Opponent
  <2>4. /\ Men(board, mover) \subseteq Squares /\ Men(board, other) \subseteq Squares
        /\ Men(board, mover) \cap Men(board, other) = {}
    BY <2>3 DEF Men, Own, Opponent
  <2> HIDE DEF mover, other
  <2>5. ASSUME NEW color \in Colors, NEW sq \in Men(board, color) \cap Men(board', color)
        PROVE  sq \in Squares \ {s, t}
    <3>1. CASE color = mover
      BY <2>2, <2>4, <2>5, <3>1
    <3>2. CASE color = other
      BY <2>2, <2>4, <2>5, <3>2
    <3> QED BY <2>3, <3>1, <3>2
  <2> QED BY <2>2, <2>5 DEF mover, other
<1>2. TypeOK /\ [Next]_vars => [OnePiece]_vars
  BY <1>1
<1> HIDE DEF OnePiece
<1>3. Spec => [][OnePiece]_vars
  BY <1>2, TypeCorrect, PTL DEF Spec
<1> QED BY <1>3, Zenon DEF OnePiece, OnePieceMoves

(* Seen from outside, the engine does what SessionManager's model assumes  *)
(* of it: one move in turn, and none after the end.                        *)
THEOREM EngineKeepsToOutcome == Spec => PlaysInTurn
<1>1. ASSUME TypeOK, Next
      PROVE  [status |-> status', turn |-> board'.active]
               \in GamesAfterMove([status |-> status, turn |-> board.active])
  <2>1. PICK s, t : Played(s, t)
    BY <1>1, NextPlays
  <2>2. board'.active = Opponent(board.active) /\ status = "Ongoing"
    BY <1>1, <2>1, MovedLands DEF Played, TypeOK
  <2>3. status' = StatusOf(CheckGameEnd(board')) /\ CheckGameEnd(board') \in GameEnds
    BY <2>1, EndsAreStatuses DEF Played
  <2> QED BY <2>2, <2>3 DEF GamesAfterMove
<1>2. TypeOK /\ [Next]_vars =>
        [[status |-> status', turn |-> board'.active]
           \in GamesAfterMove([status |-> status, turn |-> board.active])]_vars
  BY <1>1
<1> QED BY <1>2, TypeCorrect, PTL DEF Spec, PlaysInTurn

-----------------------------------------------------------------------------
(* A board on which the side that is not to move is not in check, each     *)
(* colour has one king, and neither has a knight.                          *)
Lawful(b) ==
  /\ \A color \in Colors : NoKnights(b, color)
  /\ \A color \in Colors : \E k \in Squares : Found(b, "King", color) = {k}
  /\ ~InCheck(b, Opponent(b.active))

(* What a game keeps to that starts on such a board.                       *)
Sound ==
  /\ TypeOK
  /\ Lawful(board)
  /\ moveCount > 0 => status = StatusOf(CheckGameEnd(board))

LEMMA PlayedLawful ==
  ASSUME TypeOK, Lawful(board), NEW s, NEW t, Played(s, t)
  PROVE  Lawful(board')
<1> DEFINE mover == board.active
           other == Opponent(mover)
<1>1. /\ board \in Boards /\ mover \in Colors /\ other \in Colors
      /\ s \in Squares /\ t \in Squares /\ Own(board, s, mover) /\ CanMove(board, s, t)
      /\ board' = Moved(board, s, t) /\ board'.active = other
  BY MovedLands DEF TypeOK, Played, Boards, Opponent, Colors
<1>2. ~Own(board, t, mover)
  BY <1>1, CanMoveAway
<1>3. Opponent(other) = mover /\ \A color \in Colors : color \in {mover, other}
  BY <1>1 DEF Opponent, Colors
<1>4. /\ board' \in Boards
      /\ \E piece : /\ Lands(board, s, piece)
                    /\ board'.squares = Put(board, s, t, piece)
                    /\ \/ piece = board.squares[s]
                       \/ piece.kind = "Queen" /\ KindOf(board, s) = "Pawn"
  BY <1>1, MovedLands
<1>5. ~InCheck(board', Opponent(board'.active))
  <2>1. <<s, t>> \in LegalMoves(board)
    BY <1>1, LegalAsInChess DEF Lawful, Played
  <2> QED BY <1>1, <1>3, <2>1 DEF LegalMoves
<1>6. t \notin Found(board, "King", other)
  <2> SUFFICES ASSUME t \in Found(board, "King", other)
               PROVE  FALSE
    OBVIOUS
  <2>1. ~IsEmpty(board, t)
    BY DEF Found, IsEmpty, Piece, Empty
  <2>2. Attacks(board, s, t)
    BY <1>1, <2>1 DEF CanMove
  <2>3. InCheck(board, other)
    BY <1>1, <1>3, <2>2 DEF InCheck
  <2> QED BY <2>3 DEF Lawful
<1> HIDE DEF mover, other
<1>7. /\ \A q \in Squares :
           /\ Own(board', q, mover) <=> q = t \/ (q # s /\ Own(board, q, mover))
           /\ Own(board', q, Opponent(mover)) <=> q # t /\ Own(board, q, Opponent(mover))
           /\ q \notin {s, t} => board'.squares[q] = board.squares[q]
      /\ Found(board', "King", Opponent(mover)) = Found(board, "King", Opponent(mover)) \ {t}
      /\ Found(board', "King", mover) = IF KindOf(board, s) = "King"
                                        THEN (Found(board, "King", mover) \ {s}) \cup {t}
                                        ELSE Found(board, "King", mover)
  BY <1>1, <1>2, <1>4, PutPieces
<1>8. \A color \in Colors : \E k \in Squares : Found(board', "King", color) = {k}
  <2>1. PICK k \in Squares : Found(board, "King", mover) = {k}
    BY <1>1 DEF Lawful
  <2>2. KindOf(board, s) = "King" => s = k
    <3>1. KindOf(board, s) = "King" => s \in Found(board, "King", mover)
      BY <1>1, OwnKinds DEF Found, Own
    <3> QED BY <2>1, <3>1
  <2>3. Found(board', "King", mover) \in {{k}, {t}}
    BY <1>7, <2>1, <2>2
  <2>4. Found(board', "King", other) = Found(board, "King", other)
    BY <1>6, <1>7 DEF other
  <2> QED BY <1>1, <1>3, <2>1, <2>3, <2>4 DEF Lawful
<1>9. \A color \in Colors : NoKnights(board', color)
  <2> SUFFICES ASSUME NEW color \in Colors, NEW q \in Squares, Own(board', q, color)
               PROVE  KindOf(board', q) # "Knight"
    BY DEF NoKnights
  <2>1. ~Own(board, s, other)
    BY <1>1, <1>3 DEF Own, other, Opponent
  <2>2. CASE q = t
    <3>1. PICK piece : /\ Lands(board, s, piece)
                       /\ board'.squares = Put(board, s, t, piece)
                       /\ \/ piece = board.squares[s]
                          \/ piece.kind = "Queen" /\ KindOf(board, s) = "Pawn"
      BY <1>4
    <3>2. KindOf(board', q) = piece.kind
      BY <1>1, <2>2, <3>1, PutBoard DEF KindOf, Lands
    <3>3. KindOf(board, s) # "Knight"
      BY <1>1 DEF Lawful, NoKnights
    <3> QED BY <3>1, <3>2, <3>3 DEF KindOf
  <2>3. CASE q # t
    <3>1. Own(board, q, color) /\ q # s
      BY <1>3, <1>7, <2>1, <2>3 DEF other
    <3>2. KindOf(board', q) = KindOf(board, q)
      BY <1>7, <2>3, <3>1 DEF KindOf
    <3> QED BY <3>1, <3>2 DEF Lawful, NoKnights
  <2> QED BY <2>2, <2>3
<1> QED BY <1>5, <1>8, <1>9 DEF Lawful

LEMMA SoundGames ==
  ASSUME \A b \in Starts : Lawful(b)
  PROVE  Spec => []Sound
<1>1. Init => Sound
  BY InitTypeOK DEF Init, Sound
<1>2. ASSUME Sound, [Next]_vars
      PROVE  Sound'
  <2>1. CASE Next
    <3>1. PICK s, t : Played(s, t)
      BY <1>2, <2>1, NextPlays DEF Sound
    <3>2. TypeOK'
      BY <1>2, NextTypeOK DEF Sound
    <3>3. Lawful(board')
      BY <1>2, <3>1, PlayedLawful DEF Sound
    <3>4. status' = StatusOf(CheckGameEnd(board'))
      BY <3>1 DEF Played
    <3> QED BY <3>2, <3>3, <3>4 DEF Sound
  <2>2. CASE UNCHANGED vars
    <3>1. TypeOK'
      BY <1>2, NextTypeOK DEF Sound
    <3> QED BY <1>2, <2>2, <3>1 DEF vars, Sound
  <2> QED BY <1>2, <2>1, <2>2
<1> QED BY <1>1, <1>2, PTL DEF Spec

(* From a lawful board, isLegal accepts in every position that is reached  *)
(* exactly the moves of chess.                                             *)
THEOREM GamesAcceptChess ==
  ASSUME \A b \in Starts : Lawful(b)
  PROVE  Spec => []AcceptsChess
<1>1. ASSUME Sound
      PROVE  AcceptsChess
  <2>1. /\ board \in Boards /\ board.active \in Colors /\ Opponent(board.active) \in Colors
        /\ NoKnights(board, board.active) /\ NoKnights(board, Opponent(board.active))
        /\ \E k \in Squares : Found(board, "King", board.active) = {k}
    BY <1>1 DEF Sound, TypeOK, Boards, Lawful, Opponent, Colors
  <2>2. Accepted(board) = LegalMoves(board)
    BY <2>1, MovesAreChess
  <2> QED BY <2>2 DEF AcceptsChess, Accepted
<1> QED BY <1>1, SoundGames, PTL

(* From a lawful board, makeMove never lets a king be captured or left in  *)
(* check, so that findPiece and isInCheck find the one there is.           *)
THEOREM GamesKeepKings ==
  ASSUME \A b \in Starts : Lawful(b)
  PROVE  Spec => []KingsSafe
<1>1. Sound => KingsSafe
  BY DEF Sound, Lawful, KingsSafe
<1> QED BY <1>1, SoundGames, PTL

(* From a lawful board, makeMove ends the game with the move that leaves   *)
(* the opponent no other, and with none before it.                         *)
THEOREM GamesEndWhenStuck ==
  ASSUME \A b \in Starts : Lawful(b)
  PROVE  Spec => []EndsWhenStuck
<1>1. ASSUME Sound
      PROVE  EndsWhenStuck
  <2>1. /\ board \in Boards /\ board.active \in Colors /\ Opponent(board.active) \in Colors
        /\ NoKnights(board, board.active) /\ NoKnights(board, Opponent(board.active))
        /\ \E k \in Squares : Found(board, "King", board.active) = {k}
    BY <1>1 DEF Sound, TypeOK, Boards, Lawful, Opponent, Colors
  <2>2. CheckGameEnd(board) = 0 <=> LegalMoves(board) # {}
    BY <2>1, StuckAsInChess
  <2>3. StatusOf(CheckGameEnd(board)) = "Ongoing" <=> CheckGameEnd(board) = 0
    BY EndsAreStatuses DEF StatusOf, GameEnds
  <2> QED BY <1>1, <2>2, <2>3 DEF Sound, EndsWhenStuck
<1> QED BY <1>1, SoundGames, PTL

-----------------------------------------------------------------------------
(* getPawnState names every man of the board once, where makeMove will     *)
(* look for it.                                                            *)
THEOREM ReportsAreBoards == Spec => []ReportIsBoard
<1>1. ASSUME NEW b
      PROVE  \A sq \in Squares :
               LET here == {i \in DOMAIN PawnState(b) : LocatorToSquare(PawnState(b)[i]) = sq} IN
               IF IsEmpty(b, sq) THEN here = {}
               ELSE \E i \in DOMAIN PawnState(b) :
                      here = {i} /\ PawnState(b)[i] = LocatorAt(b, sq)
  <2> DEFINE pawns == PawnState(b)
  <2>1. /\ Distinct(pawns)
        /\ \A l : l \in Named(pawns) <=> \E s \in Squares : ~IsEmpty(b, s) /\ l = LocatorAt(b, s)
    BY PawnStateNames
  <2> HIDE DEF pawns
  <2> SUFFICES ASSUME NEW sq \in Squares
               PROVE  LET here == {i \in DOMAIN pawns : LocatorToSquare(pawns[i]) = sq} IN
                      IF IsEmpty(b, sq) THEN here = {}
                      ELSE \E i \in DOMAIN pawns : here = {i} /\ pawns[i] = LocatorAt(b, sq)
    BY DEF pawns
  <2>2. \A i \in DOMAIN pawns : pawns[i] \in Named(pawns)
    BY DEF Named
  <2>3. \A i \in DOMAIN pawns : LocatorToSquare(pawns[i]) = sq =>
          ~IsEmpty(b, sq) /\ pawns[i] = LocatorAt(b, sq)
    BY <2>1, <2>2, LocatorsRead
  <2>4. CASE IsEmpty(b, sq)
    BY <2>3, <2>4
  <2>5. CASE ~IsEmpty(b, sq)
    <3>1. LocatorAt(b, sq) \in Named(pawns)
      BY <2>1, <2>5
    <3>2. PICK i \in DOMAIN pawns : pawns[i] = LocatorAt(b, sq)
      BY <3>1 DEF Named
    <3>3. {j \in DOMAIN pawns : LocatorToSquare(pawns[j]) = sq} = {i}
      BY <2>1, <2>3, <3>2, LocatorsRead DEF Distinct
    <3> QED BY <2>5, <3>2, <3>3
  <2> QED BY <2>4, <2>5
<1>2. ReportIsBoard
  BY <1>1 DEF ReportIsBoard
<1> QED BY <1>2, PTL

(* A report that follows the board, in whatever order, is accepted by      *)
(* verifyGameState; one that is a move behind, leaves a man out or names   *)
(* one twice is not.                                                       *)
THEOREM ReportsFollowTheBoard == Spec => ReportsJudged
<1> DEFINE Judged ==
      LET pawns == PawnState(board')
          n     == Len(pawns)
      IN  /\ Verified(board', [i \in 1..n |-> pawns[n + 1 - i]])
          /\ ~Verified(board', PawnState(board))
          /\ ~Verified(board', Tail(pawns))
          /\ ~Verified(board', Append(pawns, pawns[1]))
<1>1. ASSUME TypeOK, Next
      PROVE  Judged
  <2>1. PICK s, t : Played(s, t)
    BY <1>1, NextPlays
  <2>2. /\ s \in Men(board, board.active) /\ t \in Men(board', board.active)
        /\ s \notin Men(board', board.active)
        /\ s \notin Men(board', Opponent(board.active))
    BY <1>1, <2>1, PlayedMen DEF Men, Own, Opponent
  <2>3. s \in Squares /\ t \in Squares /\ ~IsEmpty(board, s) /\ ~IsEmpty(board', t)
    BY <2>2 DEF Men, Own
  <2>4. IsEmpty(board', s)
    <3>1. ColorOf(board', s) \in Colors \/ IsEmpty(board', s)
      <4>1. board' \in Boards
        BY <1>1, NextTypeOK DEF TypeOK
      <4> QED BY <2>3, <4>1, OwnKinds
    <3>2. \A color \in Colors : color \in {board.active, Opponent(board.active)}
      BY <1>1 DEF TypeOK, Boards, Colors, Opponent
    <3> QED BY <2>2, <2>3, <3>1, <3>2 DEF Men, Own
  <2>5. Named(PawnState(board)) # Named(PawnState(board'))
    <3>1. LocatorAt(board, s) \in Named(PawnState(board))
      BY <2>3, PawnStateNames
    <3>2. ASSUME LocatorAt(board, s) \in Named(PawnState(board'))
          PROVE  FALSE
      <4>1. PICK q \in Squares : ~IsEmpty(board', q) /\ LocatorAt(board, s) = LocatorAt(board', q)
        BY <3>2, PawnStateNames
      <4> QED BY <2>3, <2>4, <4>1, LocatorsRead
    <3> QED BY <3>1, <3>2
  <2>6. ~Verified(board', PawnState(board))
    BY <2>5, VerifiedAsNamed
  <2> QED BY <2>3, <2>6, Reordered, LeftOutOrTwice
<1>2. TypeOK /\ [Next]_vars => [Judged]_vars
  BY <1>1
<1> HIDE DEF Judged
<1>3. Spec => [][Judged]_vars
  BY <1>2, TypeCorrect, PTL DEF Spec
<1> QED BY <1>3, PTL DEF Judged, ReportsJudged

(* generate and parse: every position of a game reads back.  A digit counts *)
(* the empty squares of a rank, whence the bound, which the code's 8 meets. *)
THEOREM GamesReadBack ==
  ASSUME Side <= 8
  PROVE  Spec => []FenRoundTrip
<1>1. TypeOK => FenRoundTrip
  BY BoardsReadBack DEF TypeOK, FenRoundTrip
<1> QED BY <1>1, TypeCorrect, PTL
=============================================================================
