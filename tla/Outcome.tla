------------------------------ MODULE Outcome -------------------------------
(***************************************************************************)
(* What a move may do to a game as seen from outside its board: whose turn *)
(* it is and how the game stands.  SessionManager assumes this much of     *)
(* engine::Game, and module Game shows that the engine keeps to it.        *)
(***************************************************************************)
EXTENDS Integers

Colors   == {"White", "Black"}
Opponent(color) == IF color = "White" THEN "Black" ELSE "White"
Statuses == {"Ongoing", "WhiteWins", "BlackWins", "Draw"}

(* What Rules::checkGameEnd returns and the status that Game::makeMove     *)
(* gives each code; 3 is never returned.                                   *)
GameEnds == 0..2
StatusOf(end) ==
  CASE end = 0 -> "Ongoing"
    [] end = 1 -> "WhiteWins"
    [] end = 2 -> "BlackWins"
    [] end = 3 -> "Draw"

(* The games an accepted makeMove may leave; a rejected one changes        *)
(* nothing, and a game that is over accepts no move.                       *)
GamesAfterMove(game) ==
  {[status |-> StatusOf(end), turn |-> Opponent(game.turn)] :
      end \in {e \in GameEnds : game.status = "Ongoing"}}
=============================================================================
