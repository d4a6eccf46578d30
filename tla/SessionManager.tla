--------------------------- MODULE SessionManager ---------------------------
(***************************************************************************)
(* The match bookkeeping of session::SessionManager                        *)
(* (src/ChessJam/Session/SessionManager.{h,cpp}): sessions are created,    *)
(* joined by two ClientContexts, played, and finished by a move that ends  *)
(* the game, a resignation, a departure, or endSession.                    *)
(*                                                                         *)
(* A method is one action here.  The methods take no lock, so this module  *)
(* is what they do when they do not overlap; module Server looks at the    *)
(* threads that call them.  Rejected calls (the early returns) leave the   *)
(* state as it is and are the guards below.                                *)
(*                                                                         *)
(* A ClientContext lives on the stack of the thread that serves it.  A     *)
(* client is therefore an ADDRESS: it is `live' from construction to the   *)
(* end of that thread, and a later thread may reuse it.                    *)
(***************************************************************************)
EXTENDS Integers, Sequences, Outcome

CONSTANTS
  Clients,        \* addresses at which a ClientContext may be constructed
  IdMod,          \* 2^16 in the code: session ids are uint16_t
  Creatable,      \* values of the counter at which createSession is called
                  \* (bounds the runs; without 0 the counter never wraps)
  RejoinAllowed   \* may a caller join while already in a session?

ASSUME IdModAssumption     == IdMod \in Nat /\ IdMod >= 2
ASSUME CreatableAssumption == Creatable \subseteq 0..(IdMod - 1)
ASSUME RejoinAssumption    == RejoinAllowed \in BOOLEAN

VARIABLES
  sessions,       \* sessions_: id -> Session; entries are never erased
  nextSessionId,  \* nextSessionId_
  sessionOf,      \* ClientContext::sessionId, 0 = not in a session
  gameOf,         \* ClientContext::game: the session owning the Game, or NoGame
  live,           \* ClientContexts that exist
  namedWhite      \* live clients whose Greeting carried the name "White"

vars == <<sessions, nextSessionId, sessionOf, gameOf, live, namedWhite>>

SessionIds == 0..(IdMod - 1)
NoGame     == -1

\* Session::state
Waiting  == 0
Active   == 1
Finished == 2

\* The part of engine::Game the manager depends on: status and side to move.
Game    == [status : Statuses, turn : Colors]
NewGame == [status |-> "Ongoing", turn |-> "White"]

Session    == [players : Seq(Clients), state : {Waiting, Active, Finished}, game : Game]
NoSessions == [s \in {} |-> 0]
NewSession == [players |-> <<>>, state |-> Waiting, game |-> NewGame]

-----------------------------------------------------------------------------
\* Mutant: the status is set and Session::state forgotten.
StatusOnly(sess, status) ==
  [sess EXCEPT !.game = [status |-> status, turn |-> sess.game.turn]]

SetStatus(sess, status) ==
  [players |-> sess.players, state |-> Finished,
   game |-> [status |-> status, turn |-> sess.game.turn]]

(* players.erase(std::remove(..., &client)): a session never has more than *)
(* two players, so nobody, everybody, or the other one remains.            *)
Without(players, c) ==
  IF \A i \in DOMAIN players : players[i] = c THEN <<>>
  ELSE IF \A i \in DOMAIN players : players[i] # c THEN players
  ELSE <<CHOOSE d \in {players[i] : i \in DOMAIN players} : d # c>>

Seats(sess)       == {sess.players[i] : i \in DOMAIN sess.players}
Exists(s)         == s \in DOMAIN sessions
SeatedIn(c, s)    == Exists(s) /\ c \in Seats(sessions[s])
InSession(c)      == sessionOf[c] # 0 /\ Exists(sessionOf[c])
InPlay(c)         == InSession(c) /\ sessions[sessionOf[c]].state = Active
PutSession(s, sess) ==
  [i \in DOMAIN sessions \cup {s} |-> IF i = s THEN sess ELSE sessions[i]]

-----------------------------------------------------------------------------
Init ==
  /\ sessions = NoSessions
  /\ nextSessionId = 1
  /\ sessionOf = [c \in Clients |-> 0]
  /\ gameOf = [c \in Clients |-> NoGame]
  /\ live = {}
  /\ namedWhite = {}

(* The manager's environment: handleClient constructs a ClientContext ...  *)
Connect(c) ==
  /\ c \notin live
  /\ live' = live \cup {c}
  /\ \E white \in SUBSET {c} : namedWhite' = (namedWhite \ {c}) \cup white
  /\ sessionOf' = [sessionOf EXCEPT ![c] = 0]
  /\ gameOf' = [gameOf EXCEPT ![c] = NoGame]
  /\ UNCHANGED <<sessions, nextSessionId>>

\* The id that createSession returns has no user and is left out: it is the
\* largest in use (sessions_.rbegin()->first), the new one until ids wrap.
CreateSession ==
  /\ nextSessionId \in Creatable
  /\ sessions' = PutSession(nextSessionId, NewSession)
  /\ nextSessionId' = (nextSessionId + 1) % IdMod
  /\ UNCHANGED <<sessionOf, gameOf, live, namedWhite>>

\* Mutant: the game starts with the first player.
SeatAndStart(sess, c) ==
  [players |-> Append(sess.players, c), state |-> Active, game |-> NewGame]

Seat(sess, c) ==
  LET players == Append(sess.players, c)
  IN  IF Len(players) = 2
      THEN [players |-> players, state |-> Active, game |-> NewGame]
      ELSE [sess EXCEPT !.players = players]

MayJoin(c) == c \in live /\ (RejoinAllowed \/ sessionOf[c] = 0)

\* Mutant: neither the state nor the number of players is looked at.
JoinAnySession(c, s) ==
  /\ MayJoin(c)
  /\ Exists(s)
  /\ sessionOf' = [sessionOf EXCEPT ![c] = s]
  /\ sessions' = [sessions EXCEPT ![s].players = Append(@, c)]
  /\ UNCHANGED <<nextSessionId, gameOf, live, namedWhite>>

\* Mutant: sessionId is assigned before the early returns.
JoinAssignsFirst(c, s) ==
  /\ MayJoin(c)
  /\ Exists(s)
  /\ sessionOf' = [sessionOf EXCEPT ![c] = s]
  /\ sessions' = IF sessions[s].state = Waiting /\ Len(sessions[s].players) < 2
                 THEN [sessions EXCEPT ![s] = Seat(@, c)] ELSE sessions
  /\ UNCHANGED <<nextSessionId, gameOf, live, namedWhite>>

JoinSession(c, s) ==
  /\ MayJoin(c)
  /\ Exists(s)
  /\ sessions[s].state = Waiting
  /\ Len(sessions[s].players) < 2
  /\ sessionOf' = [sessionOf EXCEPT ![c] = s]
  /\ sessions' = [sessions EXCEPT ![s] = Seat(@, c)]
  /\ UNCHANGED <<nextSessionId, gameOf, live, namedWhite>>

Ended(sess) == [players |-> <<>>, state |-> Finished, game |-> sess.game]

EndSession(s) ==
  /\ Exists(s)
  /\ sessions' = [sessions EXCEPT ![s] = Ended(@)]
  /\ UNCHANGED <<nextSessionId, sessionOf, gameOf, live, namedWhite>>

(* winner->name == "White"; the name read through a pointer to a context   *)
(* that no longer exists can be anything.                                  *)
StatusesWonBy(winner) ==
  IF winner \notin live THEN {"WhiteWins", "BlackWins"}
  ELSE IF winner \in namedWhite THEN {"WhiteWins"}
  ELSE {"BlackWins"}

\* Mutant: the players of a finished session are left as they are.
AfterLeaveUnlessFinished(sess, c) ==
  LET rest == Without(sess.players, c)
      left == [sess EXCEPT !.players = rest]
  IN  IF sess.state = Finished THEN {sess}
      ELSE IF rest = <<>> THEN {Ended(sess)}
      ELSE IF sess.state = Active
           THEN {SetStatus(left, status) : status \in StatusesWonBy(rest[1])}
           ELSE {left}

\* Mutant: the game goes on with the remaining player.
AfterLeaveGoesOn(sess, c) ==
  LET rest == Without(sess.players, c)
  IN  IF rest = <<>> THEN {Ended(sess)} ELSE {[sess EXCEPT !.players = rest]}

\* Mutant: a finished session is made ready for another match.
AfterLeaveResets(sess, c) ==
  LET rest == Without(sess.players, c)
      left == [sess EXCEPT !.players = rest]
  IN  IF sess.state = Finished THEN {[left EXCEPT !.game = NewGame]}
      ELSE IF rest = <<>> THEN {Ended(sess)}
      ELSE IF sess.state = Active
           THEN {SetStatus(left, status) : status \in StatusesWonBy(rest[1])}
           ELSE {left}

AfterLeave(sess, c) ==
  LET rest == Without(sess.players, c)
      left == [sess EXCEPT !.players = rest]
  IN  IF rest = <<>> THEN {Ended(sess)}
      ELSE IF sess.state = Active
           THEN {SetStatus(left, status) : status \in StatusesWonBy(rest[1])}
           ELSE {left}

\* Mutant: client.game is not reset.
LeaveKeepsGame(c) ==
  /\ InSession(c)
  /\ \E sess \in AfterLeave(sessions[sessionOf[c]], c) :
       sessions' = [sessions EXCEPT ![sessionOf[c]] = sess]
  /\ sessionOf' = [sessionOf EXCEPT ![c] = 0]
  /\ UNCHANGED gameOf

(* leaveSession, with its two early returns.                               *)
Leave(c) ==
  \/ /\ ~InSession(c)
     /\ UNCHANGED <<sessions, sessionOf, gameOf>>
  \/ /\ InSession(c)
     /\ \E sess \in AfterLeave(sessions[sessionOf[c]], c) :
          sessions' = [sessions EXCEPT ![sessionOf[c]] = sess]
     /\ sessionOf' = [sessionOf EXCEPT ![c] = 0]
     /\ gameOf' = [gameOf EXCEPT ![c] = NoGame]

LeaveSession(c) ==
  /\ c \in live
  /\ Leave(c)
  /\ UNCHANGED <<nextSessionId, live, namedWhite>>

(* ... and, at its end, calls removeClient (hence leaveSession) and        *)
(* destroys the context.                                                   *)
Disconnect(c) ==
  /\ c \in live
  /\ Leave(c)
  /\ live' = live \ {c}
  /\ namedWhite' = namedWhite \ {c}
  /\ UNCHANGED nextSessionId

(* An accepted applyMove; the client need not be seated, nor to move.      *)
ApplyMove(c) ==
  /\ c \in live
  /\ InPlay(c)
  /\ \E game \in GamesAfterMove(sessions[sessionOf[c]].game) :
       sessions' = [sessions EXCEPT ![sessionOf[c]] =
                      [players |-> @.players,
                       state   |-> IF game.status = "Ongoing" THEN @.state ELSE Finished,
                       game    |-> game]]
  /\ gameOf' = [gameOf EXCEPT ![c] = sessionOf[c]]
  /\ UNCHANGED <<nextSessionId, sessionOf, live, namedWhite>>

(* players[0] is White, players[1] is Black; anybody else counts as White. *)
StatusResignedBy(sess, c) ==
  IF /\ ~(Len(sess.players) > 0 /\ sess.players[1] = c)
     /\ Len(sess.players) > 1
     /\ sess.players[2] = c
  THEN "WhiteWins" ELSE "BlackWins"

\* Mutant: a match that is over can be resigned.
ResignAnyTime(c) ==
  /\ c \in live
  /\ InSession(c)
  /\ sessions' = [sessions EXCEPT ![sessionOf[c]] = SetStatus(@, StatusResignedBy(@, c))]
  /\ UNCHANGED <<nextSessionId, sessionOf, gameOf, live, namedWhite>>

HandleResign(c) ==
  /\ c \in live
  /\ InPlay(c)
  /\ sessions' = [sessions EXCEPT ![sessionOf[c]] = SetStatus(@, StatusResignedBy(@, c))]
  /\ UNCHANGED <<nextSessionId, sessionOf, gameOf, live, namedWhite>>

Next ==
  \/ CreateSession
  \/ \E s \in SessionIds : EndSession(s)
  \/ \E c \in Clients :
       \/ Connect(c)
       \/ \E s \in SessionIds : JoinSession(c, s)
       \/ LeaveSession(c)
       \/ Disconnect(c)
       \/ ApplyMove(c)
       \/ HandleResign(c)

Spec == Init /\ [][Next]_vars

-----------------------------------------------------------------------------
(* Every variable has its type; no session ever seats more than two.       *)
TwoSeater(sess) == sess \in Session /\ Len(sess.players) <= 2

TypeOK ==
  /\ DOMAIN sessions \subseteq SessionIds
  /\ \A s \in DOMAIN sessions : TwoSeater(sessions[s])
  /\ nextSessionId \in SessionIds
  /\ sessionOf \in [Clients -> SessionIds]
  /\ gameOf \in [Clients -> SessionIds \cup {NoGame}]
  /\ live \subseteq Clients
  /\ namedWhite \subseteq live

(* A match that is being played has two seats taken, and a decided match   *)
(* is a finished one: applyMove, handleResign and leaveSession must always *)
(* set Game::status and Session::state together.                           *)
Consistent(sess) ==
  /\ sess.state = Active => Len(sess.players) = 2
  /\ sess.state = Waiting => Len(sess.players) < 2
  /\ sess.game.status # "Ongoing" => sess.state = Finished

MatchConsistent == \A s \in DOMAIN sessions : Consistent(sessions[s])

(* The two halves of the membership relation agree: a context that a       *)
(* session seats exists, and its sessionId is that session, so leaveSession*)
(* at disconnect removes the only pointer to it (nothing dangles).         *)
SeatedIsMember ==
  \A s \in DOMAIN sessions : \A c \in Seats(sessions[s]) :
    c \in live /\ sessionOf[c] = s

(* A client in a session that can still be played holds one of its seats,  *)
(* and nobody holds both: its moves and resignation are a player's.        *)
MemberIsSeated ==
  /\ \A c \in Clients :
       sessionOf[c] # 0 =>
         /\ Exists(sessionOf[c])
         /\ \/ SeatedIn(c, sessionOf[c])
            \/ sessions[sessionOf[c]].state = Finished
  /\ \A s \in DOMAIN sessions : \A i, j \in DOMAIN sessions[s].players :
       sessions[s].players[i] = sessions[s].players[j] => i = j

(* ClientContext::game never outlives the membership it was taken under:   *)
(* RequestGameState and the final state after a move show the client the   *)
(* game of its own, started session.                                       *)
GamePointerFresh ==
  \A c \in Clients :
    gameOf[c] # NoGame =>
      /\ gameOf[c] = sessionOf[c]
      /\ Exists(gameOf[c])
      /\ sessions[gameOf[c]].state # Waiting

(* A finished match stays finished and its result is final: nothing - a    *)
(* late resignation, the other player leaving, a rejoin, the creation of   *)
(* further sessions - reopens or re-decides it, although its seats empty.  *)
ResultIsFinal ==
  [][\A s \in DOMAIN sessions :
       sessions[s].state = Finished =>
         sessions'[s].state = Finished /\ sessions'[s].game = sessions[s].game]_vars

(* While a match is played nobody enters or leaves it: its seats change    *)
(* only in the step that finishes it, and it never returns to waiting.     *)
SeatsFixedInPlay ==
  [][\A s \in DOMAIN sessions :
       sessions[s].state = Active =>
         \/ sessions'[s].state = Finished
         \/ sessions'[s].state = Active /\ sessions'[s].players = sessions[s].players]_vars

(* The sessions implement MatchLifecycle, id by id.                        *)
PhaseOf(sess) ==
  IF sess.state = Waiting THEN "waiting"
  ELSE IF sess.state = Active THEN "active"
  ELSE "finished"

MatchPhase  == [s \in SessionIds |-> IF Exists(s) THEN PhaseOf(sessions[s]) ELSE "none"]
MatchSeats  == [s \in SessionIds |-> IF Exists(s) THEN Len(sessions[s].players) ELSE 0]
MatchResult == [s \in SessionIds |-> IF Exists(s) THEN sessions[s].game.status ELSE "Ongoing"]

Match == INSTANCE MatchLifecycle WITH
  Matches <- SessionIds, phase <- MatchPhase, seats <- MatchSeats, result <- MatchResult

MatchSpec == Match!Spec

-----------------------------------------------------------------------------
(* SessionManager.cpp:61-62 "One player left - game ends as resignation by *)
(* the leaver.  The remaining player wins."  The seats decide the colours  *)
(* (line 183): seat 1 is White.                                            *)
RemainingPlayerWins ==
  [][\A s \in DOMAIN sessions :
       /\ sessions[s].state = Active
       /\ Len(sessions'[s].players) = 1
       => sessions'[s].game.status =
            IF sessions'[s].players[1] = sessions[s].players[1]
            THEN "WhiteWins" ELSE "BlackWins"]_vars
=============================================================================
