------------------------ MODULE SessionManagerProofs ------------------------
(***************************************************************************)
(* Theorems about SessionManager for every set of clients, every IdMod and *)
(* every bound Creatable.                                                  *)
(***************************************************************************)
EXTENDS SessionManager, TLAPS

USE IdModAssumption, CreatableAssumption, RejoinAssumption

(* Without returns players, no more of them than there were.               *)
LEMMA WithoutType ==
  ASSUME NEW players \in Seq(Clients), NEW c \in Clients
  PROVE  /\ Without(players, c) \in Seq(Clients)
         /\ Len(Without(players, c)) <= Len(players)
         /\ Without(players, c) # <<>> => Without(players, c)[1] \in Clients
<1>1. CASE \A i \in DOMAIN players : players[i] = c
  BY <1>1 DEF Without
<1>2. CASE (\E i \in DOMAIN players : players[i] # c) /\ (\A i \in DOMAIN players : players[i] # c)
  BY <1>2 DEF Without
<1>3. CASE (\E i \in DOMAIN players : players[i] # c) /\ (\E i \in DOMAIN players : players[i] = c)
  <2> DEFINE d == CHOOSE d \in {players[i] : i \in DOMAIN players} : d # c
  <2>1. d \in {players[i] : i \in DOMAIN players}
    BY <1>3
  <2>2. d \in Clients
    <3>1. PICK i \in DOMAIN players : d = players[i]
      BY <2>1
    <3>2. players[i] \in Clients
      OBVIOUS
    <3> QED BY <3>1, <3>2
  <2>3. Without(players, c) = <<d>>
    BY <1>3 DEF Without
  <2>4. Len(players) >= 1
    BY <1>3
  <2> QED BY <2>2, <2>3, <2>4
<1> QED BY <1>1, <1>2, <1>3

(* A game after a move is a game.                                          *)
LEMMA GamesAfterMoveType ==
  ASSUME NEW game \in Game, NEW after \in GamesAfterMove(game)
  PROVE  after \in Game
  BY DEF GamesAfterMove, Game, GameEnds, StatusOf, Statuses, Colors, Opponent

(* A status given with SetStatus leaves a finished session.                *)
LEMMA SetStatusType ==
  ASSUME NEW sess \in Session, NEW status \in Statuses
  PROVE  /\ SetStatus(sess, status) \in Session
         /\ SetStatus(sess, status).players = sess.players
         /\ SetStatus(sess, status).state = Finished
  BY DEF SetStatus, Session, Game

(* What a session can be once c has left it.                               *)
LEMMA AfterLeaveType ==
  ASSUME NEW sess \in Session, NEW c \in Clients,
         NEW left \in AfterLeave(sess, c)
  PROVE  /\ left \in Session
         /\ Len(left.players) <= Len(sess.players)
         /\ \/ left.state = Finished
            \/ /\ sess.state # Active
               /\ left.state = sess.state
               /\ left.game = sess.game
         /\ sess.state # Active => left.game = sess.game
<1> DEFINE rest == Without(sess.players, c)
           stay == [sess EXCEPT !.players = rest]
<1>1. sess.players \in Seq(Clients) /\ sess.state \in {Waiting, Active, Finished} /\ sess.game \in Game
  BY DEF Session
<1>2. rest \in Seq(Clients) /\ Len(rest) <= Len(sess.players)
  BY <1>1, WithoutType
<1>3. stay \in Session /\ stay.players = rest /\ stay.game = sess.game /\ stay.state = sess.state
  BY <1>2 DEF Session
<1>4. CASE rest = <<>>
  <2>1. left = Ended(sess)
    BY <1>4 DEF AfterLeave
  <2>2. left = [players |-> <<>>, state |-> Finished, game |-> sess.game]
    BY <2>1 DEF Ended, Session
  <2> QED BY <2>2, <1>1 DEF Session
<1>5. CASE rest # <<>> /\ sess.state = Active
  <2>1. PICK status \in StatusesWonBy(rest[1]) : left = SetStatus(stay, status)
    BY <1>5 DEF AfterLeave
  <2>2. status \in Statuses
    BY DEF StatusesWonBy, Statuses
  <2>3. left \in Session /\ left.players = rest /\ left.state = Finished
    BY <2>1, <2>2, <1>3, SetStatusType
  <2> QED BY <2>3, <1>2, <1>5
<1>6. CASE rest # <<>> /\ sess.state # Active
  <2>1. left = stay
    BY <1>6 DEF AfterLeave
  <2> QED BY <2>1, <1>2, <1>3, <1>6
<1> QED BY <1>4, <1>5, <1>6

(* What a waiting session can be once c has joined it.                     *)
LEMMA SeatType ==
  ASSUME NEW sess \in Session, NEW c \in Clients,
         sess.state = Waiting, Len(sess.players) < 2
  PROVE  /\ Seat(sess, c) \in Session
         /\ Len(Seat(sess, c).players) = Len(sess.players) + 1
         /\ Seat(sess, c).players = Append(sess.players, c)
         /\ \/ /\ Len(sess.players) = 1
               /\ Seat(sess, c).state = Active
               /\ Seat(sess, c).game = NewGame
            \/ /\ Len(sess.players) = 0
               /\ Seat(sess, c).state = Waiting
               /\ Seat(sess, c).game = sess.game
<1>1. sess.players \in Seq(Clients) /\ sess.game \in Game
  BY DEF Session
<1>2. Append(sess.players, c) \in Seq(Clients) /\ Len(Append(sess.players, c)) = Len(sess.players) + 1
  BY <1>1
<1>3. NewGame \in Game
  BY DEF NewGame, Game, Statuses, Colors
<1>4. Len(sess.players) \in Nat
  BY <1>1
<1>5. CASE Len(sess.players) = 1
  <2>1. Seat(sess, c) = [players |-> Append(sess.players, c), state |-> Active, game |-> NewGame]
    BY <1>2, <1>5 DEF Seat
  <2> QED BY <2>1, <1>2, <1>3, <1>5 DEF Session
<1>6. CASE Len(sess.players) = 0
  <2>1. Seat(sess, c) = [sess EXCEPT !.players = Append(sess.players, c)]
    BY <1>2, <1>6 DEF Seat
  <2>2. Seat(sess, c) = [players |-> Append(sess.players, c), state |-> sess.state, game |-> sess.game]
    BY <2>1 DEF Session
  <2> QED BY <2>2, <1>1, <1>2, <1>6 DEF Session
<1>7. Len(sess.players) = 0 \/ Len(sess.players) = 1
  <2>1. \A n \in Nat : n < 2 => n = 0 \/ n = 1
    OBVIOUS
  <2> QED BY <1>4, <2>1, Zenon
<1> QED BY <1>5, <1>6, <1>7
-----------------------------------------------------------------------------
(* The inductive invariant behind the first two theorems.  Consistent needs*)
(* the types (Append and Without on two seats) and TypeOK's bound on the   *)
(* seats needs Consistent's for a waiting session, so they go together.    *)
Inv == TypeOK /\ MatchConsistent

Good(sess) == TwoSeater(sess) /\ Consistent(sess)

LEMMA NewSessionGood == Good(NewSession)
  BY DEF Good, TwoSeater, Consistent, NewSession, NewGame, Session, Game, Statuses, Colors,
         Waiting, Active, Finished

LEMMA SeatGood ==
  ASSUME NEW sess, Good(sess), NEW c \in Clients,
         sess.state = Waiting, Len(sess.players) < 2
  PROVE  Good(Seat(sess, c))
<1>1. sess \in Session
  BY DEF Good, TwoSeater
<1>2. sess.game.status = "Ongoing"
  BY DEF Good, Consistent, Waiting, Finished
<1> DEFINE seated == Seat(sess, c)
<1>3. seated \in Session
  BY <1>1, SeatType
<1>4. CASE Len(sess.players) = 1 /\ seated.state = Active /\ seated.game = NewGame
  <2>0. Len(seated.players) = Len(sess.players) + 1
    BY <1>1, SeatType
  <2>1. Len(seated.players) = 2
    BY <1>4, <2>0
  <2> QED BY <1>3, <1>4, <2>1 DEF Good, TwoSeater, Consistent, NewGame, Waiting, Active
<1>5. CASE Len(sess.players) = 0 /\ seated.state = Waiting /\ seated.game = sess.game
  <2>0. Len(seated.players) = Len(sess.players) + 1
    BY <1>1, SeatType
  <2>1. Len(seated.players) = 1
    BY <1>5, <2>0
  <2> QED BY <1>2, <1>3, <1>5, <2>1 DEF Good, TwoSeater, Consistent, Waiting, Active
<1> QED BY <1>1, <1>4, <1>5, SeatType

LEMMA AfterLeaveGood ==
  ASSUME NEW sess, Good(sess), NEW c \in Clients, NEW left \in AfterLeave(sess, c)
  PROVE  Good(left)
<1>1. sess \in Session /\ Len(sess.players) <= 2
  BY DEF Good, TwoSeater
<1>2. left \in Session /\ Len(left.players) <= Len(sess.players)
  BY <1>1, AfterLeaveType
<1>3. left.players \in Seq(Clients) /\ sess.players \in Seq(Clients)
  BY <1>1, <1>2 DEF Session
<1>4. Len(left.players) \in Nat /\ Len(sess.players) \in Nat
  BY <1>3
<1>5. Len(left.players) <= 2
  BY <1>1, <1>2, <1>4
<1>6. CASE left.state = Finished
  BY <1>2, <1>5, <1>6 DEF Good, TwoSeater, Consistent, Waiting, Active, Finished
<1>7. CASE sess.state # Active /\ left.state = sess.state /\ left.game = sess.game
  <2>1. left.state = Waiting => Len(left.players) < 2
    BY <1>2, <1>4, <1>7 DEF Good, Consistent
  <2> QED BY <1>2, <1>5, <1>7, <2>1 DEF Good, TwoSeater, Consistent
<1> QED BY <1>1, <1>6, <1>7, AfterLeaveType

(* Replacing one session by a good one, or adding one, keeps them all good.*)
LEMMA PutGood ==
  ASSUME TypeOK, MatchConsistent, NEW s \in SessionIds, NEW sess, Good(sess),
         NEW after, DOMAIN after = DOMAIN sessions \cup {s}, after[s] = sess,
         \A t \in DOMAIN sessions : t # s => after[t] = sessions[t]
  PROVE  /\ DOMAIN after \subseteq SessionIds
         /\ \A t \in DOMAIN after : Good(after[t])
  BY DEF TypeOK, MatchConsistent, Good
LEMMA InitInv == Init => Inv
  BY DEF Init, Inv, TypeOK, MatchConsistent, NoSessions, SessionIds, NoGame

(* Leave, the common part of leaveSession and removeClient.                *)
LEMMA LeaveInv ==
  ASSUME TypeOK, MatchConsistent, NEW c \in Clients, Leave(c)
  PROVE  /\ DOMAIN sessions' \subseteq SessionIds
         /\ \A t \in DOMAIN sessions' : Good(sessions'[t])
         /\ sessionOf' \in [Clients -> SessionIds]
         /\ gameOf' \in [Clients -> SessionIds \cup {NoGame}]
<1>1. CASE UNCHANGED <<sessions, sessionOf, gameOf>>
  BY <1>1 DEF TypeOK, MatchConsistent, Good
<1>2. CASE InSession(c) /\ sessionOf' = [sessionOf EXCEPT ![c] = 0]
           /\ gameOf' = [gameOf EXCEPT ![c] = NoGame]
           /\ \E sess \in AfterLeave(sessions[sessionOf[c]], c) :
                sessions' = [sessions EXCEPT ![sessionOf[c]] = sess]
  <2> DEFINE s == sessionOf[c]
  <2>1. s \in DOMAIN sessions /\ s \in SessionIds
    BY <1>2 DEF InSession, Exists, TypeOK
  <2>2. PICK sess \in AfterLeave(sessions[s], c) : sessions' = [sessions EXCEPT ![s] = sess]
    BY <1>2
  <2>3. Good(sessions[s])
    BY <2>1 DEF TypeOK, MatchConsistent, Good
  <2>4. Good(sess)
    BY <2>3, AfterLeaveGood
  <2>5. /\ DOMAIN sessions' \subseteq SessionIds
        /\ \A t \in DOMAIN sessions' : Good(sessions'[t])
    BY <2>1, <2>2, <2>4, PutGood
  <2>6. 0 \in SessionIds
    BY DEF SessionIds
  <2> QED BY <1>2, <2>5, <2>6 DEF TypeOK
<1> QED BY <1>1, <1>2 DEF Leave

LEMMA NextInv == Inv /\ [Next]_vars => Inv'
<1> SUFFICES ASSUME TypeOK, MatchConsistent, [Next]_vars
             PROVE  Inv'
  BY DEF Inv
<1> USE DEF Inv
<1> DEFINE SessionsGood == /\ DOMAIN sessions' \subseteq SessionIds
                           /\ \A t \in DOMAIN sessions' : Good(sessions'[t])
           RestTyped == /\ nextSessionId' \in SessionIds
                        /\ sessionOf' \in [Clients -> SessionIds]
                        /\ gameOf' \in [Clients -> SessionIds \cup {NoGame}]
                        /\ live' \subseteq Clients
                        /\ namedWhite' \subseteq live'
<1>0. SessionsGood /\ RestTyped => Inv'
  BY DEF TypeOK, MatchConsistent, Good
<1>a. 0 \in SessionIds /\ \A t \in DOMAIN sessions : Good(sessions[t])
  BY DEF SessionIds, TypeOK, MatchConsistent, Good
<1>1. CASE CreateSession
  <2>1. nextSessionId \in SessionIds /\ (nextSessionId + 1) % IdMod \in SessionIds
    BY DEF TypeOK, SessionIds
  <2>2. SessionsGood
    BY <1>1, <2>1, NewSessionGood, PutGood DEF CreateSession, PutSession
  <2> QED BY <1>0, <1>1, <2>1, <2>2 DEF CreateSession, TypeOK
<1>2. ASSUME NEW s \in SessionIds, EndSession(s)
      PROVE  Inv'
  <2>1. s \in DOMAIN sessions /\ sessions' = [sessions EXCEPT ![s] = Ended(sessions[s])]
    BY <1>2 DEF EndSession, Exists
  <2>2. Good(Ended(sessions[s]))
    BY <1>a, <2>1 DEF Ended, Good, TwoSeater, Consistent, Session, Waiting, Active, Finished
  <2>3. SessionsGood
    BY <2>1, <2>2, PutGood
  <2> QED BY <1>0, <1>2, <2>3 DEF EndSession, TypeOK
<1>3. ASSUME NEW c \in Clients, Connect(c)
      PROVE  Inv'
  <2>1. SessionsGood
    BY <1>3, <1>a DEF Connect, TypeOK
  <2>2. namedWhite' \subseteq live' /\ live' \subseteq Clients
    BY <1>3 DEF Connect, TypeOK
  <2> QED BY <1>0, <1>3, <1>a, <2>1, <2>2 DEF Connect, TypeOK
<1>4. ASSUME NEW c \in Clients, NEW s \in SessionIds, JoinSession(c, s)
      PROVE  Inv'
  <2>1. /\ s \in DOMAIN sessions /\ sessions[s].state = Waiting /\ Len(sessions[s].players) < 2
        /\ sessions' = [sessions EXCEPT ![s] = Seat(sessions[s], c)]
    BY <1>4 DEF JoinSession, Exists
  <2>2. Good(Seat(sessions[s], c))
    BY <1>a, <2>1, SeatGood
  <2>3. SessionsGood
    BY <2>1, <2>2, PutGood
  <2> QED BY <1>0, <1>4, <2>3 DEF JoinSession, TypeOK
<1>5. ASSUME NEW c \in Clients, LeaveSession(c)
      PROVE  Inv'
  BY <1>0, <1>5, LeaveInv DEF LeaveSession, TypeOK
<1>6. ASSUME NEW c \in Clients, Disconnect(c)
      PROVE  Inv'
  BY <1>0, <1>6, LeaveInv DEF Disconnect, TypeOK
<1>7. ASSUME NEW c \in Clients, ApplyMove(c)
      PROVE  Inv'
  <2> DEFINE s == sessionOf[c]
  <2>1. s \in DOMAIN sessions /\ s \in SessionIds /\ sessions[s].state = Active
    BY <1>7 DEF ApplyMove, InPlay, InSession, Exists, TypeOK
  <2>2. PICK game \in GamesAfterMove(sessions[s].game) :
          sessions' = [sessions EXCEPT ![s] =
            [players |-> sessions[s].players,
             state   |-> IF game.status = "Ongoing" THEN sessions[s].state ELSE Finished,
             game    |-> game]]
    BY <1>7 DEF ApplyMove
  <2>3. sessions[s] \in Session /\ Len(sessions[s].players) <= 2 /\ Consistent(sessions[s])
    BY <1>a, <2>1 DEF Good, TwoSeater
  <2>4. game \in Game
    BY <2>3, GamesAfterMoveType DEF Session
  <2>5. Good([players |-> sessions[s].players,
              state   |-> IF game.status = "Ongoing" THEN sessions[s].state ELSE Finished,
              game    |-> game])
    BY <2>1, <2>3, <2>4 DEF Good, TwoSeater, Consistent, Session, Waiting, Active, Finished
  <2>6. SessionsGood
    BY <2>1, <2>2, <2>5, PutGood
  <2> QED BY <1>0, <1>7, <2>1, <2>6 DEF ApplyMove, TypeOK
<1>8. ASSUME NEW c \in Clients, HandleResign(c)
      PROVE  Inv'
  <2> DEFINE s == sessionOf[c]
             resigned == SetStatus(sessions[s], StatusResignedBy(sessions[s], c))
  <2>1. /\ s \in DOMAIN sessions /\ s \in SessionIds
        /\ sessions' = [sessions EXCEPT ![s] = resigned]
    BY <1>8 DEF HandleResign, InPlay, InSession, Exists, TypeOK
  <2>2. sessions[s] \in Session /\ Len(sessions[s].players) <= 2
    BY <1>a, <2>1 DEF Good, TwoSeater
  <2>3. StatusResignedBy(sessions[s], c) \in Statuses
    BY DEF StatusResignedBy, Statuses
  <2>4. /\ resigned \in Session /\ resigned.players = sessions[s].players
        /\ resigned.state = Finished
    BY <2>2, <2>3, SetStatusType
  <2>5. Good(resigned)
    BY <2>2, <2>4 DEF Good, TwoSeater, Consistent, Waiting, Active, Finished
  <2>6. SessionsGood
    BY <2>1, <2>5, PutGood
  <2> QED BY <1>0, <1>8, <2>6 DEF HandleResign, TypeOK
<1>9. CASE UNCHANGED vars
  BY <1>9 DEF vars, TypeOK, MatchConsistent, Good
<1> QED BY <1>1, <1>2, <1>3, <1>4, <1>5, <1>6, <1>7, <1>8, <1>9 DEF Next

(* Types hold, and no session ever seats more than two, for any number of  *)
(* clients and sessions, whether or not ids wrap and callers rejoin.       *)
THEOREM TypeCorrect == Spec => []TypeOK
<1>1. Inv => TypeOK
  BY DEF Inv
<1> QED BY InitInv, NextInv, <1>1, PTL DEF Spec

(* A match in play has both seats taken and a decided match is finished:   *)
(* Game::status and Session::state never disagree.                         *)
THEOREM MatchesConsistent == Spec => []MatchConsistent
<1>1. Inv => MatchConsistent
  BY DEF Inv
<1> QED BY InitInv, NextInv, <1>1, PTL DEF Spec
-----------------------------------------------------------------------------
(* While createSession is never called with the counter at 0, the ids in   *)
(* use are the ones below the counter (all of them once it has reached 0). *)
IdsInUse ==
  DOMAIN sessions = IF nextSessionId = 0 THEN 1..(IdMod - 1) ELSE 1..(nextSessionId - 1)

LEMMA SameSessions ==
  ASSUME NEW c \in Clients, Leave(c)
  PROVE  DOMAIN sessions' = DOMAIN sessions
  BY DEF Leave

LEMMA IdsInUseNext ==
  ASSUME 0 \notin Creatable
  PROVE  TypeOK /\ IdsInUse /\ [Next]_vars => IdsInUse'
<1> SUFFICES ASSUME TypeOK, IdsInUse, [Next]_vars
             PROVE  IdsInUse'
  OBVIOUS
<1>1. CASE CreateSession
  <2>1. nextSessionId \in 1..(IdMod - 1)
    BY <1>1 DEF CreateSession, TypeOK, SessionIds
  <2>2. DOMAIN sessions' = (1..(nextSessionId - 1)) \cup {nextSessionId}
    BY <1>1, <2>1 DEF CreateSession, PutSession, IdsInUse
  <2>3. DOMAIN sessions' = 1..nextSessionId
    BY <2>1, <2>2
  <2>4. nextSessionId' = IF nextSessionId = IdMod - 1 THEN 0 ELSE nextSessionId + 1
    BY <1>1, <2>1 DEF CreateSession
  <2>5. CASE nextSessionId = IdMod - 1
    BY <2>3, <2>4, <2>5 DEF IdsInUse
  <2>6. CASE nextSessionId # IdMod - 1
    BY <2>1, <2>3, <2>4, <2>6 DEF IdsInUse
  <2> QED BY <2>5, <2>6
<1>2. CASE DOMAIN sessions' = DOMAIN sessions /\ UNCHANGED nextSessionId
  BY <1>2 DEF IdsInUse
<1>3. CreateSession \/ (DOMAIN sessions' = DOMAIN sessions /\ UNCHANGED nextSessionId)
  BY SameSessions
     DEF Next, vars, Connect, EndSession, JoinSession, LeaveSession, Disconnect, ApplyMove,
         HandleResign
<1> QED BY <1>1, <1>2, <1>3

(* createSession does not land on an id in use, as long as the counter has *)
(* not come round to 0: what the theorems about single steps of existing   *)
(* sessions rest on.                                                       *)
FreshId == nextSessionId \in Creatable => ~Exists(nextSessionId)

LEMMA FreshIds ==
  ASSUME 0 \notin Creatable
  PROVE  Spec => []FreshId
<1>1. Init => TypeOK /\ IdsInUse
  BY InitInv DEF Inv, Init, IdsInUse, NoSessions
<1>2. TypeOK /\ IdsInUse => FreshId
  BY DEF TypeOK, IdsInUse, FreshId, SessionIds, Exists
<1> QED BY TypeCorrect, <1>1, <1>2, IdsInUseNext, PTL DEF Spec

(* What a step does to a session that exists.                              *)
SessionSafe(s) ==
  /\ sessions[s].state = Finished =>
       sessions'[s].state = Finished /\ sessions'[s].game = sessions[s].game
  /\ sessions[s].state = Active =>
       \/ sessions'[s].state = Finished
       \/ sessions'[s].state = Active /\ sessions'[s].players = sessions[s].players

LEMMA LeaveSafe ==
  ASSUME TypeOK, NEW c \in Clients, Leave(c), NEW s \in DOMAIN sessions
  PROVE  SessionSafe(s)
<1>1. CASE UNCHANGED sessions
  BY <1>1 DEF SessionSafe
<1>2. CASE \E sess \in AfterLeave(sessions[sessionOf[c]], c) :
             sessions' = [sessions EXCEPT ![sessionOf[c]] = sess]
  <2>1. PICK sess \in AfterLeave(sessions[sessionOf[c]], c) :
          sessions' = [sessions EXCEPT ![sessionOf[c]] = sess]
    BY <1>2
  <2>2. CASE s # sessionOf[c]
    BY <2>1, <2>2 DEF SessionSafe
  <2>3. CASE s = sessionOf[c]
    <3>1. sessions'[s] = sess
      BY <2>1, <2>3
    <3>2. sessions[s] \in Session
      BY DEF TypeOK, TwoSeater
    <3> QED BY <2>3, <3>1, <3>2, AfterLeaveType DEF SessionSafe, Active, Finished
  <2> QED BY <2>2, <2>3
<1> QED BY <1>1, <1>2 DEF Leave

LEMMA NextSafe ==
  ASSUME TypeOK, FreshId, [Next]_vars, NEW s \in DOMAIN sessions
  PROVE  SessionSafe(s)
<1>1. CASE CreateSession
  BY <1>1 DEF CreateSession, PutSession, FreshId, Exists, SessionSafe
<1>2. ASSUME NEW t \in SessionIds, EndSession(t)
      PROVE  SessionSafe(s)
  BY <1>2 DEF EndSession, Ended, SessionSafe
<1>3. CASE UNCHANGED sessions
  BY <1>3 DEF SessionSafe
<1>4. ASSUME NEW c \in Clients, NEW t \in SessionIds, JoinSession(c, t)
      PROVE  SessionSafe(s)
  BY <1>4 DEF JoinSession, SessionSafe, Waiting, Active, Finished
<1>5. ASSUME NEW c \in Clients, ApplyMove(c)
      PROVE  SessionSafe(s)
  BY <1>5 DEF ApplyMove, InPlay, SessionSafe, Active, Finished
<1>6. ASSUME NEW c \in Clients, HandleResign(c)
      PROVE  SessionSafe(s)
  BY <1>6 DEF HandleResign, InPlay, SetStatus, SessionSafe, Active, Finished
<1> QED BY <1>1, <1>2, <1>3, <1>4, <1>5, <1>6, LeaveSafe
        DEF Next, vars, Connect, LeaveSession, Disconnect

(* The result and the end of a match are final.                            *)
THEOREM ResultFinal ==
  ASSUME 0 \notin Creatable
  PROVE  Spec => ResultIsFinal
<1>1. TypeOK /\ FreshId /\ [Next]_vars =>
        [\A s \in DOMAIN sessions :
           sessions[s].state = Finished =>
             sessions'[s].state = Finished /\ sessions'[s].game = sessions[s].game]_vars
  BY NextSafe DEF SessionSafe
<1> QED BY TypeCorrect, FreshIds, <1>1, PTL DEF Spec, ResultIsFinal

(* Nobody takes, gives up or swaps a seat of a match that goes on.         *)
THEOREM SeatsFixed ==
  ASSUME 0 \notin Creatable
  PROVE  Spec => SeatsFixedInPlay
<1>1. TypeOK /\ FreshId /\ [Next]_vars =>
        [\A s \in DOMAIN sessions :
           sessions[s].state = Active =>
             \/ sessions'[s].state = Finished
             \/ sessions'[s].state = Active /\ sessions'[s].players = sessions[s].players]_vars
  BY NextSafe DEF SessionSafe
<1> QED BY TypeCorrect, FreshIds, <1>1, PTL DEF Spec, SeatsFixedInPlay

-----------------------------------------------------------------------------
(* The refinement of MatchLifecycle: how one session may become another,   *)
(* in the terms of the lifecycle.                                          *)
Entered(old, new) ==
  /\ old.state = Waiting
  /\ Len(old.players) < 2
  /\ Len(new.players) = Len(old.players) + 1
  /\ new.state = IF Len(new.players) = 2 THEN Active ELSE Waiting
  /\ new.game.status = old.game.status

Departed(old, new) ==
  /\ old.state # Active
  /\ new.state = old.state
  /\ Len(new.players) <= Len(old.players)
  /\ new.game.status = old.game.status

Decided(old, new) ==
  /\ old.state = Active
  /\ new.state = Finished
  /\ Len(new.players) <= Len(old.players)
  /\ new.game.status \in Statuses \ {"Ongoing"}

Abandoned(old, new) ==
  /\ old.state # Finished
  /\ new.state = Finished
  /\ new.players = <<>>
  /\ new.game.status = old.game.status

PlayedOn(old, new) ==
  /\ new.state = old.state
  /\ new.players = old.players
  /\ new.game.status = old.game.status

Evolves(old, new) ==
  \/ Entered(old, new)
  \/ Departed(old, new)
  \/ Decided(old, new)
  \/ Abandoned(old, new)
  \/ PlayedOn(old, new)

(* A step that puts one session in place changes the lifecycle of that     *)
(* match and of no other.                                                  *)
LEMMA PutMaps ==
  ASSUME NEW s \in SessionIds, NEW sess,
         DOMAIN sessions' = DOMAIN sessions \cup {s}, sessions'[s] = sess,
         \A t \in DOMAIN sessions : t # s => sessions'[t] = sessions[t]
  PROVE  /\ MatchPhase'  = [MatchPhase  EXCEPT ![s] = PhaseOf(sess)]
         /\ MatchSeats'  = [MatchSeats  EXCEPT ![s] = Len(sess.players)]
         /\ MatchResult' = [MatchResult EXCEPT ![s] = sess.game.status]
<1>1. \A t \in SessionIds : Exists(t)' <=> Exists(t) \/ t = s
  BY DEF Exists
<1>2. \A t \in SessionIds : Exists(t) /\ t # s => sessions'[t] = sessions[t]
  BY DEF Exists
<1>3. MatchPhase' = [MatchPhase EXCEPT ![s] = PhaseOf(sess)]
  BY <1>1, <1>2 DEF MatchPhase, PhaseOf
<1>4. MatchSeats' = [MatchSeats EXCEPT ![s] = Len(sess.players)]
  BY <1>1, <1>2 DEF MatchSeats
<1>5. MatchResult' = [MatchResult EXCEPT ![s] = sess.game.status]
  BY <1>1, <1>2 DEF MatchResult
<1> QED BY <1>3, <1>4, <1>5

(* A step that evolves one session and leaves the others alone is a step   *)
(* of the lifecycle, or a stutter.                                         *)
LEMMA EvolvesMaps ==
  ASSUME TypeOK, NEW s \in DOMAIN sessions, NEW sess, TwoSeater(sess),
         Evolves(sessions[s], sess),
         sessions' = [sessions EXCEPT ![s] = sess]
  PROVE  [Match!Next]_(Match!vars)
<1> DEFINE old == sessions[s]
<1>1. s \in SessionIds /\ old \in Session
  BY DEF TypeOK, TwoSeater
<1>2. /\ MatchPhase'  = [MatchPhase  EXCEPT ![s] = PhaseOf(sess)]
      /\ MatchSeats'  = [MatchSeats  EXCEPT ![s] = Len(sess.players)]
      /\ MatchResult' = [MatchResult EXCEPT ![s] = sess.game.status]
  BY <1>1, PutMaps
<1>3. /\ MatchPhase[s] = PhaseOf(old)
      /\ MatchSeats[s] = Len(old.players)
      /\ MatchResult[s] = old.game.status
  BY <1>1 DEF MatchPhase, MatchSeats, MatchResult, Exists
<1>4. /\ MatchPhase  = [MatchPhase  EXCEPT ![s] = MatchPhase[s]]
      /\ MatchSeats  = [MatchSeats  EXCEPT ![s] = MatchSeats[s]]
      /\ MatchResult = [MatchResult EXCEPT ![s] = MatchResult[s]]
  BY DEF MatchPhase, MatchSeats, MatchResult
<1>5. MatchSeats'[s] = Len(sess.players)
  BY <1>1, <1>2 DEF MatchSeats
<1>6. Len(old.players) \in Nat /\ Len(sess.players) \in Nat
  BY <1>1 DEF TwoSeater, Session
<1>7. /\ (PhaseOf(old) = "waiting") <=> (old.state = Waiting)
      /\ (PhaseOf(old) = "active") <=> (old.state = Active)
      /\ (PhaseOf(old) = "finished") <=> (old.state = Finished)
  BY <1>1 DEF PhaseOf, Session, Waiting, Active, Finished
<1>8. /\ (sess.state = Waiting) => PhaseOf(sess) = "waiting"
      /\ (sess.state = Active) => PhaseOf(sess) = "active"
      /\ (sess.state = Finished) => PhaseOf(sess) = "finished"
      /\ sess.state = old.state => PhaseOf(sess) = PhaseOf(old)
  BY DEF PhaseOf, Waiting, Active, Finished
<1> HIDE DEF old
<1>9. CASE Entered(old, sess)
  <2>1. PhaseOf(sess) = IF Len(sess.players) = 2 THEN "active" ELSE MatchPhase[s]
    BY <1>3, <1>7, <1>8, <1>9 DEF Entered
  <2>2. Match!Enter(s)
    BY <1>2, <1>3, <1>4, <1>5, <1>7, <1>9, <2>1 DEF Entered, Match!Enter
  <2> QED BY <1>1, <2>2 DEF Match!Next
<1>10. CASE Departed(old, sess)
  <2>1. Len(sess.players) \in 0..MatchSeats[s]
    BY <1>3, <1>6, <1>10 DEF Departed
  <2>2. MatchPhase[s] \in {"waiting", "finished"}
    BY <1>1, <1>3, <1>7, <1>10 DEF Departed, Session
  <2>3. Match!Depart(s)
    BY <1>2, <1>3, <1>4, <1>8, <1>10, <2>1, <2>2 DEF Departed, Match!Depart
  <2> QED BY <1>1, <2>3 DEF Match!Next
<1>11. CASE Decided(old, sess)
  <2>1. Len(sess.players) \in 0..MatchSeats[s]
    BY <1>3, <1>6, <1>11 DEF Decided
  <2>2. sess.game.status \in Match!Results
    BY <1>11 DEF Decided, Statuses, Match!Results
  <2>3. MatchPhase[s] = "active" /\ PhaseOf(sess) = "finished"
    BY <1>3, <1>7, <1>8, <1>11 DEF Decided
  <2>4. Match!Decide(s)
    BY <1>2, <2>1, <2>2, <2>3 DEF Match!Decide
  <2> QED BY <1>1, <2>4 DEF Match!Next
<1>12. CASE Abandoned(old, sess)
  <2>1. MatchPhase[s] \in {"waiting", "active"} /\ PhaseOf(sess) = "finished"
    BY <1>1, <1>3, <1>7, <1>8, <1>12 DEF Abandoned, Session
  <2>2. Len(sess.players) = 0 /\ sess.game.status = MatchResult[s]
    BY <1>3, <1>12 DEF Abandoned
  <2>3. Match!Abandon(s)
    BY <1>2, <1>4, <2>1, <2>2 DEF Match!Abandon
  <2> QED BY <1>1, <2>3 DEF Match!Next
<1>13. CASE PlayedOn(old, sess)
  <2>1. /\ PhaseOf(sess) = MatchPhase[s]
        /\ Len(sess.players) = MatchSeats[s]
        /\ sess.game.status = MatchResult[s]
    BY <1>3, <1>8, <1>13 DEF PlayedOn
  <2>2. UNCHANGED Match!vars
    BY <1>2, <1>4, <2>1 DEF Match!vars
  <2> QED BY <2>2
<1> QED BY <1>9, <1>10, <1>11, <1>12, <1>13 DEF Evolves, old

(* Leaving a session evolves it.                                           *)
LEMMA AfterLeaveEvolves ==
  ASSUME NEW old, Good(old), NEW c \in Clients, NEW new \in AfterLeave(old, c)
  PROVE  Evolves(old, new)
<1> DEFINE rest == Without(old.players, c)
           stay == [old EXCEPT !.players = rest]
<1>1. /\ old = [players |-> old.players, state |-> old.state, game |-> old.game]
      /\ old.players \in Seq(Clients)
      /\ old.state \in {Waiting, Active, Finished}
  BY DEF Good, TwoSeater, Session
<1>2. rest \in Seq(Clients) /\ Len(rest) <= Len(old.players)
  BY <1>1, WithoutType
<1>3. stay = [players |-> rest, state |-> old.state, game |-> old.game]
  BY <1>1
<1>4. CASE rest = <<>>
  <2>1. new = [players |-> <<>>, state |-> Finished, game |-> old.game]
    BY <1>4 DEF AfterLeave, Ended
  <2>2. CASE old.state = Finished
    BY <1>1, <1>2, <1>4, <2>1, <2>2 DEF Evolves, Departed, Active, Finished
  <2>3. CASE old.state # Finished
    BY <2>1, <2>3 DEF Evolves, Abandoned
  <2> QED BY <2>2, <2>3
<1>5. CASE rest # <<>> /\ old.state = Active
  <2>1. PICK status \in StatusesWonBy(rest[1]) : new = SetStatus(stay, status)
    BY <1>5 DEF AfterLeave
  <2>2. status \in Statuses \ {"Ongoing"}
    BY DEF StatusesWonBy, Statuses
  <2>3. new.players = rest /\ new.state = Finished /\ new.game.status = status
    BY <1>3, <2>1 DEF SetStatus
  <2> QED BY <1>2, <1>5, <2>2, <2>3 DEF Evolves, Decided
<1>6. CASE rest # <<>> /\ old.state # Active
  <2>1. new = stay
    BY <1>6 DEF AfterLeave
  <2> QED BY <1>2, <1>3, <1>6, <2>1 DEF Evolves, Departed
<1> QED BY <1>4, <1>5, <1>6

LEMMA InitMatches == Init => Match!Init
  BY DEF Init, Match!Init, Match!Undecided, MatchPhase, MatchSeats, MatchResult, NoSessions, Exists

LEMMA NextMatches ==
  ASSUME TypeOK, MatchConsistent, FreshId, Inv', [Next]_vars
  PROVE  [Match!Next]_(Match!vars)
<1>a. /\ \A s \in DOMAIN sessions : Good(sessions[s])
      /\ \A s \in DOMAIN sessions' : Good(sessions'[s]) /\ TwoSeater(sessions'[s])
  BY DEF TypeOK, MatchConsistent, Inv, Good
<1>1. CASE CreateSession
  <2> DEFINE s == nextSessionId
  <2>1. /\ s \in SessionIds /\ s \notin DOMAIN sessions
        /\ DOMAIN sessions' = DOMAIN sessions \cup {s}
        /\ sessions'[s] = NewSession
        /\ \A t \in DOMAIN sessions : sessions'[t] = sessions[t]
    BY <1>1 DEF CreateSession, PutSession, FreshId, Exists, TypeOK
  <2>2. /\ MatchPhase'  = [MatchPhase  EXCEPT ![s] = "waiting"]
        /\ MatchSeats'  = [MatchSeats  EXCEPT ![s] = 0]
        /\ MatchResult' = [MatchResult EXCEPT ![s] = "Ongoing"]
    BY <2>1, PutMaps DEF NewSession, NewGame, PhaseOf
  <2>3. MatchPhase[s] = "none" /\ MatchSeats[s] = 0 /\ MatchResult[s] = "Ongoing"
    BY <2>1 DEF MatchPhase, MatchSeats, MatchResult, Exists
  <2>4. UNCHANGED <<MatchSeats, MatchResult>>
    BY <2>2, <2>3 DEF MatchSeats, MatchResult
  <2>5. Match!Open(s)
    BY <2>2, <2>3, <2>4 DEF Match!Open
  <2>6. s \in SessionIds
    BY <2>1
  <2> HIDE DEF s
  <2> QED BY <2>5, <2>6 DEF Match!Next
<1>2. ASSUME NEW s \in SessionIds, EndSession(s)
      PROVE  [Match!Next]_(Match!vars)
  <2>1. s \in DOMAIN sessions /\ sessions' = [sessions EXCEPT ![s] = Ended(sessions[s])]
    BY <1>2 DEF EndSession, Exists
  <2>2. TwoSeater(Ended(sessions[s]))
    BY <1>a, <2>1
  <2>3. Len(sessions[s].players) \in Nat
    BY <1>a, <2>1 DEF Good, TwoSeater, Session
  <2>4. Evolves(sessions[s], Ended(sessions[s]))
    BY <2>3 DEF Ended, Evolves, Departed, Abandoned, Active, Finished
  <2> QED BY <2>1, <2>2, <2>4, EvolvesMaps
<1>3. ASSUME NEW c \in Clients, NEW s \in SessionIds, JoinSession(c, s)
      PROVE  [Match!Next]_(Match!vars)
  <2>1. /\ s \in DOMAIN sessions /\ sessions[s].state = Waiting /\ Len(sessions[s].players) < 2
        /\ sessions' = [sessions EXCEPT ![s] = Seat(sessions[s], c)]
    BY <1>3 DEF JoinSession, Exists
  <2>2. sessions[s] \in Session /\ sessions[s].game.status = "Ongoing"
    BY <1>a, <2>1 DEF Good, TwoSeater, Consistent, Session, Game, Waiting, Finished
  <2>3. TwoSeater(Seat(sessions[s], c))
    BY <1>a, <2>1
  <2> DEFINE old == sessions[s]
             new == Seat(old, c)
  <2>4. /\ Len(new.players) = Len(old.players) + 1
        /\ \/ Len(old.players) = 1 /\ new.state = Active /\ new.game = NewGame
           \/ Len(old.players) = 0 /\ new.state = Waiting /\ new.game = old.game
    BY <2>1, <2>2, SeatType
  <2>5. Entered(old, new)
    <3>1. old.state = Waiting /\ Len(old.players) < 2 /\ old.game.status = "Ongoing"
      BY <2>1, <2>2
    <3> HIDE DEF old, new
    <3>2. CASE Len(old.players) = 1 /\ new.state = Active /\ new.game = NewGame
      BY <2>4, <3>1, <3>2 DEF Entered, NewGame
    <3>3. CASE Len(old.players) = 0 /\ new.state = Waiting /\ new.game = old.game
      BY <2>4, <3>1, <3>3 DEF Entered
    <3> QED BY <2>4, <3>2, <3>3
  <2>6. Evolves(sessions[s], Seat(sessions[s], c))
    BY <2>5 DEF Evolves
  <2> QED BY <2>1, <2>3, <2>6, EvolvesMaps
<1>4. ASSUME NEW c \in Clients, Leave(c), InSession(c)
      PROVE  [Match!Next]_(Match!vars)
  <2>1. PICK sess \in AfterLeave(sessions[sessionOf[c]], c) :
          sessions' = [sessions EXCEPT ![sessionOf[c]] = sess]
    BY <1>4 DEF Leave
  <2>2. sessionOf[c] \in DOMAIN sessions
    BY <1>4 DEF InSession, Exists
  <2>3. TwoSeater(sess)
    BY <1>a, <2>1, <2>2
  <2> QED BY <1>a, <2>1, <2>2, <2>3, AfterLeaveEvolves, EvolvesMaps
<1>5. ASSUME NEW c \in Clients, ApplyMove(c)
      PROVE  [Match!Next]_(Match!vars)
  <2> DEFINE s == sessionOf[c]
  <2>1. s \in DOMAIN sessions /\ sessions[s].state = Active
    BY <1>5 DEF ApplyMove, InPlay, InSession, Exists
  <2>2. PICK game \in GamesAfterMove(sessions[s].game) :
          sessions' = [sessions EXCEPT ![s] =
            [players |-> sessions[s].players,
             state   |-> IF game.status = "Ongoing" THEN sessions[s].state ELSE Finished,
             game    |-> game]]
    BY <1>5 DEF ApplyMove
  <2> DEFINE sess == [players |-> sessions[s].players,
                      state   |-> IF game.status = "Ongoing" THEN sessions[s].state ELSE Finished,
                      game    |-> game]
  <2>3. TwoSeater(sess)
    BY <1>a, <2>1, <2>2
  <2>4. sessions[s].game.status = "Ongoing" /\ sessions[s].game \in Game
    BY <1>a, <2>1 DEF Good, Consistent, TwoSeater, Session, Active, Finished
  <2>5. game.status \in Statuses
    BY <2>4, GamesAfterMoveType DEF Game
  <2>6. Len(sessions[s].players) \in Nat
    BY <1>a, <2>1 DEF Good, TwoSeater, Session
  <2>7. Evolves(sessions[s], sess)
    BY <2>1, <2>4, <2>5, <2>6 DEF Evolves, Decided, PlayedOn
  <2> HIDE DEF sess
  <2> QED BY <2>1, <2>2, <2>3, <2>7, EvolvesMaps DEF sess
<1>6. ASSUME NEW c \in Clients, HandleResign(c)
      PROVE  [Match!Next]_(Match!vars)
  <2> DEFINE s == sessionOf[c]
             resigned == SetStatus(sessions[s], StatusResignedBy(sessions[s], c))
  <2>1. /\ s \in DOMAIN sessions /\ sessions[s].state = Active
        /\ sessions' = [sessions EXCEPT ![s] = resigned]
    BY <1>6 DEF HandleResign, InPlay, InSession, Exists
  <2>2. TwoSeater(resigned)
    BY <1>a, <2>1
  <2>3. Len(sessions[s].players) \in Nat
    BY <1>a, <2>1 DEF Good, TwoSeater, Session
  <2>4. Evolves(sessions[s], resigned)
    BY <2>1, <2>3 DEF Evolves, Decided, SetStatus, StatusResignedBy, Statuses
  <2> HIDE DEF resigned
  <2> QED BY <2>1, <2>2, <2>4, EvolvesMaps
<1>7. CASE UNCHANGED sessions
  BY <1>7 DEF Match!vars, MatchPhase, MatchSeats, MatchResult, PhaseOf, Exists
<1> QED BY <1>1, <1>2, <1>3, <1>4, <1>5, <1>6, <1>7
        DEF Next, vars, Connect, LeaveSession, Disconnect, Leave

(* Seen by its id, every session goes through the life of a match: it is   *)
(* opened once, played from its second seat on, decided at most once and   *)
(* never reopened, whatever its clients do.                                *)
THEOREM MatchesImplementLifecycle ==
  ASSUME 0 \notin Creatable
  PROVE  Spec => MatchSpec
<1>1. Inv => TypeOK /\ MatchConsistent
  BY DEF Inv
<1>2. Inv /\ FreshId /\ Inv' /\ [Next]_vars => [Match!Next]_(Match!vars)
  BY <1>1, NextMatches
<1> QED BY InitInv, NextInv, FreshIds, InitMatches, <1>2, PTL
        DEF Spec, MatchSpec, Match!Spec

-----------------------------------------------------------------------------
(* Membership: the seats, sessionId and game of the contexts agree, as     *)
(* long as ids are not reused and nobody joins while in a session.         *)
Membership == SeatedIsMember /\ MemberIsSeated /\ GamePointerFresh

Sound == TypeOK /\ FreshId /\ 0 \notin DOMAIN sessions

(* Without c: c is gone, nobody is new, and of two players the other stays.*)
LEMMA WithoutSeats ==
  ASSUME NEW players \in Seq(Clients), Len(players) <= 2, NEW c \in Clients
  PROVE  /\ \A i \in DOMAIN Without(players, c) :
              /\ Without(players, c)[i] # c
              /\ \E j \in DOMAIN players : Without(players, c)[i] = players[j]
         /\ \A j \in DOMAIN players : players[j] # c =>
              \E i \in DOMAIN Without(players, c) : Without(players, c)[i] = players[j]
         /\ Without(players, c) # players => Len(Without(players, c)) <= 1
<1>1. CASE \A i \in DOMAIN players : players[i] = c
  BY <1>1 DEF Without
<1>2. CASE (\E i \in DOMAIN players : players[i] # c) /\ (\A i \in DOMAIN players : players[i] # c)
  BY <1>2 DEF Without
<1>3. CASE (\E i \in DOMAIN players : players[i] # c) /\ (\E i \in DOMAIN players : players[i] = c)
  <2> DEFINE d == CHOOSE e \in {players[i] : i \in DOMAIN players} : e # c
  <2>1. d \in {players[i] : i \in DOMAIN players} /\ d # c
    BY <1>3
  <2>2. Without(players, c) = <<d>>
    BY <1>3 DEF Without
  <2>3. \A j \in DOMAIN players : players[j] # c => players[j] = d
    <3>1. DOMAIN players = 1..Len(players) /\ Len(players) \in Nat
      OBVIOUS
    <3>2. DOMAIN players \subseteq {1, 2}
      BY <3>1
    <3> HIDE DEF d
    <3> QED BY <3>2, <2>1, <1>3
  <2>4. /\ DOMAIN Without(players, c) = {1} /\ Without(players, c)[1] = d
        /\ Len(Without(players, c)) = 1
    BY <2>2
  <2> HIDE DEF d
  <2> QED BY <2>1, <2>3, <2>4
<1> QED BY <1>1, <1>2, <1>3

(* What leaving does to the players of a session and to its state.         *)
LEMMA AfterLeaveSeats ==
  ASSUME NEW sess \in Session, Len(sess.players) <= 2, NEW c \in Clients,
         NEW left \in AfterLeave(sess, c)
  PROVE  /\ left.players = Without(sess.players, c)
         /\ left.state = Finished \/ left.state = sess.state
<1> DEFINE rest == Without(sess.players, c)
           stay == [sess EXCEPT !.players = rest]
<1>1. stay = [players |-> rest, state |-> sess.state, game |-> sess.game]
  BY DEF Session
<1>2. CASE rest = <<>>
  BY <1>2 DEF AfterLeave, Ended
<1>3. CASE rest # <<>> /\ sess.state = Active
  BY <1>1, <1>3 DEF AfterLeave, SetStatus
<1>4. CASE rest # <<>> /\ sess.state # Active
  BY <1>1, <1>4 DEF AfterLeave
<1> QED BY <1>2, <1>3, <1>4

LEMMA LeaveMembership ==
  ASSUME Sound, Membership, NEW c \in Clients, Leave(c), live' \in {live, live \ {c}}
  PROVE  Membership'
<1>1. CASE ~InSession(c) /\ UNCHANGED <<sessions, sessionOf, gameOf>>
  <2>1. \A s \in DOMAIN sessions : c \notin Seats(sessions[s])
    BY <1>1 DEF Sound, Membership, SeatedIsMember, InSession, Exists
  <2> QED BY <1>1, <2>1 DEF Membership, SeatedIsMember, MemberIsSeated, GamePointerFresh, Exists,
                             SeatedIn, Seats
<1>2. CASE InSession(c) /\ sessionOf' = [sessionOf EXCEPT ![c] = 0]
           /\ gameOf' = [gameOf EXCEPT ![c] = NoGame]
           /\ \E sess \in AfterLeave(sessions[sessionOf[c]], c) :
                sessions' = [sessions EXCEPT ![sessionOf[c]] = sess]
  <2> DEFINE s == sessionOf[c]
  <2>1. s \in DOMAIN sessions /\ s # 0
    BY <1>2 DEF InSession, Exists
  <2>2. PICK left \in AfterLeave(sessions[s], c) : sessions' = [sessions EXCEPT ![s] = left]
    BY <1>2
  <2>3. sessions[s] \in Session /\ sessions[s].players \in Seq(Clients) /\ Len(sessions[s].players) <= 2
    BY <2>1 DEF Sound, TypeOK, TwoSeater, Session
  <2>4. /\ left.players = Without(sessions[s].players, c)
        /\ left.state = Finished \/ left.state = sessions[s].state
    BY <2>3, AfterLeaveSeats
  <2>5. /\ DOMAIN sessions' = DOMAIN sessions /\ sessions'[s] = left
        /\ \A t \in DOMAIN sessions : t # s => sessions'[t] = sessions[t]
    BY <2>1, <2>2
  <2>6. \A d \in Clients : d # c => sessionOf'[d] = sessionOf[d] /\ gameOf'[d] = gameOf[d]
    BY <1>2 DEF Sound, TypeOK
  <2>7. sessionOf'[c] = 0 /\ gameOf'[c] = NoGame
    BY <1>2 DEF Sound, TypeOK
  <2>8. \A d : d \in Seats(left) <=> d \in Seats(sessions[s]) /\ d # c
    BY <2>3, <2>4, WithoutSeats DEF Seats
  <2>9. live \ {c} \subseteq live'
    OBVIOUS
  <2>10. SeatedIsMember'
    <3> SUFFICES ASSUME NEW t \in DOMAIN sessions, NEW d \in Seats(sessions'[t])
                 PROVE  d \in live' /\ sessionOf'[d] = t
      BY <2>5 DEF SeatedIsMember, Seats
    <3>1. d \in Seats(sessions[t])
      BY <2>5, <2>8
    <3>2. d \in live /\ sessionOf[d] = t /\ d \in Clients
      BY <3>1 DEF Membership, SeatedIsMember, Sound, TypeOK
    <3>3. d # c
      BY <2>5, <2>8, <3>2
    <3> QED BY <3>2, <3>3, <2>6, <2>9
  <2>11. \A d \in Clients : sessionOf'[d] # 0 =>
           /\ sessionOf'[d] \in DOMAIN sessions'
           /\ \/ d \in Seats(sessions'[sessionOf'[d]])
              \/ sessions'[sessionOf'[d]].state = Finished
    <3> SUFFICES ASSUME NEW d \in Clients, sessionOf'[d] # 0
                 PROVE  /\ sessionOf'[d] \in DOMAIN sessions'
                        /\ \/ d \in Seats(sessions'[sessionOf'[d]])
                           \/ sessions'[sessionOf'[d]].state = Finished
      OBVIOUS
    <3>1. d # c /\ sessionOf'[d] = sessionOf[d]
      BY <2>6, <2>7
    <3>2. /\ sessionOf[d] \in DOMAIN sessions
          /\ d \in Seats(sessions[sessionOf[d]]) \/ sessions[sessionOf[d]].state = Finished
      BY <3>1 DEF Membership, MemberIsSeated, Exists, SeatedIn
    <3>3. CASE sessionOf[d] = s
      BY <3>1, <3>2, <3>3, <2>4, <2>5, <2>8
    <3>4. CASE sessionOf[d] # s
      BY <3>1, <3>2, <3>4, <2>5
    <3> QED BY <3>3, <3>4
  <2>12. \A t \in DOMAIN sessions' : \A i, j \in DOMAIN sessions'[t].players :
           sessions'[t].players[i] = sessions'[t].players[j] => i = j
    <3> SUFFICES ASSUME NEW t \in DOMAIN sessions,
                        NEW i \in DOMAIN sessions'[t].players, NEW j \in DOMAIN sessions'[t].players,
                        sessions'[t].players[i] = sessions'[t].players[j]
                 PROVE  i = j
      BY <2>5
    <3>1. CASE sessions'[t].players = sessions[t].players
      BY <3>1 DEF Membership, MemberIsSeated
    <3>2. CASE sessions'[t].players # sessions[t].players
      <4>1. t = s /\ sessions'[t].players = Without(sessions[s].players, c)
        BY <3>2, <2>4, <2>5
      <4>2. Len(sessions'[t].players) <= 1 /\ sessions'[t].players \in Seq(Clients)
        BY <4>1, <3>2, <2>3, WithoutSeats, WithoutType
      <4> QED BY <4>2
    <3> QED BY <3>1, <3>2
  <2>13. MemberIsSeated'
    BY <2>11, <2>12 DEF MemberIsSeated, Exists, SeatedIn
  <2>14. GamePointerFresh'
    <3> SUFFICES ASSUME NEW d \in Clients, gameOf'[d] # NoGame
                 PROVE  /\ gameOf'[d] = sessionOf'[d]
                        /\ gameOf'[d] \in DOMAIN sessions'
                        /\ sessions'[gameOf'[d]].state # Waiting
      BY DEF GamePointerFresh, Exists
    <3>1. d # c /\ gameOf'[d] = gameOf[d] /\ sessionOf'[d] = sessionOf[d]
      BY <2>6, <2>7
    <3>2. /\ gameOf[d] = sessionOf[d]
          /\ gameOf[d] \in DOMAIN sessions
          /\ sessions[gameOf[d]].state # Waiting
      BY <3>1 DEF Membership, GamePointerFresh, Exists
    <3> QED BY <3>1, <3>2, <2>4, <2>5 DEF Waiting, Finished
  <2> QED BY <2>10, <2>13, <2>14 DEF Membership
<1> QED BY <1>1, <1>2 DEF Leave

(* A step that leaves the players of every session alone, and lets a       *)
(* session change its state only to Finished.                              *)
LEMMA SamePlayersMembership ==
  ASSUME Membership, UNCHANGED sessionOf, live' = live, DOMAIN sessions' = DOMAIN sessions,
         \A s \in DOMAIN sessions :
           /\ sessions'[s].players = sessions[s].players
           /\ sessions'[s].state \in {sessions[s].state, Finished},
         \A c \in Clients :
           \/ gameOf'[c] = gameOf[c]
           \/ gameOf'[c] = sessionOf[c] /\ Exists(sessionOf[c]) /\ sessions[sessionOf[c]].state = Active
  PROVE  Membership'
<1>1. SeatedIsMember'
  BY DEF Membership, SeatedIsMember, Seats
<1>2. MemberIsSeated'
  BY DEF Membership, MemberIsSeated, Exists, SeatedIn, Seats
<1>3. GamePointerFresh'
  BY DEF Membership, GamePointerFresh, Exists, Waiting, Active, Finished
<1> QED BY <1>1, <1>2, <1>3 DEF Membership

LEMMA JoinMembership ==
  ASSUME RejoinAllowed = FALSE, Sound, Membership,
         NEW c \in Clients, NEW s \in SessionIds, JoinSession(c, s)
  PROVE  Membership'
<1>1. /\ c \in live /\ sessionOf[c] = 0 /\ s \in DOMAIN sessions
      /\ sessions[s].state = Waiting /\ Len(sessions[s].players) < 2
  BY DEF JoinSession, MayJoin, Exists
<1>2. sessions[s] \in Session /\ sessions[s].players \in Seq(Clients)
  BY <1>1 DEF Sound, TypeOK, TwoSeater, Session
<1>3. /\ DOMAIN sessions' = DOMAIN sessions /\ sessions'[s] = Seat(sessions[s], c)
      /\ \A t \in DOMAIN sessions : t # s => sessions'[t] = sessions[t]
      /\ sessionOf'[c] = s
      /\ \A d \in Clients : d # c => sessionOf'[d] = sessionOf[d]
      /\ UNCHANGED <<gameOf, live>>
  BY <1>1 DEF JoinSession, Sound, TypeOK
<1>4. /\ sessions'[s].players = Append(sessions[s].players, c)
      /\ sessions'[s].state # Finished
  BY <1>1, <1>2, <1>3, SeatType DEF Waiting, Active, Finished
\* c holds no seat yet.
<1>5. \A t \in DOMAIN sessions : c \notin Seats(sessions[t])
  BY <1>1 DEF Sound, Membership, SeatedIsMember
<1>6. \A d : d \in Seats(sessions'[s]) <=> d = c \/ d \in Seats(sessions[s])
  <2>1. /\ DOMAIN sessions'[s].players = 1..(Len(sessions[s].players) + 1)
        /\ sessions'[s].players[Len(sessions[s].players) + 1] = c
        /\ \A i \in 1..Len(sessions[s].players) : sessions'[s].players[i] = sessions[s].players[i]
        /\ Len(sessions[s].players) \in Nat
    BY <1>2, <1>4
  <2>2. DOMAIN sessions[s].players = 1..Len(sessions[s].players)
    BY <1>2
  <2>3. ASSUME NEW d, d \in Seats(sessions'[s])
        PROVE  d = c \/ d \in Seats(sessions[s])
    <3>1. PICK i \in DOMAIN sessions'[s].players : d = sessions'[s].players[i]
      BY <2>3 DEF Seats
    <3>2. i \in 1..Len(sessions[s].players) \/ i = Len(sessions[s].players) + 1
      BY <2>1
    <3> QED BY <3>1, <3>2, <2>1, <2>2 DEF Seats
  <2>4. \A i \in 1..Len(sessions[s].players) : i \in DOMAIN sessions'[s].players
    BY <2>1
  <2>5. Len(sessions[s].players) + 1 \in DOMAIN sessions'[s].players
    BY <2>1
  <2>6. ASSUME NEW d, d = c \/ d \in Seats(sessions[s])
        PROVE  d \in Seats(sessions'[s])
    BY <2>1, <2>2, <2>4, <2>5, <2>6 DEF Seats
  <2> QED BY <2>3, <2>6
<1>7. SeatedIsMember'
  <2> SUFFICES ASSUME NEW t \in DOMAIN sessions, NEW d \in Seats(sessions'[t])
               PROVE  d \in live' /\ sessionOf'[d] = t
    BY <1>3 DEF SeatedIsMember
  <2>1. CASE d = c
    BY <2>1, <1>1, <1>3, <1>5
  <2>2. CASE d # c
    <3>1. d \in Seats(sessions[t])
      BY <2>2, <1>3, <1>6
    <3> QED BY <3>1, <2>2, <1>3 DEF Membership, SeatedIsMember, Sound, TypeOK
  <2> QED BY <2>1, <2>2
<1>8. \A d \in Clients : sessionOf'[d] # 0 =>
        /\ sessionOf'[d] \in DOMAIN sessions'
        /\ d \in Seats(sessions'[sessionOf'[d]]) \/ sessions'[sessionOf'[d]].state = Finished
  <2> SUFFICES ASSUME NEW d \in Clients, sessionOf'[d] # 0
               PROVE  /\ sessionOf'[d] \in DOMAIN sessions'
                      /\ \/ d \in Seats(sessions'[sessionOf'[d]])
                         \/ sessions'[sessionOf'[d]].state = Finished
    OBVIOUS
  <2>1. CASE d = c
    BY <2>1, <1>1, <1>3, <1>6
  <2>2. CASE d # c
    <3>1. /\ sessionOf'[d] = sessionOf[d] /\ sessionOf[d] \in DOMAIN sessions
          /\ d \in Seats(sessions[sessionOf[d]]) \/ sessions[sessionOf[d]].state = Finished
      BY <2>2, <1>3 DEF Membership, MemberIsSeated, Exists, SeatedIn
    <3>2. CASE sessionOf[d] = s
      BY <3>1, <3>2, <1>1, <1>3, <1>6 DEF Waiting, Finished
    <3>3. CASE sessionOf[d] # s
      BY <3>1, <3>3, <1>3
    <3> QED BY <3>2, <3>3
  <2> QED BY <2>1, <2>2
<1>9. \A t \in DOMAIN sessions' : \A i, j \in DOMAIN sessions'[t].players :
        sessions'[t].players[i] = sessions'[t].players[j] => i = j
  <2> SUFFICES ASSUME NEW t \in DOMAIN sessions,
                      NEW i \in DOMAIN sessions'[t].players, NEW j \in DOMAIN sessions'[t].players,
                      sessions'[t].players[i] = sessions'[t].players[j]
               PROVE  i = j
    BY <1>3
  <2>1. CASE t # s
    BY <2>1, <1>3 DEF Membership, MemberIsSeated
  <2>2. CASE t = s
    <3> DEFINE n == Len(sessions[s].players)
    <3>1. /\ n \in Nat /\ i \in 1..(n + 1) /\ j \in 1..(n + 1)
          /\ sessions'[s].players[n + 1] = c
          /\ \A k \in 1..n : /\ k \in DOMAIN sessions[s].players
                             /\ sessions'[s].players[k] = sessions[s].players[k]
      BY <2>2, <1>2, <1>4
    <3>2. \A k \in 1..n : sessions[s].players[k] # c
      BY <1>1, <1>2, <1>5, <3>1 DEF Seats
    <3>3. CASE i \in 1..n /\ j \in 1..n
      BY <3>1, <3>3, <2>2, <1>1 DEF Membership, MemberIsSeated
    <3>4. CASE i = n + 1 \/ j = n + 1
      <4> HIDE DEF n
      <4> QED BY <3>1, <3>2, <3>4, <2>2
    <3> QED BY <3>1, <3>3, <3>4
  <2> QED BY <2>1, <2>2
<1>10. MemberIsSeated'
  BY <1>8, <1>9 DEF MemberIsSeated, Exists, SeatedIn
<1>11. GamePointerFresh'
  <2> SUFFICES ASSUME NEW d \in Clients, gameOf[d] # NoGame
               PROVE  /\ gameOf[d] = sessionOf'[d]
                      /\ gameOf[d] \in DOMAIN sessions
                      /\ sessions'[gameOf[d]].state # Waiting
    BY <1>3 DEF GamePointerFresh, Exists
  <2>1. gameOf[d] = sessionOf[d] /\ gameOf[d] \in DOMAIN sessions /\ sessions[gameOf[d]].state # Waiting
    BY DEF Membership, GamePointerFresh, Exists
  <2>2. d # c /\ gameOf[d] # s
    BY <2>1, <1>1 DEF Sound
  <2> QED BY <2>1, <2>2, <1>3
<1> QED BY <1>7, <1>10, <1>11 DEF Membership

LEMMA InitMembership == Init => Membership
  BY DEF Init, Membership, SeatedIsMember, MemberIsSeated, GamePointerFresh, NoSessions

LEMMA NextMembership ==
  ASSUME RejoinAllowed = FALSE, Sound, Membership, [Next]_vars
  PROVE  Membership'
<1>1. CASE CreateSession
  <2>1. /\ DOMAIN sessions' = DOMAIN sessions \cup {nextSessionId}
        /\ nextSessionId \notin DOMAIN sessions
        /\ sessions'[nextSessionId] = NewSession
        /\ \A s \in DOMAIN sessions : sessions'[s] = sessions[s]
        /\ UNCHANGED <<sessionOf, gameOf, live>>
    BY <1>1 DEF CreateSession, PutSession, Sound, FreshId, Exists
  <2>2. Seats(NewSession) = {} /\ DOMAIN NewSession.players = {}
    BY DEF Seats, NewSession
  <2>3. SeatedIsMember'
    BY <2>1, <2>2 DEF Membership, SeatedIsMember
  <2>4. MemberIsSeated'
    BY <2>1, <2>2 DEF Membership, MemberIsSeated, Exists, SeatedIn
  <2>5. GamePointerFresh'
    BY <2>1 DEF Membership, GamePointerFresh, Exists
  <2> QED BY <2>3, <2>4, <2>5 DEF Membership
<1>2. ASSUME NEW s \in SessionIds, EndSession(s)
      PROVE  Membership'
  <2>1. /\ DOMAIN sessions' = DOMAIN sessions
        /\ s \in DOMAIN sessions
        /\ sessions'[s].players = <<>> /\ sessions'[s].state = Finished
        /\ \A t \in DOMAIN sessions : t # s => sessions'[t] = sessions[t]
        /\ UNCHANGED <<sessionOf, gameOf, live>>
    BY <1>2 DEF EndSession, Ended, Exists
  <2>2. Seats(sessions'[s]) = {} /\ DOMAIN sessions'[s].players = {}
    BY <2>1 DEF Seats
  <2>3. SeatedIsMember'
    BY <2>1, <2>2 DEF Membership, SeatedIsMember
  <2>4. MemberIsSeated'
    BY <2>1, <2>2 DEF Membership, MemberIsSeated, Exists, SeatedIn
  <2>5. GamePointerFresh'
    BY <2>1 DEF Membership, GamePointerFresh, Exists, Waiting, Finished
  <2> QED BY <2>3, <2>4, <2>5 DEF Membership
<1>3. ASSUME NEW c \in Clients, Connect(c)
      PROVE  Membership'
  <2>1. \A s \in DOMAIN sessions : c \notin Seats(sessions[s])
    BY <1>3 DEF Connect, Membership, SeatedIsMember
  <2>2. /\ UNCHANGED sessions /\ live' = live \cup {c}
        /\ sessionOf'[c] = 0 /\ gameOf'[c] = NoGame
        /\ \A d \in Clients : d # c => sessionOf'[d] = sessionOf[d] /\ gameOf'[d] = gameOf[d]
    BY <1>3 DEF Connect, Sound, TypeOK
  <2>3. SeatedIsMember'
    BY <2>1, <2>2 DEF Membership, SeatedIsMember, Sound, TypeOK
  <2>4. MemberIsSeated'
    BY <2>2 DEF Membership, MemberIsSeated, Exists, SeatedIn
  <2>5. GamePointerFresh'
    BY <2>2 DEF Membership, GamePointerFresh, Exists
  <2> QED BY <2>3, <2>4, <2>5 DEF Membership
<1>4. ASSUME NEW c \in Clients, NEW s \in SessionIds, JoinSession(c, s)
      PROVE  Membership'
  BY <1>4, JoinMembership
<1>5. ASSUME NEW c \in Clients, LeaveSession(c) \/ Disconnect(c)
      PROVE  Membership'
  BY <1>5, LeaveMembership DEF LeaveSession, Disconnect
<1>6. ASSUME NEW c \in Clients, ApplyMove(c)
      PROVE  Membership'
  <2>1. InPlay(c) /\ sessionOf[c] \in DOMAIN sessions
    BY <1>6 DEF ApplyMove, InPlay, InSession, Exists
  <2>2. /\ DOMAIN sessions' = DOMAIN sessions /\ UNCHANGED <<sessionOf, live>>
        /\ \A s \in DOMAIN sessions :
             /\ sessions'[s].players = sessions[s].players
             /\ sessions'[s].state \in {sessions[s].state, Finished}
    BY <1>6, <2>1 DEF ApplyMove
  <2>3. \A d \in Clients : gameOf'[d] = gameOf[d] \/ (d = c /\ gameOf'[d] = sessionOf[c])
    BY <1>6 DEF ApplyMove, Sound, TypeOK
  <2> QED BY <2>1, <2>2, <2>3, SamePlayersMembership DEF InPlay, InSession
<1>7. ASSUME NEW c \in Clients, HandleResign(c)
      PROVE  Membership'
  <2>1. sessionOf[c] \in DOMAIN sessions
    BY <1>7 DEF HandleResign, InPlay, InSession, Exists
  <2>2. /\ DOMAIN sessions' = DOMAIN sessions /\ UNCHANGED <<sessionOf, gameOf, live>>
        /\ \A s \in DOMAIN sessions :
             /\ sessions'[s].players = sessions[s].players
             /\ sessions'[s].state \in {sessions[s].state, Finished}
    BY <1>7, <2>1 DEF HandleResign, SetStatus
  <2> QED BY <2>2, SamePlayersMembership
<1>8. CASE UNCHANGED vars
  BY <1>8, SamePlayersMembership DEF vars
<1> QED BY <1>1, <1>2, <1>3, <1>4, <1>5, <1>6, <1>7, <1>8 DEF Next

LEMMA SoundHolds ==
  ASSUME 0 \notin Creatable
  PROVE  Spec => []Sound
<1>1. Init => TypeOK /\ IdsInUse
  BY InitInv DEF Inv, Init, IdsInUse, NoSessions
<1>2. TypeOK /\ IdsInUse /\ FreshId => Sound
  BY DEF TypeOK, IdsInUse, Sound, SessionIds
<1> QED BY TypeCorrect, FreshIds, IdsInUseNext, <1>1, <1>2, PTL DEF Spec

LEMMA MembershipHolds ==
  ASSUME 0 \notin Creatable, RejoinAllowed = FALSE
  PROVE  Spec => []Membership
<1>1. Sound /\ Membership /\ [Next]_vars => Membership'
  BY NextMembership
<1> QED BY SoundHolds, InitMembership, <1>1, PTL DEF Spec

(* No session keeps a pointer to a context that has gone or that believes  *)
(* to be somewhere else.                                                   *)
THEOREM SeatsAreMembers ==
  ASSUME 0 \notin Creatable, RejoinAllowed = FALSE
  PROVE  Spec => []SeatedIsMember
<1>1. Membership => SeatedIsMember
  BY DEF Membership
<1> QED BY MembershipHolds, <1>1, PTL

(* Whoever is in a session that can still be played holds one of its seats.*)
THEOREM MembersAreSeated ==
  ASSUME 0 \notin Creatable, RejoinAllowed = FALSE
  PROVE  Spec => []MemberIsSeated
<1>1. Membership => MemberIsSeated
  BY DEF Membership
<1> QED BY MembershipHolds, <1>1, PTL

(* The game a context points to is that of its session, and has started.   *)
THEOREM GamePointersFresh ==
  ASSUME 0 \notin Creatable, RejoinAllowed = FALSE
  PROVE  Spec => []GamePointerFresh
<1>1. Membership => GamePointerFresh
  BY DEF Membership
<1> QED BY MembershipHolds, <1>1, PTL
=============================================================================
