---------------------------- MODULE Conversation ----------------------------
(***************************************************************************)
(* The test client and the server, talking: one handler of module Server,  *)
(* Mine, serves the client of module TestClient, over two streams of       *)
(* bytes; the other handlers serve peers of whom nothing is known.         *)
(*                                                                         *)
(* Every step of Mine is a step of Server that finds its request among the *)
(* bytes that have arrived, and adds the bytes of its answer.              *)
(***************************************************************************)
EXTENDS Integers, Sequences, FiniteSets

CONSTANTS
  Handlers, Fds, ClientIdMod, IdMod, Creatable, Lobby,  \* of Server
  Argument, Openings,   \* of TestClient
  Mine,                 \* the handler of the test client
  OthersRequests,       \* what the other peers request, and the ids up to
  OthersUpTo            \* which they are accepted (both bound the runs)

ASSUME MineAssumption     == Mine \in Handlers
ASSUME ArgumentAssumption == Argument \in Nat /\ Argument < 65536
ASSUME FdsAssumption      == Fds # {}
ASSUME ModulusAssumption  == ClientIdMod \in Nat /\ ClientIdMod >= 1
ASSUME SessionIdsAssumption == IdMod \in 2..65536 /\ Creatable \subseteq 0..(IdMod - 1)

VARIABLES
  sessions, nextSessionId, sessionOf, gameOf, live, namedWhite,
  clientsByFd, clientsById, nextId, gRunning, mainPc,
  pc, fdOf, idOf, received, sent, conns,               \* of Server
  at, sessionId, serverId, info, final,                \* of TestClient
  toServer, toClient

AllRequests == {"Inquire", "Move", "Resign", "Verify", "RequestGameState", "Unknown"}

\* No signal comes (bounds the runs; see module Server).
S == INSTANCE Server WITH PeerRequests <- AllRequests, Signals <- FALSE

Connected == pc[Mine] # "none" /\ S!ProcessUp

T == INSTANCE TestClient WITH connected <- Connected

\* A locator is an array of four characters.
Locators == [1..4 -> T!Bytes]
ASSUME OpeningsAssumption == Openings \subseteq Locators \X Locators

L == INSTANCE Locators WITH Side <- 8

server == <<sessions, nextSessionId, sessionOf, gameOf, live, namedWhite, clientsByFd,
            clientsById, nextId, gRunning, mainPc, pc, fdOf, idOf, received, sent, conns>>
client == <<at, sessionId, serverId, info, final>>
wire   == <<toServer, toClient>>
vars   == <<server, client, wire>>

Init == S!Init /\ T!Init

-----------------------------------------------------------------------------
(* The texts.  Ids and session names are told apart: "client_" and a       *)
(* number is an id, and nobody says what a session is called.              *)

\* A uint16_t, as it is printed.
Decimal(n) ==
  LET size == 1 + Cardinality({k \in 1..4 : n >= 10^k})
  IN  [i \in 1..size |-> 48 + ((n \div 10^(size - i)) % 10)]

ClientId(n) == T!Text(7) \o Decimal(n)
NameOf(s)   == T!Text(6) \o Decimal(s)
Fen         == T!Text(45)

RequestOf(pid) ==
  CASE pid = T!PidInquireGameSessions -> "Inquire"
    [] pid = T!PidMove                -> "Move"
    [] pid = T!PidResign              -> "Resign"
    [] pid = T!PidVerifyGameState     -> "Verify"
    [] pid = T!PidRequestGameState    -> "RequestGameState"
    [] OTHER                          -> "Unknown"

PayloadOf(request) ==
  CASE request = "Move"   -> T!MoveFields
    [] request = "Verify" -> T!VerifyFields
    [] OTHER              -> <<>>

Infos ==
  LET info_(s) == T!GameSessionInfo(s, Len(sessions[s].players), NameOf(s), sessions[s].state)
      inOrder[n \in 0..IdMod] ==
        IF n = 0 THEN <<>>
        ELSE inOrder[n - 1] \o IF n - 1 \in S!Listed THEN info_(n - 1) ELSE <<>>
  IN  inOrder[IdMod]

\* The characters of a locator that makeMove looks at.
Sayable(loc) == L!LocatorToSquare([file |-> loc[3], rank |-> loc[4]]) # L!Invalid

-----------------------------------------------------------------------------
(* The handler of the test client.                                         *)
Arrived(fields) == T!Read(toServer, ~T!Ended, fields)

Exchange(rest, answer) ==
  /\ toServer' = rest
  /\ toClient' = IF conns[fdOf[Mine]] = "open" THEN toClient \o answer ELSE toClient
  /\ UNCHANGED client

ReadGreeting ==
  LET greeting == Arrived(T!ClientGreetingFields) IN
  /\ greeting.status # "wait"
  /\ IF greeting.status = "ok"
     THEN S!GreetOk(Mine) /\ Mine \notin namedWhite'
     ELSE /\ S!GreetFails(Mine)
          /\ sent'[Mine] = "NotGreeted" <=> greeting.status = "unexpected"
  /\ Exchange(greeting.rest,
              IF greeting.status = "unexpected" THEN T!ConnectionFailed(T!Text(17)) ELSE <<>>)

\* Mutant: the id in the Greeting is the next client's.
WelcomeNext ==
  /\ S!IssueId(Mine)
  /\ Exchange(toServer, T!Greeting(1, T!Text(11), ClientId(nextId'))
                          \o T!ConnectionSucceeded(T!Text(30)))

Welcome ==
  /\ S!IssueId(Mine)
  /\ Exchange(toServer, T!Greeting(1, T!Text(11), ClientId(idOf[Mine]))
                          \o T!ConnectionSucceeded(T!Text(30)))

ReadPid ==
  LET pid == Arrived(T!PidFields) IN
  /\ pid.status = "ok"
  /\ S!Receive(Mine)
  /\ received'[Mine] = RequestOf(pid.values[1])
  /\ Exchange(pid.rest, <<>>)

\* A refusal in its own words, the board that was asked for, or the end.
Answer ==
  LET request == received[Mine] IN
  IF sent'[Mine] \in S!Failures
    THEN T!ConnectionFailed(T!Text(CASE request = "Move"   -> 12
                                     [] request = "Verify" -> 30
                                     [] request = "RequestGameState" -> 21
                                     [] OTHER -> 16))
  ELSE IF request = "Inquire" THEN Infos
  ELSE IF request = "RequestGameState" \/ (pc[Mine] = "report" /\ S!GameOver(gameOf[Mine]))
    THEN T!GameState(Fen)
  ELSE IF request = "Resign" THEN T!ConnectionSucceeded(T!Text(26))
  ELSE <<>>

\* A move that names no squares is refused, and so is a report of no men.
Handle ==
  LET payload == Arrived(PayloadOf(received[Mine])) IN
  /\ payload.status = "ok"
  /\ S!Process(Mine)
  /\ \/ received[Mine] \notin {"Move", "Verify"}
     \/ sent'[Mine] = "NotAccepted"
     \/ received[Mine] = "Move" /\ Sayable(payload.values[1]) /\ Sayable(payload.values[2])
     \/ received[Mine] = "Verify" /\ payload.values[1] # <<>>
  /\ Exchange(payload.rest, Answer)

MyHandler ==
  /\ S!ProcessUp
  /\ \/ ReadGreeting \/ Welcome \/ ReadPid \/ Handle
     \/ /\ \/ S!AddClient(Mine) \/ S!ReadFails(Mine)
           \/ S!RemoveClient(Mine) \/ S!CloseFd(Mine)
        /\ UNCHANGED <<client, wire>>

-----------------------------------------------------------------------------
(* The connection, on a descriptor of its own (bounds the runs).           *)
MyFd      == CHOOSE f \in Fds : TRUE
MyAccept  == S!Accept(MyFd, Mine) /\ T!Connect
NotServed == T!ConnectFails /\ UNCHANGED server

\* The client has closed.  If it left anything unread the connection is
\* reset, and what it sent may be lost.
ClientCloses ==
  /\ T!Ended
  /\ pc[Mine] # "none"
  /\ toServer = <<>> \/ toClient # <<>>
  /\ S!HangUp(fdOf[Mine])
  /\ toServer' = <<>>
  /\ toClient' = <<>>
  /\ UNCHANGED client

\* The server has closed and left something unread, likewise: what the client
\* has not received by now is not sent again.  (A message cut short reads as
\* one that is missing.)
Reset ==
  /\ ~Connected
  /\ ~T!Ended
  /\ toServer # <<>>
  /\ toServer' = <<>>
  /\ toClient' = <<>>
  /\ UNCHANGED <<client, server>>

MyProcessEnds ==
  /\ S!ProcessUp
  /\ T!Ended
  /\ S!SigPipe(Mine)
  /\ UNCHANGED <<client, wire>>

-----------------------------------------------------------------------------
ClientSteps == T!Script /\ UNCHANGED server

\* Sessions are created before the client connects, and nobody is called
\* "White" (both bound the runs).
Others ==
  /\ namedWhite' = {}
  /\ \/ S!StartFails \/ S!InstallHandlers \/ S!SetRunning \/ S!EnterLoop
     \/ S!AcceptFails \/ S!MainExit
     \/ at = "connect" /\ S!LobbyCreate
     \/ \E h \in Handlers, s \in S!SM!SessionIds : S!LobbyJoin(h, s)
     \/ \E f \in Fds \ {MyFd} : S!HangUp(f)
     \/ \E h \in Handlers \ {Mine} :
          \/ nextId <= OthersUpTo /\ \E f \in Fds \ {MyFd} : S!Accept(f, h)
          \/ S!Step(h)
          \/ S!Peer(h) /\ received'[h] \in OthersRequests \cup {"none"}
  /\ UNCHANGED <<client, wire>>

\* Nothing is looked at after the end (bounds the runs).
Over == T!Ended /\ pc[Mine] = "none"

Next ==
  /\ ~Over
  /\ \/ MyAccept \/ NotServed
     \/ ClientSteps
     \/ T!Killed /\ UNCHANGED server
     \/ MyHandler
     \/ ClientCloses \/ Reset \/ MyProcessEnds
     \/ Others

Spec == Init /\ [][Next]_vars

(* The scheduler runs the client and its handler when they can run.        *)
Fairness == WF_vars(ClientSteps) /\ WF_vars(MyHandler)

FairSpec == Spec /\ Fairness

-----------------------------------------------------------------------------
Sent(stream) == \A i \in DOMAIN stream : stream[i] \in T!Bytes

(* What is on the wire is bytes.                                           *)
TypeOK ==
  /\ at \in T!Labels
  /\ sessionId \in T!Words
  /\ \A stream \in {serverId, final, toServer, toClient} : Sent(stream)
  /\ info # T!None =>
       info.id \in T!Words /\ info.players \in T!Bytes /\ info.state \in T!Bytes

(* The server never mistakes what the client says: each of its messages is *)
(* read to its last byte and no further, so that the next one is found.    *)
RequestsUnderstood == sent[Mine] # "NotGreeted" /\ received[Mine] # "Unknown"

(* The client and the server agree on the client's id.                     *)
HandshakeAgrees ==
  serverId # T!None /\ pc[Mine] # "none" => serverId = ClientId(idOf[Mine])

(* What the client is told of a session was once true: it exists, has that *)
(* name, is not over, and is being played exactly if both seats are taken. *)
InfoTrue ==
  info # T!None =>
    /\ info.id \in DOMAIN sessions
    /\ info.name = NameOf(info.id)
    /\ info.players \in 0..2
    /\ info.state = IF info.players = 2 THEN S!SM!Active ELSE S!SM!Waiting

(* Once it is past the list the client ends, whatever the server refuses,  *)
(* closes or leaves unanswered, and although what was left of the list may *)
(* be taken for the answers it waits for.                                  *)
ClientEnds == at \in {"move", "ask", "state", "verify", "resign", "final"} ~> T!Ended

-----------------------------------------------------------------------------
(* ProdotocolDesign.md: "the server replies with one or more               *)
(* GameSessionInfo messages": whoever inquires is answered.                *)
InquiryAnswered == at = "list" ~> at # "list"
=============================================================================
