------------------------------- MODULE Server -------------------------------
(***************************************************************************)
(* The thread-per-client server (src/ChessJam/Server.cpp): the thread that *)
(* accepts connections, one handler thread per connection running          *)
(* handleClient, the client registry of the SessionManager they share, and *)
(* the sessions of module SessionManager.                                  *)
(*                                                                         *)
(* A handler is identified with the ClientContext on its stack.  One step  *)
(* of a handler is one call of the manager, one message to its peer, or    *)
(* one access to shared memory outside the manager, so that the steps of   *)
(* two handlers interleave wherever the code lets them.  The manager has   *)
(* no lock: see NoDataRace for what a step leaves out.                     *)
(***************************************************************************)
EXTENDS Integers, Sequences

CONSTANTS
  Handlers,       \* stack addresses of handler threads; reused when one ends
  Fds,            \* descriptors the process may hold for connections
  ClientIdMod,    \* 2^16 in the code: nextId is uint16_t
  IdMod,          \* of SessionManager: session ids
  Creatable,      \* of SessionManager: bound on createSession
  PeerRequests,   \* the requests peers make (bounds the runs)
  Signals,        \* may a signal arrive?
  Lobby           \* does anything call createSession and joinSession?
                  \* FALSE is the repository as it stands

ASSUME ClientIdAssumption == ClientIdMod \in Nat /\ ClientIdMod >= 1
ASSUME ManagerAssumption  == IdMod \in Nat /\ IdMod >= 2 /\ Creatable \subseteq 0..(IdMod - 1)
ASSUME FlagsAssumption    == Signals \in BOOLEAN /\ Lobby \in BOOLEAN

VARIABLES
  sessions, nextSessionId, sessionOf, gameOf, live, namedWhite, \* SessionManager
  clientsByFd,    \* clientsByFd_: fd -> ClientContext*
  clientsById,    \* clientsById_: id -> ClientContext*
  nextId,         \* the static counter of handleClient
  gRunning,
  mainPc,         \* the accepting thread, and the process it belongs to
  pc,             \* where each handler is in handleClient
  fdOf,           \* ClientContext::socketFd
  idOf,           \* ClientContext::id
  received,       \* the PID the handler has read and not yet handled
  sent,           \* the last message the handler has sent
  conns           \* the sockets: "free", "open", or "hungup": the peer has
                  \* closed and nothing is left to read

SM == INSTANCE SessionManager WITH Clients <- Handlers, RejoinAllowed <- FALSE

manager  == <<sessions, nextSessionId, sessionOf, gameOf, live, namedWhite>>
registry == <<clientsByFd, clientsById>>
threads  == <<pc, fdOf, idOf, received, sent>>
process  == <<gRunning, mainPc>>
vars     == <<manager, registry, threads, process, nextId, conns>>

NoFd == "none"
NoId == -1

Requests == {"Inquire", "Move", "Resign", "Verify", "RequestGameState", "Unknown"}
ASSUME RequestsAssumption == PeerRequests \subseteq Requests

\* What a handler tells its peer, as far as the properties tell it apart:
\*   Welcome   the server's Greeting and ConnectionSucceeded
\*   Info      GameSessionInfo, or the GameState that was asked for
\*   GameOver  the final GameState, or ConnectionSucceeded after a Resign
\*   Not...    ConnectionFailed: no Greeting, no game to show, other reasons
Failures == {"NotGreeted", "NotInGame", "NotAccepted"}
Messages == Failures \cup {"Welcome", "Info", "GameOver"}
Labels   == {"none", "greet", "issue", "register",
             "read", "dispatch", "report", "remove", "close"}

\* Between addClient and removeClient.
Serving == {"read", "dispatch", "report", "remove"}

ProcessUp == mainPc \notin {"exited", "killed"}

Goto(h, label) == pc' = [pc EXCEPT ![h] = label]
Send(h, m)     == sent' = [sent EXCEPT ![h] = m]

\* The head of the message loop: while (gRunning).
NextRound(h)   == Goto(h, IF gRunning THEN "read" ELSE "remove")

Put(map, key, value) ==
  [k \in DOMAIN map \cup {key} |-> IF k = key THEN value ELSE map[k]]
Erase(map, key) == [k \in DOMAIN map \ {key} |-> map[k]]

-----------------------------------------------------------------------------
Init ==
  /\ SM!Init
  /\ clientsByFd = [f \in {} |-> NoFd]
  /\ clientsById = [i \in {} |-> NoId]
  /\ nextId = 1 % ClientIdMod
  /\ gRunning = FALSE
  /\ mainPc = "start"
  /\ pc       = [h \in Handlers |-> "none"]
  /\ fdOf     = [h \in Handlers |-> NoFd]
  /\ idOf     = [h \in Handlers |-> NoId]
  /\ received = [h \in Handlers |-> "none"]
  /\ sent     = [h \in Handlers |-> "none"]
  /\ conns    = [f \in Fds |-> "free"]

-----------------------------------------------------------------------------
(* The peers and the operator.                                             *)

\* SIGINT or SIGTERM, once a handler is installed for both; until then it
\* ends the process.  A handler installed by std::signal restarts accept.
Signal ==
  /\ Signals
  /\ \/ mainPc = "start" /\ mainPc' = "killed" /\ UNCHANGED gRunning
     \/ mainPc \in {"armed", "loop", "accept"} /\ gRunning' = FALSE /\ UNCHANGED mainPc
  /\ UNCHANGED <<manager, registry, threads, nextId, conns>>

\* The peer has closed, or reset the connection, and what it sent has been
\* read or is lost, except perhaps a message cut short.
HangUp(f) ==
  /\ ProcessUp
  /\ conns[f] = "open"
  /\ conns' = [conns EXCEPT ![f] = "hungup"]
  /\ UNCHANGED <<manager, registry, threads, process, nextId>>

\* What a caller of the session API would do; nothing in src/ is one.
LobbyCreate ==
  /\ Lobby
  /\ ProcessUp
  /\ SM!CreateSession
  /\ UNCHANGED <<registry, threads, process, nextId, conns>>

LobbyJoin(h, s) ==
  /\ Lobby
  /\ ProcessUp
  /\ \E f \in DOMAIN clientsByFd : clientsByFd[f] = h
  /\ SM!JoinSession(h, s)
  /\ UNCHANGED <<registry, threads, process, nextId, conns>>

-----------------------------------------------------------------------------
(* The accepting thread.                                                   *)

\* No address, socket, bind or listen: start returns.
StartFails ==
  /\ mainPc = "start"
  /\ mainPc' = "destroyed"
  /\ UNCHANGED <<manager, registry, threads, gRunning, nextId, conns>>

InstallHandlers ==
  /\ mainPc = "start"
  /\ mainPc' = "armed"
  /\ UNCHANGED <<manager, registry, threads, gRunning, nextId, conns>>

\* A signal that has already come is forgotten.
SetRunning ==
  /\ mainPc = "armed"
  /\ gRunning' = TRUE
  /\ mainPc' = "loop"
  /\ UNCHANGED <<manager, registry, threads, nextId, conns>>

\* while (gRunning): without it start returns to main, whose Server is
\* destroyed there and then.
AcceptAgain == mainPc' = IF gRunning THEN "accept" ELSE "destroyed"

\* The first time; each later test is a part of the round before it.
EnterLoop ==
  /\ mainPc = "loop"
  /\ AcceptAgain
  /\ UNCHANGED <<manager, registry, threads, gRunning, nextId, conns>>

Accept(f, h) ==
  /\ mainPc = "accept"
  /\ conns[f] = "free"
  /\ pc[h] = "none"
  /\ conns' = [conns EXCEPT ![f] = "open"]
  /\ fdOf' = [fdOf EXCEPT ![h] = f]
  /\ Goto(h, "greet")
  /\ AcceptAgain
  /\ UNCHANGED <<manager, registry, idOf, received, sent, gRunning, nextId>>

\* accept returns -1: no descriptor left, or the connection was aborted.
AcceptFails ==
  /\ mainPc = "accept"
  /\ AcceptAgain
  /\ UNCHANGED <<manager, registry, threads, gRunning, nextId, conns>>

\* main returns and takes the detached threads with it.
MainExit ==
  /\ mainPc = "destroyed"
  /\ mainPc' = "exited"
  /\ UNCHANGED <<manager, registry, threads, gRunning, nextId, conns>>

-----------------------------------------------------------------------------
(* handleClient, Step 1: the client's Greeting; Step 2: nextId++, a load   *)
(* and a store of a variable that all handlers share ...                   *)

GreetOk(h) ==
  /\ pc[h] = "greet"
  /\ conns[fdOf[h]] = "open"
  /\ SM!Connect(h)
  /\ idOf' = [idOf EXCEPT ![h] = nextId]
  /\ Goto(h, "issue")
  /\ UNCHANGED <<registry, fdOf, received, sent, process, nextId, conns>>

\* Another PID is answered; a field that is too long, or a peer that is
\* gone, is not.
GreetFails(h) ==
  /\ pc[h] = "greet"
  /\ Goto(h, "remove")
  /\ Send(h, "NotGreeted") \/ UNCHANGED sent
  /\ UNCHANGED <<manager, registry, fdOf, idOf, received, process, nextId, conns>>

\* Mutant: the counter is wider than uint16_t.
IssueWideId(h) ==
  /\ pc[h] = "issue"
  /\ nextId' = idOf[h] + 1
  /\ Send(h, "Welcome")
  /\ Goto(h, "register")
  /\ UNCHANGED <<manager, registry, fdOf, idOf, received, process, conns>>

\* ... then the server's Greeting with the id and (Step 3) ConnectionSucceeded.
IssueId(h) ==
  /\ pc[h] = "issue"
  /\ nextId' = (idOf[h] + 1) % ClientIdMod
  /\ Send(h, "Welcome")
  /\ Goto(h, "register")
  /\ UNCHANGED <<manager, registry, fdOf, idOf, received, process, conns>>

AddClient(h) ==
  /\ pc[h] = "register"
  /\ clientsByFd' = Put(clientsByFd, fdOf[h], h)
  /\ clientsById' = Put(clientsById, idOf[h], h)
  /\ NextRound(h)
  /\ UNCHANGED <<manager, fdOf, idOf, received, sent, process, nextId, conns>>

-----------------------------------------------------------------------------
(* Step 4: the message loop.                                               *)

Receive(h) ==
  /\ pc[h] = "read"
  /\ conns[fdOf[h]] = "open"
  /\ \E m \in PeerRequests : received' = [received EXCEPT ![h] = m]
  /\ Goto(h, "dispatch")
  /\ UNCHANGED <<manager, registry, fdOf, idOf, sent, process, nextId, conns>>

\* The request is read further before it is handled.
ReadsPayload(h) == pc[h] = "dispatch" /\ received[h] \in {"Move", "Verify"}

\* Mutant: the end of the stream is read again and again.
RetryRead(h) ==
  /\ pc[h] = "read"
  /\ conns[fdOf[h]] = "hungup"
  /\ UNCHANGED vars

\* The PID, or the payload of a Move or VerifyGameState, cannot be read.
ReadFails(h) ==
  /\ pc[h] = "read" \/ ReadsPayload(h)
  /\ conns[fdOf[h]] = "hungup"
  /\ Goto(h, "remove")
  /\ received' = [received EXCEPT ![h] = "none"]
  /\ UNCHANGED <<manager, registry, fdOf, idOf, sent, process, nextId, conns>>

Handling(h, m) == pc[h] = "dispatch" /\ received[h] = m

\* Mutant: the loop goes on after sendConnectionFailed.
RefuseAndGoOn(h, failure) ==
  /\ Send(h, failure)
  /\ NextRound(h)
  /\ UNCHANGED manager

\* Mutant: and ConnectionFailed is forgotten, too.
RefuseSilently(h, failure) ==
  /\ NextRound(h)
  /\ UNCHANGED <<sent, manager>>

\* sendConnectionFailed and leave the loop.
Refuse(h, failure) ==
  /\ Send(h, failure)
  /\ Goto(h, "remove")
  /\ UNCHANGED manager

\* listSessions skips the finished ones.
Listed == {s \in DOMAIN sessions : sessions[s].state # SM!Finished}

ProcessSessionRequest(h) ==
  /\ Handling(h, "Inquire")
  /\ IF Listed # {} THEN Send(h, "Info") ELSE UNCHANGED sent
  /\ NextRound(h)
  /\ UNCHANGED manager

\* Whether a move is legal is the engine's choice; see SM!GamesAfterMove.
ProcessMove(h) ==
  /\ Handling(h, "Move")
  /\ \/ SM!ApplyMove(h) /\ Goto(h, "report") /\ UNCHANGED sent
     \/ Refuse(h, "NotAccepted")

GameOver(game) == game # SM!NoGame /\ sessions[game].game.status # "Ongoing"

\* The end of processMove, which reads the game again.
ReportEnd(h) ==
  /\ pc[h] = "report"
  /\ IF GameOver(gameOf[h]) THEN Send(h, "GameOver") ELSE UNCHANGED sent
  /\ NextRound(h)
  /\ UNCHANGED manager

\* Answered whether or not there was a game to resign.
ProcessResign(h) ==
  /\ Handling(h, "Resign")
  /\ \/ SM!HandleResign(h)
     \/ ~SM!InPlay(h) /\ UNCHANGED manager
  /\ Send(h, "GameOver")
  /\ NextRound(h)

\* A client in a session reports the right board or a wrong one.
ProcessVerifyState(h) ==
  /\ Handling(h, "Verify")
  /\ \/ SM!InSession(h) /\ NextRound(h) /\ UNCHANGED <<manager, sent>>
     \/ Refuse(h, "NotAccepted")

ProcessRequestGameState(h) ==
  /\ Handling(h, "RequestGameState")
  /\ IF sessionOf[h] = 0 \/ gameOf[h] = SM!NoGame
     THEN Refuse(h, "NotInGame")
     ELSE Send(h, "Info") /\ NextRound(h) /\ UNCHANGED manager

UnknownPid(h) == Handling(h, "Unknown") /\ Refuse(h, "NotAccepted")

Process(h) ==
  /\ \/ ProcessSessionRequest(h)
     \/ ProcessMove(h)
     \/ ReportEnd(h)
     \/ ProcessResign(h)
     \/ ProcessVerifyState(h)
     \/ ProcessRequestGameState(h)
     \/ UnknownPid(h)
  /\ received' = [received EXCEPT ![h] = "none"]
  /\ UNCHANGED <<registry, fdOf, idOf, process, nextId, conns>>

-----------------------------------------------------------------------------
(* cleanup: removeClient, then close.                                      *)

\* Mutant: the client is not taken out of its session.
RemoveWithoutLeave(h) ==
  /\ pc[h] = "remove"
  /\ clientsById' = Erase(clientsById, idOf[h])
  /\ clientsByFd' = Erase(clientsByFd, fdOf[h])
  /\ Goto(h, "close")
  /\ UNCHANGED <<manager, fdOf, idOf, received, sent, process, nextId, conns>>

\* Mutant: clientsByFd_ keeps its entry.
RemoveKeepsFd(h) ==
  /\ pc[h] = "remove"
  /\ clientsById' = Erase(clientsById, idOf[h])
  /\ Goto(h, "close")
  /\ UNCHANGED <<manager, clientsByFd, fdOf, idOf, received, sent, process, nextId, conns>>

\* Mutant: clientsById_ keeps its entry.
RemoveKeepsId(h) ==
  /\ pc[h] = "remove"
  /\ clientsByFd' = Erase(clientsByFd, fdOf[h])
  /\ Goto(h, "close")
  /\ UNCHANGED <<manager, clientsById, fdOf, idOf, received, sent, process, nextId, conns>>

\* Mutant: removeClient closes the descriptor that handleClient closes again.
RemoveAndClose(h) ==
  /\ pc[h] = "remove"
  /\ clientsByFd' = Erase(clientsByFd, fdOf[h])
  /\ clientsById' = Erase(clientsById, idOf[h])
  /\ conns' = [conns EXCEPT ![fdOf[h]] = "free"]
  /\ Goto(h, "close")
  /\ UNCHANGED <<manager, fdOf, idOf, received, sent, process, nextId>>

RemoveClient(h) ==
  /\ pc[h] = "remove"
  /\ LET fd == fdOf[h] IN
       \/ /\ fd \notin DOMAIN clientsByFd
          /\ UNCHANGED <<manager, registry>>
       \/ /\ fd \in DOMAIN clientsByFd
          /\ LET client == clientsByFd[fd] IN
               /\ SM!LeaveSession(client)
               /\ clientsById' = IF idOf[client] = NoId THEN clientsById
                                 ELSE Erase(clientsById, idOf[client])
          /\ clientsByFd' = Erase(clientsByFd, fd)
  /\ Goto(h, "close")
  /\ UNCHANGED <<fdOf, idOf, received, sent, process, nextId, conns>>

\* The thread ends with its ClientContext; the kernel may reuse both the
\* descriptor and the stack.
CloseFd(h) ==
  /\ pc[h] = "close"
  /\ conns' = [conns EXCEPT ![fdOf[h]] = "free"]
  /\ live' = live \ {h}
  /\ namedWhite' = namedWhite \ {h}
  /\ Goto(h, "none")
  /\ fdOf'     = [fdOf EXCEPT ![h] = NoFd]
  /\ idOf'     = [idOf EXCEPT ![h] = NoId]
  /\ received' = [received EXCEPT ![h] = "none"]
  /\ sent'     = [sent EXCEPT ![h] = "none"]
  /\ UNCHANGED <<sessions, nextSessionId, sessionOf, gameOf, registry, process, nextId>>

(* A write to a peer that has gone, be it before all it sent has been      *)
(* read: the default action of SIGPIPE.                                    *)
Writes(h) ==
  \/ pc[h] \in {"greet", "issue"}
  \/ pc[h] = "dispatch" /\ (received[h] = "Inquire" => Listed # {})
  \/ pc[h] = "report" /\ GameOver(gameOf[h])

SigPipe(h) ==
  /\ Writes(h)
  /\ mainPc' = "killed"
  /\ UNCHANGED <<manager, registry, threads, gRunning, nextId, conns>>

(* The next step of h touches the manager's maps, sessions or games, and   *)
(* whether it changes them.                                                *)
UsesManager(h) ==
  \/ pc[h] \in {"register", "report", "remove"}
  \/ pc[h] = "dispatch" /\ received[h] # "Unknown"
ChangesManager(h) ==
  \/ pc[h] = "register"
  \/ pc[h] = "remove" /\ fdOf[h] \in DOMAIN clientsByFd
  \/ pc[h] = "dispatch" /\ received[h] \in {"Move", "Resign"}

\* The maps are gone with the Server: a call finds the old memory (the
\* other actions) or does not survive.
UseAfterDestroy(h) ==
  /\ mainPc = "destroyed"
  /\ UsesManager(h)
  /\ mainPc' = "killed"
  /\ UNCHANGED <<manager, registry, threads, gRunning, nextId, conns>>

-----------------------------------------------------------------------------
\* A handler's own steps: they happen whatever the peer does, unless it is
\* silent where a Greeting, a PID or a payload is read.
Step(h) ==
  /\ ProcessUp
  /\ \/ IssueId(h)
     \/ AddClient(h)
     \/ ReadFails(h)
     \/ Process(h) /\ (ReadsPayload(h) => conns[fdOf[h]] = "hungup")
     \/ RemoveClient(h)
     \/ CloseFd(h)
     \/ GreetFails(h) /\ conns[fdOf[h]] = "hungup"

\* What the peer, or the state of the process, may let happen to it.
Peer(h) ==
  /\ ProcessUp
  /\ \/ GreetOk(h)
     \/ GreetFails(h)
     \/ Receive(h)
     \/ ReadsPayload(h) /\ Process(h)
     \/ SigPipe(h)
     \/ UseAfterDestroy(h)

Next ==
  \/ Signal
  \/ StartFails
  \/ InstallHandlers
  \/ SetRunning
  \/ EnterLoop
  \/ \E f \in Fds : HangUp(f)
  \/ LobbyCreate
  \/ \E h \in Handlers, s \in SM!SessionIds : LobbyJoin(h, s)
  \/ MainExit
  \/ AcceptFails
  \/ \E f \in Fds, h \in Handlers : Accept(f, h)
  \/ \E h \in Handlers : Step(h) \/ Peer(h)

Spec == Init /\ [][Next]_vars

(* The scheduler runs every thread that can run.  Nothing is assumed of    *)
(* the peers, of the operator, or of further connections arriving.         *)
Fairness == WF_vars(MainExit) /\ \A h \in Handlers : WF_vars(Step(h))

FairSpec == Spec /\ Fairness

-----------------------------------------------------------------------------
TypeOK ==
  /\ DOMAIN clientsByFd \subseteq Fds
  /\ \A f \in DOMAIN clientsByFd : clientsByFd[f] \in Handlers
  /\ DOMAIN clientsById \subseteq 0..(ClientIdMod - 1)
  /\ \A i \in DOMAIN clientsById : clientsById[i] \in Handlers
  /\ nextId \in 0..(ClientIdMod - 1)
  /\ gRunning \in BOOLEAN
  /\ mainPc \in {"start", "armed", "loop", "accept", "destroyed", "exited", "killed"}
  /\ pc \in [Handlers -> Labels]
  /\ fdOf \in [Handlers -> Fds \cup {NoFd}]
  /\ idOf \in [Handlers -> 0..(ClientIdMod - 1) \cup {NoId}]
  /\ received \in [Handlers -> Requests \cup {"none"}]
  /\ sent \in [Handlers -> Messages \cup {"none"}]
  /\ conns \in [Fds -> {"free", "open", "hungup"}]

(* A descriptor belongs to one handler for as long as it is open: what a   *)
(* handler reads and writes is its own peer's, however often the kernel    *)
(* reuses the number.                                                      *)
DescriptorsOwned ==
  /\ \A h \in Handlers :
       pc[h] # "none" => fdOf[h] \in Fds /\ conns[fdOf[h]] # "free"
  /\ \A h, k \in Handlers :
       pc[h] # "none" /\ pc[k] # "none" /\ fdOf[h] = fdOf[k] => h = k

(* clientsByFd_ holds exactly the handlers that are being served, each     *)
(* under the descriptor it owns; so removeClient(fd), which trusts the     *)
(* map, only ever takes its own caller out of its match.  It depends on    *)
(* handleClient calling removeClient before it gives the descriptor back.  *)
RegistryExact ==
  /\ \A f \in DOMAIN clientsByFd :
       pc[clientsByFd[f]] \in Serving /\ fdOf[clientsByFd[f]] = f
  /\ \A h \in Handlers :
       pc[h] \in Serving /\ pc[h] # "remove" =>
         fdOf[h] \in DOMAIN clientsByFd /\ clientsByFd[fdOf[h]] = h

(* No entry of clientsById_ outlives its client, even when two clients     *)
(* were given the same id and one of them has removed the entry of both.   *)
ByIdNeverDangles ==
  \A i \in DOMAIN clientsById :
    pc[clientsById[i]] \in Serving /\ idOf[clientsById[i]] = i

(* Whoever holds a seat in any session is a client that is being served    *)
(* and whose sessionId says so: no match keeps a pointer to the stack of   *)
(* a handler that has gone.                                                *)
SeatedAreServed ==
  \A s \in DOMAIN sessions : \A h \in SM!Seats(sessions[s]) :
    pc[h] \in Serving /\ sessionOf[h] = s

(* The order on the wire: nothing but a refusal before the Welcome, one    *)
(* Welcome, and nothing after a refusal.                                   *)
ProtocolOrder ==
  [][\A h \in Handlers : sent'[h] # sent[h] =>
       \/ pc'[h] = "none"
       \/ sent[h] = "none" /\ sent'[h] \in {"Welcome", "NotGreeted"}
       \/ sent[h] \notin Failures \cup {"none"} /\ sent'[h] \notin {"Welcome", "NotGreeted"}]_vars

(* processMove looks at the game again after applyMove returned.  An end   *)
(* that is there to be reported is reported to the mover, and as it was:   *)
(* the opponent, who may resign or leave between the two, and so end the   *)
(* match or empty its seats, neither hides it nor changes the result.      *)
EndIsReported ==
  [][\A h \in Handlers : pc[h] = "report" /\ GameOver(gameOf[h]) =>
       \/ pc'[h] \in {"read", "remove"} /\ sent'[h] = "GameOver"
       \/ /\ pc'[h] = "report"
          /\ gameOf'[h] = gameOf[h]
          /\ sessions'[gameOf[h]].game = sessions[gameOf[h]].game]_vars

(* The sessions the server holds evolve as the manager alone would let     *)
(* them, whatever the interleaving of the handlers that call it.           *)
SessionsSpec == SM!Spec

(* A peer that hangs up is noticed and its descriptor released, unless the *)
(* process ends first.  (Its seat: SeatedAreServed.)                       *)
HangupReleased ==
  \A f \in Fds : conns[f] = "hungup" ~> (conns[f] = "free" \/ ~ProcessUp)

(* ConnectionFailed is always followed by the close of the connection.     *)
RefusalCloses ==
  \A h \in Handlers : sent[h] \in Failures ~> (pc[h] = "none" \/ ~ProcessUp)

-----------------------------------------------------------------------------
(* PLAND.md:110 "Thread-per-client handles 2+ simultaneous connections":   *)
(* two handlers are never about to touch the manager together, one of them *)
(* changing it.                                                            *)
NoDataRace ==
  \A h, k \in Handlers : h # k => ~(UsesManager(h) /\ ChangesManager(k))

(* Server.cpp:88 "Set up signal handler for graceful shutdown.": the       *)
(* Server does not go under the feet of the handlers that still use it.    *)
NoUseAfterDestroy ==
  mainPc = "destroyed" => \A h \in Handlers : ~UsesManager(h)

(* PLAND.md:109 "Resign ends game and notifies both clients".              *)
ResignNotifiesBoth ==
  \A s \in SM!SessionIds : \A h, k \in Handlers :
    (/\ SM!SeatedIn(h, s) /\ SM!SeatedIn(k, s)
     /\ sessions[s].state = SM!Finished /\ sent[h] = "GameOver")
      ~> (\/ sent[k] = "GameOver"
          \/ pc[k] \notin Serving
          \/ ~ProcessUp)
=============================================================================
