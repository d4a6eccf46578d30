---------------------------- MODULE ServerProofs ----------------------------
(***************************************************************************)
(* Theorems about Server for any number of handlers and descriptors, every *)
(* ClientIdMod and every choice of the requests, signals and lobby.        *)
(***************************************************************************)
EXTENDS Server, TLAPS

USE ClientIdAssumption, RequestsAssumption

Ids == 0..(ClientIdMod - 1)

(* A handler is registered under the descriptor it owns.                   *)
Registered(h) == fdOf[h] \in DOMAIN clientsByFd /\ clientsByFd[fdOf[h]] = h

(* What the threads, the descriptors and the registry have to do with one  *)
(* another, and what makes it inductive: an id is known from the Greeting  *)
(* on, and whoever is found by id is found by descriptor, so that          *)
(* removeClient, which looks for the descriptor, leaves neither behind.    *)
HasId == \A h \in Handlers : pc[h] \in {"issue", "register"} => idOf[h] \in Ids

ByIdRegistered ==
  \A i \in DOMAIN clientsById : Registered(clientsById[i]) /\ idOf[clientsById[i]] = i

Inv == TypeOK /\ DescriptorsOwned /\ RegistryExact /\ HasId /\ ByIdRegistered

(* The counter wraps around and stays an id.                               *)
LEMMA Wraps ==
  ASSUME NEW n \in Nat
  PROVE  n % ClientIdMod \in Ids
  BY DEF Ids

LEMMA InitInv == Init => Inv
<1> SUFFICES ASSUME Init PROVE Inv
  OBVIOUS
<1>1. nextId \in Ids
  BY Wraps DEF Init
<1>2. DOMAIN clientsByFd = {} /\ DOMAIN clientsById = {}
  BY DEF Init
<1>3. TypeOK
  BY <1>1, <1>2 DEF Init, TypeOK, Ids, Labels
<1>4. DescriptorsOwned /\ RegistryExact /\ HasId /\ ByIdRegistered
  BY <1>2 DEF Init, DescriptorsOwned, RegistryExact, HasId, ByIdRegistered, Serving
<1> QED BY <1>3, <1>4 DEF Inv

-----------------------------------------------------------------------------
(* The steps by what they leave alone.                                     *)
Kept == UNCHANGED <<pc, fdOf, idOf, clientsByFd, clientsById, conns>>

LEMMA KeptInv ==
  ASSUME Inv, Kept, UNCHANGED <<received, sent, nextId>>, gRunning' \in BOOLEAN,
         mainPc' \in {"start", "armed", "loop", "accept", "destroyed", "exited", "killed"}
  PROVE  Inv'
  BY DEF Inv, Kept, TypeOK, DescriptorsOwned, RegistryExact, HasId, ByIdRegistered, Registered

(* A handler goes on, and neither begins nor ends to be served, or it goes *)
(* to the cleanup.                                                         *)
Moves(h, label) ==
  /\ Goto(h, label)
  /\ UNCHANGED <<fdOf, idOf, clientsByFd, clientsById, conns, gRunning, mainPc>>

LEMMA MovesInv ==
  ASSUME Inv, NEW h \in Handlers, NEW label \in Labels, Moves(h, label),
         pc[h] # "none", label # "none",
         pc[h] \in Serving => label \in Serving,
         label \in Serving \ {"remove"} => pc[h] \in Serving \ {"remove"},
         label \in {"issue", "register"} => idOf[h] \in Ids,
         nextId' \in Ids,
         received' \in [Handlers -> Requests \cup {"none"}],
         sent' \in [Handlers -> Messages \cup {"none"}]
  PROVE  Inv'
<1>1. pc' \in [Handlers -> Labels] /\ pc'[h] = label /\ \A k \in Handlers \ {h} : pc'[k] = pc[k]
  BY DEF Moves, Goto, Inv, TypeOK
<1>2. TypeOK'
  BY <1>1 DEF Inv, TypeOK, Moves, Ids
<1>3. DescriptorsOwned'
  BY <1>1 DEF Inv, TypeOK, Moves, DescriptorsOwned
<1>4. RegistryExact'
  BY <1>1 DEF Inv, TypeOK, Moves, RegistryExact
<1>5. HasId'
  BY <1>1 DEF Inv, TypeOK, Moves, HasId
<1>6. ByIdRegistered'
  BY <1>1 DEF Inv, TypeOK, Moves, ByIdRegistered, Registered
<1> QED BY <1>2, <1>3, <1>4, <1>5, <1>6 DEF Inv

-----------------------------------------------------------------------------
(* The steps that take or give back something.                             *)
LEMMA AcceptInv ==
  ASSUME Inv, NEW f \in Fds, NEW h \in Handlers, Accept(f, h)
  PROVE  Inv'
<1>1. /\ pc' \in [Handlers -> Labels] /\ pc'[h] = "greet" /\ pc[h] = "none"
      /\ \A k \in Handlers \ {h} : pc'[k] = pc[k]
      /\ fdOf' \in [Handlers -> Fds \cup {NoFd}] /\ fdOf'[h] = f
      /\ \A k \in Handlers \ {h} : fdOf'[k] = fdOf[k]
      /\ conns' \in [Fds -> {"free", "open", "hungup"}]
      /\ conns[f] = "free" /\ conns'[f] = "open"
      /\ \A g \in Fds \ {f} : conns'[g] = conns[g]
  BY DEF Accept, Goto, Inv, TypeOK, Labels
<1>2. TypeOK'
  BY <1>1 DEF Accept, AcceptAgain, registry, Inv, TypeOK
<1>3. DescriptorsOwned'
  BY <1>1 DEF Inv, TypeOK, DescriptorsOwned
<1>4. RegistryExact'
  BY <1>1 DEF Accept, registry, Inv, TypeOK, RegistryExact, Serving
<1>5. HasId'
  BY <1>1 DEF Accept, Inv, HasId
<1>6. ByIdRegistered'
  BY <1>1 DEF Accept, registry, Inv, TypeOK, ByIdRegistered, Registered, RegistryExact, Serving
<1> QED BY <1>2, <1>3, <1>4, <1>5, <1>6 DEF Inv

LEMMA HangUpInv ==
  ASSUME Inv, NEW f \in Fds, HangUp(f)
  PROVE  Inv'
<1>1. TypeOK'
  BY DEF HangUp, registry, threads, process, Inv, TypeOK
<1>2. DescriptorsOwned'
  BY DEF HangUp, threads, Inv, TypeOK, DescriptorsOwned
<1>3. RegistryExact' /\ HasId' /\ ByIdRegistered'
  BY DEF HangUp, registry, threads, Inv, RegistryExact, HasId, ByIdRegistered, Registered
<1> QED BY <1>1, <1>2, <1>3 DEF Inv

LEMMA GreetOkInv ==
  ASSUME Inv, NEW h \in Handlers, GreetOk(h)
  PROVE  Inv'
<1>1. /\ pc' \in [Handlers -> Labels] /\ pc'[h] = "issue" /\ pc[h] = "greet"
      /\ \A k \in Handlers \ {h} : pc'[k] = pc[k]
      /\ idOf' \in [Handlers -> Ids \cup {NoId}] /\ idOf'[h] \in Ids
      /\ \A k \in Handlers \ {h} : idOf'[k] = idOf[k]
  BY DEF GreetOk, Goto, Inv, TypeOK, Labels, Ids
<1>2. TypeOK'
  BY <1>1 DEF GreetOk, registry, process, Inv, TypeOK, Ids
<1>3. DescriptorsOwned'
  BY <1>1 DEF GreetOk, Inv, TypeOK, DescriptorsOwned
<1>4. RegistryExact'
  BY <1>1 DEF GreetOk, registry, Inv, TypeOK, RegistryExact, Serving
<1>5. HasId'
  BY <1>1 DEF Inv, HasId
<1>6. ByIdRegistered'
  BY <1>1 DEF GreetOk, registry, Inv, TypeOK, ByIdRegistered, Registered, RegistryExact, Serving
<1> QED BY <1>2, <1>3, <1>4, <1>5, <1>6 DEF Inv

LEMMA AddClientInv ==
  ASSUME Inv, NEW h \in Handlers, AddClient(h)
  PROVE  Inv'
<1>1. /\ pc' \in [Handlers -> Labels] /\ pc'[h] \in {"read", "remove"} /\ pc[h] = "register"
      /\ \A k \in Handlers \ {h} : pc'[k] = pc[k]
  BY DEF AddClient, NextRound, Goto, Inv, TypeOK, Labels
<1>2. fdOf[h] \in Fds /\ idOf[h] \in Ids
  BY <1>1 DEF Inv, DescriptorsOwned, HasId
<1>3. /\ DOMAIN clientsByFd' = DOMAIN clientsByFd \cup {fdOf[h]}
      /\ clientsByFd'[fdOf[h]] = h
      /\ \A f \in DOMAIN clientsByFd : f # fdOf[h] => clientsByFd'[f] = clientsByFd[f]
      /\ DOMAIN clientsById' = DOMAIN clientsById \cup {idOf[h]}
      /\ clientsById'[idOf[h]] = h
      /\ \A i \in DOMAIN clientsById : i # idOf[h] => clientsById'[i] = clientsById[i]
  BY DEF AddClient, Put
<1>4. UNCHANGED <<fdOf, idOf, received, sent, gRunning, mainPc, nextId, conns>>
  BY DEF AddClient, process
<1>5. TypeOK'
  BY <1>1, <1>2, <1>3, <1>4 DEF Inv, TypeOK, Ids
<1>6. DescriptorsOwned'
  BY <1>1, <1>4 DEF Inv, TypeOK, DescriptorsOwned
<1>7. RegistryExact'
  BY <1>1, <1>2, <1>3, <1>4 DEF Inv, TypeOK, DescriptorsOwned, RegistryExact, Serving
<1>8. HasId'
  BY <1>1, <1>4 DEF Inv, HasId
<1>9. ByIdRegistered'
  <2>1. \A k \in Handlers \ {h} : Registered(k) => Registered(k)'
    BY <1>1, <1>3, <1>4 DEF Inv, TypeOK, DescriptorsOwned, RegistryExact, Registered, Serving
  <2> QED BY <2>1, <1>1, <1>3, <1>4 DEF Inv, TypeOK, ByIdRegistered, Registered
<1> QED BY <1>5, <1>6, <1>7, <1>8, <1>9 DEF Inv

LEMMA RemoveClientInv ==
  ASSUME Inv, NEW h \in Handlers, RemoveClient(h)
  PROVE  Inv'
<1> DEFINE fd == fdOf[h]
<1>1. /\ pc' \in [Handlers -> Labels] /\ pc'[h] = "close" /\ pc[h] = "remove"
      /\ \A k \in Handlers \ {h} : pc'[k] = pc[k]
  BY DEF RemoveClient, Goto, Inv, TypeOK, Labels
<1>2. UNCHANGED <<fdOf, idOf, received, sent, gRunning, mainPc, nextId, conns>>
  BY DEF RemoveClient, process
\* The descriptor is registered for h or for nobody.
<1>3. \A f \in DOMAIN clientsByFd : f = fd <=> clientsByFd[f] = h
  BY <1>1 DEF Inv, TypeOK, DescriptorsOwned, RegistryExact, Serving
\* Afterwards the registry has forgotten h, and nobody else.
<1>4. /\ DOMAIN clientsByFd' = DOMAIN clientsByFd \ {fd}
      /\ \A f \in DOMAIN clientsByFd' : clientsByFd'[f] = clientsByFd[f]
      /\ DOMAIN clientsById' \subseteq DOMAIN clientsById
      /\ \A i \in DOMAIN clientsById' : clientsById'[i] = clientsById[i] /\ clientsById[i] # h
  <2>1. CASE fd \notin DOMAIN clientsByFd
    <3>1. UNCHANGED registry
      BY <2>1 DEF RemoveClient
    <3>2. \A i \in DOMAIN clientsById : clientsById[i] # h
      BY <2>1 DEF Inv, ByIdRegistered, Registered
    <3> QED BY <3>1, <3>2, <2>1 DEF registry
  <2>2. CASE fd \in DOMAIN clientsByFd
    <3>1. clientsByFd[fd] = h
      BY <1>3, <2>2
    <3>2. /\ clientsByFd' = Erase(clientsByFd, fd)
          /\ clientsById' = IF idOf[h] = NoId THEN clientsById ELSE Erase(clientsById, idOf[h])
      BY <2>2, <3>1 DEF RemoveClient
    <3>3. \A i \in DOMAIN clientsById : clientsById[i] = h => idOf[h] = i /\ idOf[h] # NoId
      BY DEF Inv, TypeOK, ByIdRegistered, NoId
    <3> QED BY <3>2, <3>3 DEF Erase
  <2> QED BY <2>1, <2>2
<1>5. TypeOK'
  BY <1>1, <1>2, <1>4 DEF Inv, TypeOK
<1>6. DescriptorsOwned'
  BY <1>1, <1>2 DEF Inv, TypeOK, DescriptorsOwned
<1>7. RegistryExact'
  BY <1>1, <1>2, <1>3, <1>4 DEF Inv, TypeOK, RegistryExact, DescriptorsOwned, Serving
<1>8. HasId'
  BY <1>1, <1>2 DEF Inv, HasId
<1>9. ByIdRegistered'
  <2>1. \A k \in Handlers \ {h} : Registered(k) => Registered(k)'
    BY <1>2, <1>3, <1>4 DEF Registered
  <2>2. \A i \in DOMAIN clientsById' : clientsById'[i] \in Handlers \ {h}
    BY <1>4 DEF Inv, TypeOK
  <2> QED BY <2>1, <2>2, <1>2, <1>4 DEF Inv, ByIdRegistered, Registered
<1> QED BY <1>5, <1>6, <1>7, <1>8, <1>9 DEF Inv

LEMMA CloseFdInv ==
  ASSUME Inv, NEW h \in Handlers, CloseFd(h)
  PROVE  Inv'
<1>1. /\ pc' \in [Handlers -> Labels] /\ pc'[h] = "none" /\ pc[h] = "close"
      /\ \A k \in Handlers \ {h} : pc'[k] = pc[k]
      /\ fdOf' \in [Handlers -> Fds \cup {NoFd}] /\ fdOf[h] \in Fds
      /\ \A k \in Handlers \ {h} : fdOf'[k] = fdOf[k]
      /\ idOf' \in [Handlers -> 0..(ClientIdMod - 1) \cup {NoId}]
      /\ \A k \in Handlers \ {h} : idOf'[k] = idOf[k]
  BY DEF CloseFd, Goto, Inv, TypeOK, DescriptorsOwned, Labels
<1>2. /\ received' \in [Handlers -> Requests \cup {"none"}]
      /\ sent' \in [Handlers -> Messages \cup {"none"}]
      /\ conns' \in [Fds -> {"free", "open", "hungup"}]
      /\ \A f \in Fds \ {fdOf[h]} : conns'[f] = conns[f]
  BY DEF CloseFd, Inv, TypeOK
<1>3. UNCHANGED <<clientsByFd, clientsById, gRunning, mainPc, nextId>>
  BY DEF CloseFd, registry, process
<1>4. TypeOK'
  BY <1>1, <1>2, <1>3 DEF Inv, TypeOK
<1>5. DescriptorsOwned'
  BY <1>1, <1>2 DEF Inv, TypeOK, DescriptorsOwned
\* Nobody finds h any more.
<1>6. \A f \in DOMAIN clientsByFd : clientsByFd[f] \in Handlers \ {h}
  BY <1>1 DEF Inv, TypeOK, RegistryExact, Serving
<1>7. RegistryExact'
  BY <1>1, <1>3, <1>6 DEF Inv, TypeOK, RegistryExact, Serving
<1>8. HasId'
  BY <1>1 DEF Inv, HasId
<1>9. ByIdRegistered'
  BY <1>1, <1>3, <1>6 DEF Inv, TypeOK, ByIdRegistered, Registered
<1> QED BY <1>4, <1>5, <1>7, <1>8, <1>9 DEF Inv

-----------------------------------------------------------------------------
(* A handler's next label, and what it leaves alone.                       *)
LEMMA IssueIdInv ==
  ASSUME Inv, NEW h \in Handlers, IssueId(h)
  PROVE  Inv'
<1>1. pc[h] = "issue" /\ Moves(h, "register")
  BY DEF IssueId, Moves, registry, process
<1>2. idOf[h] \in Ids
  BY <1>1 DEF Inv, HasId
<1>3. idOf[h] + 1 \in Nat
  BY <1>2 DEF Ids
<1>4. nextId' \in Ids
  BY <1>3, Wraps DEF IssueId
<1>5. /\ received' \in [Handlers -> Requests \cup {"none"}]
      /\ sent' \in [Handlers -> Messages \cup {"none"}]
  BY DEF IssueId, Send, Messages, Inv, TypeOK
<1> QED BY <1>1, <1>2, <1>4, <1>5, MovesInv DEF Labels, Serving

LEMMA GreetFailsInv ==
  ASSUME Inv, NEW h \in Handlers, GreetFails(h)
  PROVE  Inv'
<1>1. pc[h] = "greet" /\ Moves(h, "remove")
  BY DEF GreetFails, Moves, registry, process
<1>2. /\ received' \in [Handlers -> Requests \cup {"none"}]
      /\ sent' \in [Handlers -> Messages \cup {"none"}]
      /\ nextId' \in Ids
  BY DEF GreetFails, Send, Messages, Failures, Inv, TypeOK, Ids
<1> QED BY <1>1, <1>2, MovesInv DEF Labels, Serving

LEMMA ReceiveInv ==
  ASSUME Inv, NEW h \in Handlers, Receive(h)
  PROVE  Inv'
<1>1. pc[h] = "read" /\ Moves(h, "dispatch")
  BY DEF Receive, Moves, registry, process
<1>2. /\ received' \in [Handlers -> Requests \cup {"none"}]
      /\ sent' \in [Handlers -> Messages \cup {"none"}]
      /\ nextId' \in Ids
  BY DEF Receive, Inv, TypeOK, Ids
<1> QED BY <1>1, <1>2, MovesInv DEF Labels, Serving

LEMMA ReadFailsInv ==
  ASSUME Inv, NEW h \in Handlers, ReadFails(h)
  PROVE  Inv'
<1>1. pc[h] \in {"read", "dispatch"} /\ Moves(h, "remove")
  BY DEF ReadFails, ReadsPayload, Moves, registry, process
<1>2. /\ received' \in [Handlers -> Requests \cup {"none"}]
      /\ sent' \in [Handlers -> Messages \cup {"none"}]
      /\ nextId' \in Ids
  BY DEF ReadFails, Inv, TypeOK, Ids
<1> QED BY <1>1, <1>2, MovesInv DEF Labels, Serving

(* Whatever the request, its handler reads on, reports or goes to the      *)
(* cleanup, having sent at most one message.                               *)
LEMMA ProcessInv ==
  ASSUME Inv, NEW h \in Handlers, Process(h)
  PROVE  Inv'
<1> DEFINE SentOne == \E m \in Messages : Send(h, m) \/ UNCHANGED sent
<1>1. PICK label \in {"read", "report", "remove"} :
        pc[h] \in {"dispatch", "report"} /\ Goto(h, label) /\ SentOne
  <2>1. CASE ProcessSessionRequest(h)
    BY <2>1 DEF ProcessSessionRequest, Handling, NextRound, Messages
  <2>2. CASE ProcessMove(h)
    BY <2>2 DEF ProcessMove, Handling, Refuse, Messages, Failures
  <2>3. CASE ReportEnd(h)
    BY <2>3 DEF ReportEnd, NextRound, Messages
  <2>4. CASE ProcessResign(h)
    BY <2>4 DEF ProcessResign, Handling, NextRound, Messages
  <2>5. CASE ProcessVerifyState(h)
    BY <2>5 DEF ProcessVerifyState, Handling, NextRound, Refuse, Messages, Failures
  <2>6. CASE ProcessRequestGameState(h)
    BY <2>6 DEF ProcessRequestGameState, Handling, NextRound, Refuse, Messages, Failures
  <2>7. CASE UnknownPid(h)
    BY <2>7 DEF UnknownPid, Handling, Refuse, Messages, Failures
  <2> QED BY <2>1, <2>2, <2>3, <2>4, <2>5, <2>6, <2>7 DEF Process
<1>2. Moves(h, label)
  BY <1>1 DEF Process, Moves, registry, process
<1>3. /\ received' \in [Handlers -> Requests \cup {"none"}]
      /\ sent' \in [Handlers -> Messages \cup {"none"}]
      /\ nextId' \in Ids
  BY <1>1 DEF Process, Send, Inv, TypeOK, Ids
<1> QED BY <1>1, <1>2, <1>3, MovesInv DEF Labels, Serving

LEMMA StepInv ==
  ASSUME Inv, NEW h \in Handlers, Step(h) \/ Peer(h)
  PROVE  Inv'
<1>1. CASE SigPipe(h) \/ UseAfterDestroy(h)
  <2>1. Kept /\ UNCHANGED <<received, sent, nextId, gRunning>> /\ mainPc' = "killed"
    BY <1>1 DEF SigPipe, UseAfterDestroy, Kept, registry, threads
  <2> QED BY <2>1, KeptInv DEF Inv, TypeOK
<1> QED BY <1>1, IssueIdInv, AddClientInv, ReadFailsInv, ProcessInv, RemoveClientInv,
           CloseFdInv, GreetOkInv, GreetFailsInv, ReceiveInv DEF Step, Peer

(* The accepting thread, the operator and the lobby leave the connections  *)
(* and those who serve them alone.                                         *)
LEMMA MainInv ==
  ASSUME Inv,
         \/ Signal \/ StartFails \/ InstallHandlers \/ SetRunning \/ EnterLoop
         \/ MainExit \/ AcceptFails \/ LobbyCreate
         \/ \E h \in Handlers, s \in SM!SessionIds : LobbyJoin(h, s)
  PROVE  Inv'
<1>1. Kept /\ UNCHANGED <<received, sent, nextId>>
  BY DEF Kept, registry, threads, Signal, StartFails, InstallHandlers, SetRunning, EnterLoop,
         MainExit, AcceptFails, LobbyCreate, LobbyJoin
<1>2. /\ gRunning' \in BOOLEAN
      /\ mainPc' \in {"start", "armed", "loop", "accept", "destroyed", "exited", "killed"}
  BY DEF Inv, TypeOK, process, AcceptAgain, Signal, StartFails, InstallHandlers, SetRunning,
         EnterLoop, MainExit, AcceptFails, LobbyCreate, LobbyJoin
<1> QED BY <1>1, <1>2, KeptInv

LEMMA NextInv == Inv /\ [Next]_vars => Inv'
<1> SUFFICES ASSUME Inv, [Next]_vars PROVE Inv'
  OBVIOUS
<1>1. CASE UNCHANGED vars
  <2>1. Kept /\ UNCHANGED <<received, sent, nextId, gRunning, mainPc>>
    BY <1>1 DEF vars, registry, threads, process, Kept
  <2> QED BY <2>1, KeptInv DEF Inv, TypeOK
<1>2. CASE \E f \in Fds : HangUp(f)
  BY <1>2, HangUpInv
<1>3. CASE \E f \in Fds, h \in Handlers : Accept(f, h)
  BY <1>3, AcceptInv
<1>4. CASE \E h \in Handlers : Step(h) \/ Peer(h)
  BY <1>4, StepInv
<1> QED BY <1>1, <1>2, <1>3, <1>4, MainInv DEF Next

-----------------------------------------------------------------------------
(* The state of the server is always well typed; a client id stays within  *)
(* its width although nextId wraps around.                                 *)
THEOREM ServerTypeCorrect == Spec => []TypeOK
<1>1. Inv => TypeOK
  BY DEF Inv
<1> QED BY InitInv, NextInv, <1>1, PTL DEF Spec

(* No two handlers ever serve one descriptor, and none serves a closed one.*)
THEOREM DescriptorsAreOwned == Spec => []DescriptorsOwned
<1>1. Inv => DescriptorsOwned
  BY DEF Inv
<1> QED BY InitInv, NextInv, <1>1, PTL DEF Spec

(* removeClient finds its caller under the caller's descriptor, or nobody. *)
THEOREM RegistryIsExact == Spec => []RegistryExact
<1>1. Inv => RegistryExact
  BY DEF Inv
<1> QED BY InitInv, NextInv, <1>1, PTL DEF Spec

(* clientsById_ never keeps a pointer to a handler that has gone, even     *)
(* though ids wrap around and two threads may take the same one.           *)
THEOREM ByIdIsLive == Spec => []ByIdNeverDangles
<1>1. Inv => ByIdNeverDangles
  BY DEF Inv, TypeOK, RegistryExact, ByIdRegistered, Registered, ByIdNeverDangles
<1> QED BY InitInv, NextInv, <1>1, PTL DEF Spec

-----------------------------------------------------------------------------
(* The order on the wire.  A step takes a handler through handleClient as  *)
(* follows, and sends what is sent there.                                  *)
Answers  == {"Info", "GameOver"}
Refusals == {"NotInGame", "NotAccepted"}

HandlerStep(h) ==
  \/ pc'[h] = pc[h] /\ sent'[h] = sent[h]
  \/ pc[h] = "none" /\ pc'[h] = "greet" /\ sent'[h] = sent[h]
  \/ pc[h] = "greet" /\ pc'[h] = "issue" /\ sent'[h] = sent[h]
  \/ pc[h] = "greet" /\ pc'[h] = "remove" /\ sent'[h] \in {sent[h], "NotGreeted"}
  \/ pc[h] = "issue" /\ pc'[h] = "register" /\ sent'[h] = "Welcome"
  \/ pc[h] = "register" /\ pc'[h] \in {"read", "remove"} /\ sent'[h] = sent[h]
  \/ /\ pc[h] \in {"read", "dispatch", "report"}
     /\ pc'[h] \in {"read", "dispatch", "report", "remove"}
     /\ sent'[h] \in {sent[h]} \cup Answers
  \/ pc[h] = "dispatch" /\ pc'[h] = "remove" /\ sent'[h] \in Refusals
  \/ pc[h] = "remove" /\ pc'[h] = "close" /\ sent'[h] = sent[h]
  \/ pc[h] = "close" /\ pc'[h] = "none" /\ sent'[h] = "none"

(* Nothing is sent before the id is issued, and whoever is registered or   *)
(* about to be has been welcomed and not refused.                          *)
WelcomedFirst ==
  \A h \in Handlers :
    /\ pc[h] \in {"none", "greet", "issue"} => sent[h] = "none"
    /\ pc[h] \in {"register", "read", "dispatch", "report"} => sent[h] \notin Failures \cup {"none"}

\* Only the handler that takes the step moves.
LEMMA OthersStand ==
  ASSUME TypeOK, NEW h \in Handlers, NEW label, NEW m,
         Goto(h, label), Send(h, m) \/ UNCHANGED sent
  PROVE  /\ pc'[h] = label
         /\ sent'[h] = m \/ sent'[h] = sent[h]
         /\ Send(h, m) => sent'[h] = m
         /\ \A k \in Handlers \ {h} : pc'[k] = pc[k] /\ sent'[k] = sent[k]
  BY DEF TypeOK, Goto, Send

LEMMA ProcessSteps ==
  ASSUME TypeOK, NEW h \in Handlers, Process(h)
  PROVE  \A k \in Handlers : HandlerStep(k)
<1> DEFINE Answered == /\ pc[h] \in {"dispatch", "report"}
                       /\ \E label \in {"read", "report", "remove"} : Goto(h, label)
                       /\ (\E m \in Answers : Send(h, m)) \/ UNCHANGED sent
           Refused == /\ pc[h] = "dispatch"
                      /\ Goto(h, "remove")
                      /\ \E m \in Refusals : Send(h, m)
<1>1. Answered \/ Refused
  <2>1. CASE ProcessSessionRequest(h)
    BY <2>1 DEF ProcessSessionRequest, Handling, NextRound, Answers
  <2>2. CASE ProcessMove(h)
    BY <2>2 DEF ProcessMove, Handling, Refuse, Refusals
  <2>3. CASE ReportEnd(h)
    BY <2>3 DEF ReportEnd, NextRound, Answers
  <2>4. CASE ProcessResign(h)
    BY <2>4 DEF ProcessResign, Handling, NextRound, Answers
  <2>5. CASE ProcessVerifyState(h)
    BY <2>5 DEF ProcessVerifyState, Handling, NextRound, Refuse, Refusals
  <2>6. CASE ProcessRequestGameState(h)
    BY <2>6 DEF ProcessRequestGameState, Handling, NextRound, Refuse, Answers, Refusals
  <2>7. CASE UnknownPid(h)
    BY <2>7 DEF UnknownPid, Handling, Refuse, Refusals
  <2> QED BY <2>1, <2>2, <2>3, <2>4, <2>5, <2>6, <2>7 DEF Process
<1>2. CASE Answered
  <2>1. PICK label \in {"read", "report", "remove"} : Goto(h, label)
    BY <1>2
  <2>2. PICK m \in Answers : Send(h, m) \/ UNCHANGED sent
    BY <1>2 DEF Answers
  <2> QED BY <1>2, <2>1, <2>2, OthersStand DEF HandlerStep
<1>3. CASE Refused
  <2>1. PICK m \in Refusals : Send(h, m)
    BY <1>3
  <2> QED BY <1>3, <2>1, OthersStand DEF HandlerStep
<1> QED BY <1>1, <1>2, <1>3

LEMMA NextSteps ==
  ASSUME TypeOK, [Next]_vars
  PROVE  \A k \in Handlers : HandlerStep(k)
<1>1. CASE UNCHANGED <<pc, sent>>
  BY <1>1 DEF HandlerStep
<1>2. ASSUME NEW f \in Fds, NEW h \in Handlers, Accept(f, h)
      PROVE  \A k \in Handlers : HandlerStep(k)
  <2>1. pc[h] = "none" /\ Goto(h, "greet") /\ UNCHANGED sent
    BY <1>2 DEF Accept
  <2> QED BY <2>1, OthersStand DEF HandlerStep
<1>3. ASSUME NEW h \in Handlers, GreetOk(h)
      PROVE  \A k \in Handlers : HandlerStep(k)
  <2>1. pc[h] = "greet" /\ Goto(h, "issue") /\ UNCHANGED sent
    BY <1>3 DEF GreetOk
  <2> QED BY <2>1, OthersStand DEF HandlerStep
<1>4. ASSUME NEW h \in Handlers, GreetFails(h)
      PROVE  \A k \in Handlers : HandlerStep(k)
  <2>1. pc[h] = "greet" /\ Goto(h, "remove") /\ (Send(h, "NotGreeted") \/ UNCHANGED sent)
    BY <1>4 DEF GreetFails
  <2> QED BY <2>1, OthersStand DEF HandlerStep
<1>5. ASSUME NEW h \in Handlers, IssueId(h)
      PROVE  \A k \in Handlers : HandlerStep(k)
  <2>1. pc[h] = "issue" /\ Goto(h, "register") /\ Send(h, "Welcome")
    BY <1>5 DEF IssueId
  <2> QED BY <2>1, OthersStand DEF HandlerStep
<1>6. ASSUME NEW h \in Handlers, AddClient(h)
      PROVE  \A k \in Handlers : HandlerStep(k)
  <2>1. /\ pc[h] = "register" /\ UNCHANGED sent
        /\ Goto(h, "read") \/ Goto(h, "remove")
    BY <1>6 DEF AddClient, NextRound
  <2> QED BY <2>1, OthersStand DEF HandlerStep
<1>7. ASSUME NEW h \in Handlers, Receive(h) \/ ReadFails(h)
      PROVE  \A k \in Handlers : HandlerStep(k)
  <2>1. /\ pc[h] \in {"read", "dispatch"} /\ UNCHANGED sent
        /\ Goto(h, "dispatch") \/ Goto(h, "remove")
    BY <1>7 DEF Receive, ReadFails, ReadsPayload
  <2> QED BY <2>1, OthersStand DEF HandlerStep
<1>8. ASSUME NEW h \in Handlers, Process(h)
      PROVE  \A k \in Handlers : HandlerStep(k)
  BY <1>8, ProcessSteps
<1>9. ASSUME NEW h \in Handlers, RemoveClient(h)
      PROVE  \A k \in Handlers : HandlerStep(k)
  <2>1. pc[h] = "remove" /\ Goto(h, "close") /\ UNCHANGED sent
    BY <1>9 DEF RemoveClient
  <2> QED BY <2>1, OthersStand DEF HandlerStep
<1>10. ASSUME NEW h \in Handlers, CloseFd(h)
       PROVE  \A k \in Handlers : HandlerStep(k)
  <2>1. pc[h] = "close" /\ Goto(h, "none") /\ Send(h, "none")
    BY <1>10 DEF CloseFd, Send
  <2> QED BY <2>1, OthersStand DEF HandlerStep
<1>11. ASSUME NEW h \in Handlers, Step(h) \/ Peer(h)
       PROVE  \A k \in Handlers : HandlerStep(k)
  <2>1. CASE SigPipe(h) \/ UseAfterDestroy(h)
    BY <1>1, <2>1 DEF SigPipe, UseAfterDestroy, threads
  <2> QED BY <1>3, <1>4, <1>5, <1>6, <1>7, <1>8, <1>9, <1>10, <1>11, <2>1 DEF Step, Peer
<1>12. CASE \/ UNCHANGED vars
            \/ Signal \/ StartFails \/ InstallHandlers \/ SetRunning \/ EnterLoop
            \/ MainExit \/ AcceptFails \/ LobbyCreate \/ (\E f \in Fds : HangUp(f))
            \/ \E h \in Handlers, s \in SM!SessionIds : LobbyJoin(h, s)
  BY <1>1, <1>12
     DEF vars, threads, Signal, StartFails, InstallHandlers, SetRunning, EnterLoop, MainExit,
         AcceptFails, LobbyCreate, HangUp, LobbyJoin
<1> QED BY <1>2, <1>11, <1>12 DEF Next

LEMMA InitWelcomed == Init => WelcomedFirst
  BY DEF Init, WelcomedFirst

LEMMA NextWelcomed == TypeOK /\ WelcomedFirst /\ [Next]_vars => WelcomedFirst'
<1> SUFFICES ASSUME TypeOK, WelcomedFirst, [Next]_vars, NEW h \in Handlers
             PROVE  /\ pc'[h] \in {"none", "greet", "issue"} => sent'[h] = "none"
                    /\ pc'[h] \in {"register", "read", "dispatch", "report"} =>
                         sent'[h] \notin Failures \cup {"none"}
  BY DEF WelcomedFirst
<1>1. HandlerStep(h)
  BY NextSteps
<1> QED BY <1>1 DEF WelcomedFirst, HandlerStep, Answers, Refusals, Failures

(* Whoever is served hears one Welcome first, and whoever is refused hears *)
(* nothing more, whatever the other handlers and the peers do meanwhile.   *)
THEOREM MessagesInOrder == Spec => ProtocolOrder
<1>1. TypeOK /\ WelcomedFirst /\ [Next]_vars =>
        [\A h \in Handlers : sent'[h] # sent[h] =>
           \/ pc'[h] = "none"
           \/ sent[h] = "none" /\ sent'[h] \in {"Welcome", "NotGreeted"}
           \/ sent[h] \notin Failures \cup {"none"} /\ sent'[h] \notin {"Welcome", "NotGreeted"}]_vars
  <2> SUFFICES ASSUME TypeOK, WelcomedFirst, [Next]_vars, NEW h \in Handlers, sent'[h] # sent[h]
               PROVE  \/ pc'[h] = "none"
                      \/ sent[h] = "none" /\ sent'[h] \in {"Welcome", "NotGreeted"}
                      \/ /\ sent[h] \notin Failures \cup {"none"}
                         /\ sent'[h] \notin {"Welcome", "NotGreeted"}
    OBVIOUS
  <2>1. HandlerStep(h)
    BY NextSteps
  <2> QED BY <2>1 DEF WelcomedFirst, HandlerStep, Answers, Refusals
<1> QED BY ServerTypeCorrect, InitWelcomed, NextWelcomed, <1>1, PTL DEF Spec, ProtocolOrder

-----------------------------------------------------------------------------
(* The sessions of the server are those of a manager whose callers are the *)
(* handlers.  What has to be shown is that nobody disconnects while in a   *)
(* session: only a registered handler is ever in one.                      *)
Unregistered == \A h \in Handlers : h \in live /\ sessionOf[h] # 0 =>
                  Registered(h) /\ sessionOf[h] \in DOMAIN sessions

Sessions ==
  /\ Unregistered
  /\ sessionOf \in [Handlers -> SM!SessionIds]
  /\ live \subseteq Handlers
  /\ namedWhite \subseteq live

LEMMA InitSessions == Init => Sessions
<1> SUFFICES ASSUME Init PROVE Sessions
  OBVIOUS
<1>1. live = {} /\ namedWhite = {} /\ sessionOf = [h \in Handlers |-> 0]
  BY DEF Init, SM!Init
<1>2. 0 \in SM!SessionIds
  BY ManagerAssumption DEF SM!SessionIds
<1> QED BY <1>1, <1>2 DEF Sessions, Unregistered

\* What the manager's methods do to the domain of the sessions and to the
\* memberships.
LEMMA LeaveEffect ==
  ASSUME Sessions, NEW h \in Handlers, SM!LeaveSession(h)
  PROVE  /\ DOMAIN sessions' = DOMAIN sessions
         /\ sessionOf' \in [Handlers -> SM!SessionIds]
         /\ \A k \in Handlers \ {h} : sessionOf'[k] = sessionOf[k]
         /\ Unregistered /\ h \in live => sessionOf'[h] = 0
         /\ UNCHANGED <<live, namedWhite>>
<1>1. 0 \in SM!SessionIds
  BY ManagerAssumption DEF SM!SessionIds
<1> QED BY <1>1 DEF SM!LeaveSession, SM!Leave, SM!InSession, SM!Exists, Sessions, Unregistered

(* Every step of the server is a step of the manager, or none, and keeps   *)
(* the members registered.                                                 *)
Maps == [SM!Next]_SM!vars

LEMMA UnchangedManager ==
  ASSUME Inv, Sessions, UNCHANGED manager,
         \A h \in Handlers : Registered(h) => Registered(h)'
  PROVE  Maps /\ Sessions'
<1>1. UNCHANGED <<sessions, nextSessionId, sessionOf, gameOf, live, namedWhite>>
  BY DEF manager
<1>2. Maps
  BY <1>1 DEF Maps, SM!vars
<1>3. Sessions'
  BY <1>1 DEF Sessions, Unregistered
<1> QED BY <1>2, <1>3

LEMMA GreetOkMaps ==
  ASSUME Inv, Sessions, NEW h \in Handlers, GreetOk(h)
  PROVE  Maps /\ Sessions'
<1>1. SM!Connect(h) /\ UNCHANGED <<fdOf, clientsByFd>>
  BY DEF GreetOk, registry
<1>2. Maps
  BY <1>1 DEF Maps, SM!Next
<1>3. 0 \in SM!SessionIds
  BY ManagerAssumption DEF SM!SessionIds
<1>4. Sessions'
  BY <1>1, <1>3 DEF SM!Connect, Sessions, Unregistered, Registered
<1> QED BY <1>2, <1>4

LEMMA LobbyMaps ==
  ASSUME Inv, Sessions,
         LobbyCreate \/ \E h \in Handlers, s \in SM!SessionIds : LobbyJoin(h, s)
  PROVE  Maps /\ Sessions'
<1>1. UNCHANGED <<fdOf, clientsByFd>>
  BY DEF LobbyCreate, LobbyJoin, registry, threads
<1>2. CASE LobbyCreate
  <2>1. SM!CreateSession
    BY <1>2 DEF LobbyCreate
  <2>2. Maps
    BY <2>1 DEF Maps, SM!Next
  <2>3. Sessions'
    BY <2>1, <1>1 DEF SM!CreateSession, SM!PutSession, Sessions, Unregistered, Registered
  <2> QED BY <2>2, <2>3
<1>3. ASSUME NEW h \in Handlers, NEW s \in SM!SessionIds, LobbyJoin(h, s)
      PROVE  Maps /\ Sessions'
  <2>1. SM!JoinSession(h, s)
    BY <1>3 DEF LobbyJoin
  <2>2. Registered(h)
    BY <1>3 DEF LobbyJoin, Inv, RegistryExact, Registered
  <2>3. Maps
    BY <2>1 DEF Maps, SM!Next
  <2>4. Sessions'
    BY <1>1, <2>1, <2>2 DEF SM!JoinSession, SM!Exists, Sessions, Unregistered, Registered
  <2> QED BY <2>3, <2>4
<1> QED BY <1>2, <1>3

LEMMA ProcessMaps ==
  ASSUME Inv, Sessions, NEW h \in Handlers, Process(h)
  PROVE  Maps /\ Sessions'
<1>1. UNCHANGED <<fdOf, clientsByFd>>
  BY DEF Process, registry
<1>2. CASE UNCHANGED manager
  BY <1>1, <1>2, UnchangedManager DEF Registered
<1>3. CASE SM!ApplyMove(h) \/ SM!HandleResign(h)
  <2>1. Maps
    BY <1>3 DEF Maps, SM!Next
  <2>2. DOMAIN sessions' = DOMAIN sessions /\ UNCHANGED <<sessionOf, live, namedWhite>>
    BY <1>3 DEF SM!ApplyMove, SM!HandleResign
  <2>3. Sessions'
    BY <1>1, <2>2 DEF Sessions, Unregistered, Registered
  <2> QED BY <2>1, <2>3
<1>4. UNCHANGED manager \/ SM!ApplyMove(h) \/ SM!HandleResign(h)
  BY DEF Process, ProcessSessionRequest, ProcessMove, ReportEnd, ProcessResign,
         ProcessVerifyState, ProcessRequestGameState, UnknownPid, Refuse
<1> QED BY <1>2, <1>3, <1>4

LEMMA RemoveClientMaps ==
  ASSUME Inv, Sessions, NEW h \in Handlers, RemoveClient(h)
  PROVE  Maps /\ Sessions'
<1>1. pc[h] = "remove" /\ UNCHANGED fdOf
  BY DEF RemoveClient
<1>2. \A f \in DOMAIN clientsByFd : f = fdOf[h] <=> clientsByFd[f] = h
  BY <1>1 DEF Inv, TypeOK, DescriptorsOwned, RegistryExact, Serving
<1>3. CASE fdOf[h] \notin DOMAIN clientsByFd
  BY <1>1, <1>3, UnchangedManager DEF RemoveClient, registry, Registered
<1>4. CASE fdOf[h] \in DOMAIN clientsByFd
  <2>1. SM!LeaveSession(h) /\ clientsByFd' = Erase(clientsByFd, fdOf[h])
    BY <1>2, <1>4 DEF RemoveClient
  <2>2. Maps
    BY <2>1 DEF Maps, SM!Next
  <2>3. \A k \in Handlers \ {h} : Registered(k) => Registered(k)'
    BY <1>1, <1>2, <1>4, <2>1 DEF Registered, Erase
  <2>4. h \in live
    BY <2>1 DEF SM!LeaveSession
  <2>5. Sessions'
    BY <2>1, <2>3, <2>4, LeaveEffect DEF Sessions, Unregistered
  <2> QED BY <2>2, <2>5
<1> QED BY <1>3, <1>4

LEMMA CloseFdMaps ==
  ASSUME Inv, Sessions, NEW h \in Handlers, CloseFd(h)
  PROVE  Maps /\ Sessions'
<1>1. /\ pc[h] = "close" /\ live' = live \ {h} /\ namedWhite' = namedWhite \ {h}
      /\ UNCHANGED <<sessions, nextSessionId, sessionOf, gameOf, clientsByFd>>
      /\ \A k \in Handlers \ {h} : fdOf'[k] = fdOf[k]
  BY DEF CloseFd, registry, Inv, TypeOK
<1>2. ~Registered(h)
  BY <1>1 DEF Inv, RegistryExact, Registered, Serving
<1>3. Sessions'
  BY <1>1 DEF Sessions, Unregistered, Registered
<1>4. CASE h \in live
  <2>1. sessionOf[h] = 0
    BY <1>2, <1>4 DEF Sessions, Unregistered
  <2>2. SM!Disconnect(h)
    BY <1>1, <1>4, <2>1 DEF SM!Disconnect, SM!Leave, SM!InSession
  <2> QED BY <2>2, <1>3 DEF Maps, SM!Next
<1>5. CASE h \notin live
  <2>1. live' = live /\ namedWhite' = namedWhite
    BY <1>1, <1>5 DEF Sessions
  <2> QED BY <1>1, <2>1, <1>3 DEF Maps, SM!vars
<1> QED BY <1>4, <1>5

LEMMA StepMaps ==
  ASSUME Inv, Sessions, NEW h \in Handlers, Step(h) \/ Peer(h)
  PROVE  Maps /\ Sessions'
<1>1. CASE \/ IssueId(h) \/ GreetFails(h) \/ Receive(h) \/ ReadFails(h)
           \/ SigPipe(h) \/ UseAfterDestroy(h)
  <2>1. UNCHANGED manager /\ UNCHANGED <<fdOf, clientsByFd>>
    BY <1>1 DEF IssueId, GreetFails, Receive, ReadFails, SigPipe, UseAfterDestroy, registry,
                threads
  <2> QED BY <2>1, UnchangedManager DEF Registered
<1>2. CASE AddClient(h)
  <2>1. pc[h] = "register" /\ UNCHANGED manager /\ UNCHANGED fdOf
    BY <1>2 DEF AddClient
  <2>2. clientsByFd' = Put(clientsByFd, fdOf[h], h)
    BY <1>2 DEF AddClient
  <2>3. \A k \in Handlers : Registered(k) => Registered(k)'
    <3>1. \A k \in Handlers : Registered(k) => k = h \/ fdOf[k] # fdOf[h]
      BY <2>1 DEF Inv, TypeOK, DescriptorsOwned, RegistryExact, Registered, Serving
    <3> QED BY <3>1, <2>1, <2>2 DEF Registered, Put
  <2> QED BY <2>1, <2>3, UnchangedManager
<1> QED BY <1>1, <1>2, GreetOkMaps, ProcessMaps, RemoveClientMaps, CloseFdMaps DEF Step, Peer

LEMMA NextMaps == Inv /\ Sessions /\ [Next]_vars => Maps /\ Sessions'
<1> SUFFICES ASSUME Inv, Sessions, [Next]_vars PROVE Maps /\ Sessions'
  OBVIOUS
<1>1. CASE \/ UNCHANGED vars
           \/ Signal \/ StartFails \/ InstallHandlers \/ SetRunning \/ EnterLoop
           \/ MainExit \/ AcceptFails \/ \E f \in Fds : HangUp(f)
  <2>1. UNCHANGED manager /\ UNCHANGED <<fdOf, clientsByFd>>
    BY <1>1 DEF vars, registry, threads, Signal, StartFails, InstallHandlers, SetRunning,
                EnterLoop, MainExit, AcceptFails, HangUp
  <2> QED BY <2>1, UnchangedManager DEF Registered
<1>2. ASSUME NEW f \in Fds, NEW h \in Handlers, Accept(f, h)
      PROVE  Maps /\ Sessions'
  <2>1. pc[h] = "none" /\ UNCHANGED manager /\ UNCHANGED clientsByFd
    BY <1>2 DEF Accept, registry
  <2>2. \A k \in Handlers : k # h => fdOf'[k] = fdOf[k]
    BY <1>2 DEF Accept, Inv, TypeOK
  <2>3. ~Registered(h)
    BY <2>1 DEF Inv, RegistryExact, Registered, Serving
  <2> QED BY <2>1, <2>2, <2>3, UnchangedManager DEF Registered
<1>3. CASE \E h \in Handlers : Step(h) \/ Peer(h)
  BY <1>3, StepMaps
<1> QED BY <1>1, <1>2, <1>3, LobbyMaps DEF Next

(* The server implements the session manager: whatever the interleaving of *)
(* its handlers, the sessions go through the steps of a manager that one   *)
(* thread calls, and no handler disconnects while it is in a session.      *)
THEOREM ServerImplementsSessions == Spec => SessionsSpec
<1>1. Init => SM!Init
  BY DEF Init
<1> QED BY <1>1, InitInv, InitSessions, NextInv, NextMaps, PTL DEF Spec, SessionsSpec, SM!Spec, Maps

(* So everything proved of the manager holds of the server, among it that  *)
(* a seat is always that of a handler being served.                        *)
MP == INSTANCE SessionManagerProofs WITH Clients <- Handlers, RejoinAllowed <- FALSE

(* The instance and the manager of Server are the same specification.      *)
LEMMA SameManager == SM!Spec => MP!Spec
<1>1. SM!Init => MP!Init
  BY DEF SM!Init, MP!Init, SM!NoSessions, MP!NoSessions, SM!NoGame, MP!NoGame
<1>2. ASSUME NEW h \in Handlers
      PROVE  SM!Leave(h) => MP!Leave(h)
  <2>1. ASSUME NEW sess
        PROVE  SM!AfterLeave(sess, h) = MP!AfterLeave(sess, h)
    BY DEF SM!AfterLeave, MP!AfterLeave, SM!Without, MP!Without, SM!Ended, MP!Ended,
           SM!SetStatus, MP!SetStatus, SM!StatusesWonBy, MP!StatusesWonBy, SM!Active, MP!Active,
           SM!Finished, MP!Finished
  <2> QED BY <2>1 DEF SM!Leave, MP!Leave, SM!InSession, MP!InSession, SM!Exists, MP!Exists,
                     SM!NoGame, MP!NoGame
<1>3. ASSUME NEW h \in Handlers
      PROVE  /\ SM!Connect(h) => MP!Connect(h)
             /\ \A s \in SM!SessionIds : SM!JoinSession(h, s) => MP!JoinSession(h, s)
             /\ SM!LeaveSession(h) => MP!LeaveSession(h)
             /\ SM!Disconnect(h) => MP!Disconnect(h)
             /\ SM!ApplyMove(h) => MP!ApplyMove(h)
             /\ SM!HandleResign(h) => MP!HandleResign(h)
  <2>1. SM!Connect(h) => MP!Connect(h)
    BY DEF SM!Connect, MP!Connect, SM!NoGame, MP!NoGame
  <2>2. \A s \in SM!SessionIds : SM!JoinSession(h, s) => MP!JoinSession(h, s)
    BY DEF SM!JoinSession, MP!JoinSession, SM!MayJoin, MP!MayJoin, SM!Exists, MP!Exists,
           SM!Waiting, MP!Waiting, SM!Active, MP!Active, SM!Seat, MP!Seat, SM!NewGame,
           MP!NewGame
  <2>3. /\ SM!LeaveSession(h) => MP!LeaveSession(h)
        /\ SM!Disconnect(h) => MP!Disconnect(h)
    BY <1>2 DEF SM!LeaveSession, MP!LeaveSession, SM!Disconnect, MP!Disconnect
  <2>4. SM!ApplyMove(h) => MP!ApplyMove(h)
    BY DEF SM!ApplyMove, MP!ApplyMove, SM!InPlay, MP!InPlay, SM!InSession, MP!InSession,
           SM!Exists, MP!Exists, SM!Active, MP!Active, SM!Finished, MP!Finished,
           SM!GamesAfterMove, MP!GamesAfterMove, SM!StatusOf, MP!StatusOf, SM!GameEnds,
           MP!GameEnds, SM!Opponent, MP!Opponent
  <2>5. SM!HandleResign(h) => MP!HandleResign(h)
    BY DEF SM!HandleResign, MP!HandleResign, SM!InPlay, MP!InPlay, SM!InSession, MP!InSession,
           SM!Exists, MP!Exists, SM!Active, MP!Active, SM!Finished, MP!Finished, SM!SetStatus,
           MP!SetStatus, SM!StatusResignedBy, MP!StatusResignedBy
  <2> QED BY <2>1, <2>2, <2>3, <2>4, <2>5
<1>4. [SM!Next]_SM!vars => [MP!Next]_MP!vars
  <2>1. SM!CreateSession => MP!CreateSession
    BY DEF SM!CreateSession, MP!CreateSession, SM!PutSession, MP!PutSession, SM!NewSession,
           MP!NewSession, SM!NewGame, MP!NewGame, SM!Waiting, MP!Waiting
  <2>2. \A s \in SM!SessionIds : SM!EndSession(s) => MP!EndSession(s)
    BY DEF SM!EndSession, MP!EndSession, SM!Exists, MP!Exists, SM!Ended, MP!Ended, SM!Finished,
           MP!Finished
  <2>3. SM!SessionIds = MP!SessionIds
    BY DEF SM!SessionIds, MP!SessionIds
  <2>4. SM!Next => MP!Next
    BY <1>3, <2>1, <2>2, <2>3 DEF SM!Next, MP!Next
  <2> QED BY <2>4 DEF SM!vars, MP!vars
<1> QED BY <1>1, <1>4, PTL DEF SM!Spec, MP!Spec

(* Whoever holds a seat is a client being served that knows of it: no match*)
(* keeps a pointer to the stack of a handler that has gone.                *)
THEOREM SeatsAreServed ==
  ASSUME 0 \notin Creatable
  PROVE  Spec => []SeatedAreServed
<1>1. IdMod \in Nat /\ IdMod >= 2 /\ Creatable \subseteq 0..(IdMod - 1) /\ FALSE \in BOOLEAN
  BY ManagerAssumption
<1>2. MP!Spec => []MP!SeatedIsMember
  BY <1>1, MP!SeatsAreMembers
<1>3. MP!Spec => []MP!Sound
  BY <1>1, MP!SoundHolds
<1>4. MP!SeatedIsMember /\ MP!Sound /\ Inv /\ Sessions => SeatedAreServed
  <2> SUFFICES ASSUME MP!SeatedIsMember, MP!Sound, Inv, Sessions,
                      NEW s \in DOMAIN sessions, NEW h \in SM!Seats(sessions[s])
               PROVE  pc[h] \in Serving /\ sessionOf[h] = s
    BY DEF SeatedAreServed
  <2>1. h \in live /\ sessionOf[h] = s
    BY DEF MP!SeatedIsMember, MP!Seats, SM!Seats
  <2>2. h \in Handlers /\ s # 0
    BY <2>1 DEF Sessions, MP!Sound
  <2>3. Registered(h)
    BY <2>1, <2>2 DEF Sessions, Unregistered
  <2> QED BY <2>1, <2>3 DEF Inv, RegistryExact, Registered
<1> QED BY ServerImplementsSessions, SameManager, <1>2, <1>3, <1>4, InitInv, InitSessions,
           NextInv, NextMaps, PTL DEF Spec, SessionsSpec

\* Only the client that makes a move or leaves has its game pointer changed,
\* and the handler between applyMove and the report does neither.
LEMMA ReportingKeepsGame ==
  ASSUME Inv, Sessions, [Next]_vars, NEW h \in Handlers, pc[h] = "report", pc'[h] = "report",
         gameOf \in [Handlers -> SM!SessionIds \cup {SM!NoGame}]
  PROVE  gameOf'[h] = gameOf[h]
<1>1. CASE UNCHANGED gameOf
  BY <1>1
<1>2. ASSUME NEW k \in Handlers, ProcessMove(k), ~UNCHANGED gameOf
      PROVE  gameOf'[h] = gameOf[h]
  BY <1>2 DEF ProcessMove, Handling, Refuse, manager, SM!ApplyMove
<1>3. ASSUME NEW k \in Handlers, GreetOk(k)
      PROVE  gameOf'[h] = gameOf[h]
  BY <1>3 DEF GreetOk, SM!Connect
<1>4. ASSUME NEW k \in Handlers, RemoveClient(k)
      PROVE  gameOf'[h] = gameOf[h]
  <2>1. pc[k] = "remove"
    BY <1>4 DEF RemoveClient
  <2>2. fdOf[k] \in DOMAIN clientsByFd => clientsByFd[fdOf[k]] = k
    BY <2>1 DEF Inv, TypeOK, DescriptorsOwned, RegistryExact, Serving
  <2>3. UNCHANGED manager \/ SM!LeaveSession(k)
    BY <1>4, <2>2 DEF RemoveClient
  <2> QED BY <2>1, <2>3 DEF manager, SM!LeaveSession, SM!Leave
<1>5. ASSUME NEW k \in Handlers, Process(k), ~ProcessMove(k)
      PROVE  UNCHANGED gameOf
  BY <1>5 DEF Process, ProcessSessionRequest, ReportEnd, ProcessResign, ProcessVerifyState,
              ProcessRequestGameState, UnknownPid, Refuse, manager, SM!HandleResign
<1>6. ASSUME NEW k \in Handlers, Step(k) \/ Peer(k)
      PROVE  gameOf'[h] = gameOf[h]
  <2>1. CASE \/ IssueId(k) \/ AddClient(k) \/ GreetFails(k) \/ Receive(k) \/ ReadFails(k)
             \/ CloseFd(k) \/ SigPipe(k) \/ UseAfterDestroy(k)
    BY <2>1 DEF IssueId, AddClient, GreetFails, Receive, ReadFails, CloseFd, SigPipe,
                UseAfterDestroy, manager
  <2>2. CASE Process(k)
    BY <1>1, <1>2, <1>5, <2>2
  <2> QED BY <1>3, <1>4, <1>6, <2>1, <2>2 DEF Step, Peer
<1>7. CASE \/ UNCHANGED vars
           \/ Signal \/ StartFails \/ InstallHandlers \/ SetRunning \/ EnterLoop
           \/ MainExit \/ AcceptFails \/ LobbyCreate \/ (\E f \in Fds : HangUp(f))
           \/ (\E k \in Handlers, s \in SM!SessionIds : LobbyJoin(k, s))
           \/ (\E f \in Fds, k \in Handlers : Accept(f, k))
  BY <1>7
     DEF vars, manager, Signal, StartFails, InstallHandlers, SetRunning, EnterLoop, MainExit,
         AcceptFails, LobbyCreate, HangUp, LobbyJoin, Accept, SM!CreateSession, SM!JoinSession
<1> QED BY <1>6, <1>7 DEF Next

\* The report is left by reporting.
LEMMA ReportEnds ==
  ASSUME TypeOK, [Next]_vars, NEW h \in Handlers, pc[h] = "report", pc'[h] # "report"
  PROVE  ReportEnd(h)
<1>1. ~UNCHANGED pc
  OBVIOUS
<1>2. \A k \in Handlers : (\E label : Goto(k, label)) => k = h
  BY DEF Goto, TypeOK
<1>3. ASSUME NEW k \in Handlers, Process(k)
      PROVE  ReportEnd(h)
  <2>1. \E label : Goto(k, label)
    BY <1>3 DEF Process, ProcessSessionRequest, ProcessMove, ReportEnd, ProcessResign,
                ProcessVerifyState, ProcessRequestGameState, UnknownPid, Refuse, NextRound
  <2>2. k = h
    BY <1>2, <2>1
  <2> QED BY <1>3, <2>2 DEF Process, ProcessSessionRequest, ProcessMove, ProcessResign,
            ProcessVerifyState, ProcessRequestGameState, UnknownPid, Handling
<1>4. ASSUME NEW k \in Handlers, Step(k) \/ Peer(k)
      PROVE  ReportEnd(h)
  <2>1. CASE \/ IssueId(k) \/ AddClient(k) \/ GreetOk(k) \/ GreetFails(k) \/ Receive(k)
             \/ ReadFails(k) \/ RemoveClient(k) \/ CloseFd(k)
    <3>1. (\E label : Goto(k, label)) /\ pc[k] # "report"
      BY <2>1 DEF IssueId, AddClient, GreetOk, GreetFails, Receive, ReadFails, RemoveClient,
                  CloseFd, ReadsPayload, NextRound
    <3> QED BY <1>2, <3>1
  <2>2. CASE SigPipe(k) \/ UseAfterDestroy(k)
    BY <1>1, <2>2 DEF SigPipe, UseAfterDestroy, threads
  <2> QED BY <1>3, <1>4, <2>1, <2>2 DEF Step, Peer
<1>5. ASSUME NEW f \in Fds, NEW k \in Handlers, Accept(f, k)
      PROVE  ReportEnd(h)
  <2>1. Goto(k, "greet") /\ pc[k] = "none"
    BY <1>5 DEF Accept
  <2> QED BY <1>2, <2>1
<1>6. CASE \/ UNCHANGED vars
           \/ Signal \/ StartFails \/ InstallHandlers \/ SetRunning \/ EnterLoop
           \/ MainExit \/ AcceptFails \/ LobbyCreate \/ (\E f \in Fds : HangUp(f))
           \/ \E k \in Handlers, s \in SM!SessionIds : LobbyJoin(k, s)
  BY <1>1, <1>6
     DEF vars, threads, Signal, StartFails, InstallHandlers, SetRunning, EnterLoop, MainExit,
         AcceptFails, LobbyCreate, HangUp, LobbyJoin
<1> QED BY <1>4, <1>5, <1>6 DEF Next

\* What the mover finds over is over: a decided game is that of a finished
\* session, which every step of the manager leaves as it is.
OverStays ==
  \A s \in DOMAIN sessions :
    sessions[s].game.status # "Ongoing" => sessions'[s].game = sessions[s].game

LEMMA NextReports ==
  ASSUME Inv, Sessions, [Next]_vars, OverStays, MP!GamePointerFresh,
         gameOf \in [Handlers -> SM!SessionIds \cup {SM!NoGame}],
         NEW h \in Handlers, pc[h] = "report", GameOver(gameOf[h])
  PROVE  \/ pc'[h] \in {"read", "remove"} /\ sent'[h] = "GameOver"
         \/ /\ pc'[h] = "report"
            /\ gameOf'[h] = gameOf[h]
            /\ sessions'[gameOf[h]].game = sessions[gameOf[h]].game
<1>1. CASE pc'[h] = "report"
  <2>1. gameOf'[h] = gameOf[h]
    BY <1>1, ReportingKeepsGame
  <2>2. gameOf[h] \in DOMAIN sessions
    BY DEF GameOver, MP!GamePointerFresh, MP!Exists, SM!NoGame, MP!NoGame
  <2>3. sessions'[gameOf[h]].game = sessions[gameOf[h]].game
    BY <2>2 DEF OverStays, GameOver
  <2> QED BY <1>1, <2>1, <2>3
<1>2. CASE pc'[h] # "report"
  <2>1. ReportEnd(h)
    BY <1>2, ReportEnds DEF Inv
  <2>2. Send(h, "GameOver") /\ (Goto(h, "read") \/ Goto(h, "remove"))
    BY <2>1 DEF ReportEnd, NextRound
  <2> QED BY <2>2, OthersStand DEF Inv
<1> QED BY <1>1, <1>2

(* A mover is told of the end it finds, with the result its match has,     *)
(* however many handlers act on the match meanwhile.                       *)
THEOREM EndsAreReported ==
  ASSUME 0 \notin Creatable
  PROVE  Spec => EndIsReported
<1>1. IdMod \in Nat /\ IdMod >= 2 /\ Creatable \subseteq 0..(IdMod - 1) /\ FALSE \in BOOLEAN
  BY ManagerAssumption
<1>2. MP!Spec => []MP!GamePointerFresh
  BY <1>1, MP!GamePointersFresh
<1>3. MP!Spec => []MP!Sound
  BY <1>1, MP!SoundHolds
<1>4. MP!Spec => []MP!MatchConsistent
  BY <1>1, MP!MatchesConsistent
<1> DEFINE Reported ==
             \A h \in Handlers : pc[h] = "report" /\ GameOver(gameOf[h]) =>
               \/ pc'[h] \in {"read", "remove"} /\ sent'[h] = "GameOver"
               \/ /\ pc'[h] = "report"
                  /\ gameOf'[h] = gameOf[h]
                  /\ sessions'[gameOf[h]].game = sessions[gameOf[h]].game
<1>5. MP!Sound /\ MP!MatchConsistent /\ [MP!Next]_(MP!vars) => OverStays
  <2> SUFFICES ASSUME MP!Sound, MP!MatchConsistent, [MP!Next]_(MP!vars),
                      NEW s \in DOMAIN sessions, sessions[s].game.status # "Ongoing"
               PROVE  sessions'[s].game = sessions[s].game
    BY DEF OverStays
  <2>1. sessions[s].state = MP!Finished
    BY DEF MP!MatchConsistent, MP!Consistent
  <2>2. MP!SessionSafe(s)
    BY <1>1, MP!NextSafe DEF MP!Sound
  <2> QED BY <2>1, <2>2 DEF MP!SessionSafe
<1>6. /\ Inv /\ Sessions /\ [Next]_vars /\ [MP!Next]_(MP!vars)
      /\ MP!Sound /\ MP!MatchConsistent /\ MP!GamePointerFresh
      => [Reported]_vars
  <2>1. MP!Sound => gameOf \in [Handlers -> SM!SessionIds \cup {SM!NoGame}]
    BY DEF MP!Sound, MP!TypeOK, MP!SessionIds, SM!SessionIds, MP!NoGame, SM!NoGame
  <2> QED BY <1>5, <2>1, NextReports DEF Reported
<1>7. MP!Spec => [][MP!Next]_(MP!vars)
  BY PTL DEF MP!Spec
<1>8. Spec => [][Reported]_vars
  BY ServerImplementsSessions, SameManager, <1>2, <1>3, <1>4, <1>6, <1>7, InitInv, InitSessions,
     NextInv, NextMaps, PTL DEF Spec, SessionsSpec
<1> QED BY <1>8 DEF EndIsReported, Reported

(* Every match that the handlers of a server play, in whatever order they  *)
(* take their steps, goes through the life of a match, and once finished   *)
(* it is neither reopened nor decided again.                               *)
THEOREM ServerRunsMatches ==
  ASSUME 0 \notin Creatable
  PROVE  Spec => MP!MatchSpec /\ MP!ResultIsFinal
<1>1. IdMod \in Nat /\ IdMod >= 2 /\ Creatable \subseteq 0..(IdMod - 1) /\ FALSE \in BOOLEAN
  BY ManagerAssumption
<1>2. MP!Spec => MP!MatchSpec
  BY <1>1, MP!MatchesImplementLifecycle
<1>3. MP!Spec => MP!ResultIsFinal
  BY <1>1, MP!ResultFinal
<1> QED BY ServerImplementsSessions, SameManager, <1>2, <1>3, PTL DEF SessionsSpec
=============================================================================
