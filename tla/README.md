# Chess battle server: specifications and proofs

TLA+ models of the chess battle server in `src/` (C++20, POSIX sockets, one
thread per client), the TLC runs that check them and the TLAPS proofs about
them. Paths below are relative to `src/ChessJam/`.

## 1. The system

| Part | Code | State it keeps | Operations |
|---|---|---|---|
| Sessions and matches | `Session/SessionManager.{h,cpp}`, `Session/ClientContext.h` | `sessions_`, `nextSessionId_`; per client `sessionId`, `game` | `createSession`, `joinSession`, `leaveSession`, `endSession`, `applyMove`, `handleResign`, `verifyGameState`, `listSessions`, `getGame` |
| Client registry | the same class | `clientsByFd_`, `clientsById_` | `addClient`, `removeClient`, `findClient`, `findClientById` |
| Connections | `Server.cpp` | `gRunning`, the static `nextId`, per handler thread a `ClientContext` and a descriptor | `start` (accept loop), `handleClient` (handshake, message loop, cleanup), five `process*` handlers |
| Process lifetime | `Main.cpp`, `signalHandler` | the `Server` on `main`'s stack | signal, return of `start`, destructor, exit |
| Game | `Engine/Game.h` | board, status, move count and history | `reset`, `makeMove`, `getPawnState`, `getFen` |
| Rules | `Engine/Board.h`, `Engine/Rules.{h,cpp}` | none (pure) | move generation, legality, attack and end detection |
| FEN | `Engine/FenParser.{h,cpp}` | none (pure) | `parse`, `generate` |
| Wire format | `Network/BinaryIO.h`, `Protocol/*.h` | none | reading and writing integers, strings and arrays |
| Test client | `Client/*` | its socket | a fixed script: greet, inquire, move, ask for the state, verify, resign |
| Command line | `CommandLineInput`, `ExecutionMode`, `StringHelper` | the chosen mode and address | parsing |

How they interact. `main` puts a `Server` on its stack and calls `start`, which
accepts connections and gives each a detached thread running `handleClient`.
All threads call the one `SessionManager` in the `Server`; it has no lock. A
session keeps raw pointers to the `ClientContext`s of its players, which live
on the stacks of those threads; a context keeps the id of its session and, once
its client has moved, a raw pointer to the session's `Game`. A `Game` asks
`Rules` whether a move is legal and, after it, whether the game has ended.
Nothing outside `SessionManager.cpp` calls `createSession` or `joinSession` yet
(the protocol has no message for either): the session operations are an API
without a caller, and the models say where they assume one.

What is hard: unsynchronised threads around shared maps; pointers to stacks;
the order of the clean-up against the kernel's reuse of descriptors; facts kept
in two fields (`Game::status` and `Session::state`; `Session::players` and
`ClientContext::sessionId`); moves, resignations and departures that race to
decide a match; hang-ups and signals at any point; 16-bit counters; two sides
that both wait for the other. `PROJECT.json` lists these hazards line by line.

What makes each part correct: a match is started by its second player, decided
once, and final; seats and memberships agree and die with the connection; the
registry holds exactly the clients being served; a descriptor has one owner; a
refused client is closed and a vanished one released; a move is accepted exactly
if the rules of chess allow it, and the result names the right winner; what is
written is what is read.

## 2. Modules

Which module uses which:

    Outcome <- SessionManager <- Server <----- Conversation -> TestClient -> Wire
       ^            |  (INSTANCE)      (INSTANCE)    |
       |            v                                v
       |      MatchLifecycle (refined)            Locators
       +---- Board <- Rules, Fen, Locators, Chess <- Game   (Chess: an independent definition)

and the proofs: `SessionManagerProofs`, `ServerProofs`, `GameProofs`,
`ConversationProofs` about the state machines of those names; `RulesProofs`,
`LocatorsProofs`, `FenProofs` about the functions that `Game` is built from;
`Induction`, which the last two and `ConversationProofs` need.

### `SessionManager` - the match bookkeeping

One action per state-changing method; a rejected call (early return) changes
nothing and is the action's guard.

| Code | Model |
|---|---|
| `sessions_` (entries are never erased) | `sessions`, a function on the ids in use |
| `nextSessionId_`, `uint16_t` | `nextSessionId`, modulo `IdMod` |
| `ClientContext::sessionId`, `game` | `sessionOf`, `gameOf` (the session whose `Game` is pointed to) |
| lifetime of a context on its thread's stack | `live`; a client is an address and is reused |
| `name == "White"` | `namedWhite` |
| `Session::players`, `state`, `game` | the fields of a `Session` record; of the game, its status and side to move |
| `createSession` / `joinSession` / `leaveSession` / `endSession` / `applyMove` / `handleResign` | `CreateSession` / `JoinSession` / `LeaveSession` / `EndSession` / `ApplyMove` / `HandleResign` |
| construction and destruction of a context in `handleClient` | `Connect`, `Disconnect` |

Abstracted: whether a move is legal and what `checkGameEnd` returns after it are
choices (`GamesAfterMove` of module `Outcome`), mapped to a status as
`Game::makeMove` maps them. `leaveSession` decides the winner by name; a read of
a destroyed context's name may give anything (`StatusesWonBy`). Session names
are left out, and so is the id that `createSession` returns.

Constants: `Clients`; `IdMod` (2^16 in the code); `Creatable`, the counter
values at which a caller creates a session, which bounds the runs and, when it
leaves out 0, states that ids do not wrap; `RejoinAllowed`, whether the missing
caller of `joinSession` lets a client join while it is in a session, which
`joinSession` itself does not check.

### `MatchLifecycle` - what a match promises

The abstract specification: per match a phase, a number of seats and a result,
with no word of clients or pointers. Opened once; played from its second seat;
decided at most once and only while played; never reopened. `SessionManager`
implements it under the mapping `Match` (property `MatchSpec`).

### `Outcome` - a game seen from outside its board

What `SessionManager` takes a move to do to a game: the turn passes and the
status is one that `makeMove` can give. `PlaysInTurn` says that the engine of
module `Game` keeps to it, so that the two halves of the project meet; it is
proved for every board.

### `Server` - connections, threads, registry, process

A handler thread is identified with the `ClientContext` on its stack. `pc`
follows `handleClient` through `greet`, `issue`, `register`, `read`,
`dispatch`, `report`, `remove`, `close`. One step is one call of the manager,
one message, or one access to shared memory outside the manager, so that
handlers interleave wherever the code lets them: between the load and the store
of `nextId++` (`GreetOk`, `IssueId`), between reading a request and handling it
(`Receive`, `Process`), between `applyMove` and the second look at the game
(`ProcessMove`, `ReportEnd`), between `removeClient` and `close`. The sessions
are those of `SessionManager`, taken with `INSTANCE`: handlers call its actions.

| Code | Model |
|---|---|
| `start`: set-up, signal handlers, `gRunning = true`, accept loop; `Server` destroyed when `start` returns; exit | `mainPc`: `start`, `armed`, `loop`, `accept`, `destroyed`, `exited` (`killed`: by a signal or a crash) |
| set-up that fails, then each step of the start | `StartFails`, `InstallHandlers`, `SetRunning`, `EnterLoop` |
| `gRunning`, `signalHandler` | `gRunning`, `Signal` |
| `clientsByFd_`, `clientsById_`, `nextId` | the variables of those names |
| sockets | `conns`: a descriptor is free, open, or hung up by the peer |
| the message being handled, the last message sent | `received`, `sent` |
| `addClient`, `removeClient` + `close` | `AddClient`, `RemoveClient`, `CloseFd` |
| the `process*` handlers, an unknown PID | the actions of those names, `UnknownPid` |
| read failing at any point; write to a closed peer | `ReadFails`, `SigPipe` (nothing handles SIGPIPE) |
| a manager call after the destruction | `UseAfterDestroy`: it does not survive, or, the other actions, finds the old memory |

Abstracted: messages are tags; a request is chosen from `PeerRequests`; a move
or a verification succeeds or fails by choice. `LobbyCreate` and `LobbyJoin`
stand for the caller that the session operations do not have; they are disabled
with `Lobby = FALSE`, which is the program as it is, and enabled where a
property needs sessions. A call of the manager is atomic in the model although
it is a data race in the code: `NoDataRace` is the run that says so, and the
other runs say what holds if every call were made under a lock.

### `Board`, `Rules`, `Fen`, `Locators`, `Game` - the engine

`Board` is the data of `Board.h`: a board gives every square a piece and says
whose turn it is. `Rules` is `Rules.cpp` written as operators, search by search:
pseudo-legal moves by kind of piece, attackers looked for outwards from a
square, legality by trying the move on a copy, the end of the game. `Fen` is
`FenParser.cpp` as functions from and to sequences of characters, `Locators` the
four characters by which a man and its square are said. `Game` is the state
machine around them.

| Code | Model |
|---|---|
| `Game::board`, `status`, `moveCount` | the variables of those names |
| `moveHistory`, `lastMoveColor` | left out: written, never read |
| `makeMove(std::string, std::string)` | `MakeMoveSaid` |
| `makeMove(int, int)` | `MakeMove`; a refused move changes nothing and is its guard |
| the squares that change, promotion included; the turn | `Placed`, `After` |
| `generateMoves`, `isPseudoLegal`, `isLegal`, `isSquareAttacked`, `isInCheck`, `applyMove`, `hasLegalMoves`, `checkGameEnd` | `GenerateMoves`, `IsPseudoLegal`, `IsLegal`, `IsSquareAttacked`, `IsInCheck`, `Tried`, `HasLegalMoves`, `CheckGameEnd` |
| `reset` | `ResetFen`, the text it parses (`MCGame` checks which board that is) |
| `parse`, `parsePlacement` / `generate`, `generatePlacement` | `Parse`, `Placement` (character by character, `ReadUpTo`), `RanksReversed` / `Generate`, `GeneratePlacement` (square by square, `Written`) |
| `locatorToSquare`, `getPawnState` | `LocatorToSquare` (without the test for a NUL colour or kind, which no locator of the models has), `PawnState` (square by square, `PawnsListed`) |
| the sorted comparison of `verifyGameState` | `Verified` |

Faults are kept: the trial board of `isLegal` puts a queen wherever a pawn
moved (`Tried`), two of the eight knight's jumps are missing (`KnightJumps`),
and the codes of `checkGameEnd` become results as `makeMove` maps them
(`StatusOf`).

Constants: `Side`, 8 in the code; `Starts`, the boards a game may be played
from; `Attempts`, the moves players send; `MaxMoves`, which bounds `moveCount`.
Of the starts it is assumed that no pawn stands on the first or last rank
(`PawnsInside`): the only board the server plays from is the one of `reset`, and
nothing but the tests calls `FenParser::parse` with another. That
no pawn comes to stand there later is part of `TypeOK`.

### `Chess` - the rules the engine should implement

A second definition of the legal moves, with none of `Rules`' searches: which
square a piece attacks is a condition on the two squares and on what lies
between them, and a move is legal if afterwards no piece of the opponent
attacks the king. Castling and capture en passant, which the server does not
offer, are left out, and promotion is to a queen, as in `makeMove`. `Game`
compares its `Rules` with it in every position reached.

### `Wire` - the messages, byte by byte

A message is the sequence of bytes its fields are written as; there are no
frames. A reading takes fields off the front of whatever has arrived and is
`ok`, must `wait`, meets an `unexpected` PID, or has `failed` (the stream ended,
or a length is over its limit), having consumed what it read. Each side of the
code spells a message out for itself, so each has its own definition:
`GameSessionInfo` is what `processSessionRequest` writes and `InfoFields` what
`receiveSessionInfo` reads. Integers lose what does not fit, as the casts do.
Texts whose wording nothing depends on have their length and one byte value.
The name of a session, which the client reads into 64 bytes without looking at
its length (`ClientStub.cpp:107`), is taken to fit: in `Conversation` it is six
characters and the number of the session. What a longer one would overwrite is
not modelled.

### `TestClient` - the script of `Client/main.cpp`

`at` is where `main` is: it writes or reads one message per step (`SendGreeting`,
`ReceiveGreeting`, ..., `ReceiveFinal`). What does not parse as the expected
message is left as it stands behind its PID and the script goes on, as
`ClientStub` does. A write to a server that has closed is lost or ends the
client (`SIGPIPE`).

### `Conversation` - client and server, talking

`Conversation` instantiates `Server` and `TestClient` and joins one handler,
`Mine`, to the client with two byte streams: each step of `Mine` is a step of
`Server` that finds its request in the bytes that have arrived (`ReadGreeting`,
`ReadPid`, `Handle`) and adds the bytes of its answer (`Answer`, `Infos`). The
other handlers serve peers of whom nothing is known. Either end may close at any
point (`ClientCloses`, `CloseFd`); a close with unread input resets the
connection and loses what is under way (`Reset`).

Bounds, each named where it stands: no signal comes; the client's connection has
a descriptor of its own (`MyFd`); sessions are created before it connects;
`OthersRequests` and `OthersUpTo` say what the other peers request and how many
are accepted; nobody is called "White" (a Greeting's name only decides the
result of an abandoned match, which no message carries); nothing is looked at
after both ends are closed.

### Instances and proofs

`MCSessionManager`, `MCServer`, `MCGame` and `MCConversation` give the constants
their values (symmetry sets, request sets, positions, and assumptions that
compare `Without` with `std::remove` and `ResetFen` with the board of chess).
Section 4 has the theorems.

## 3. Runs

Passing runs:

| Run | Instance | Shows |
|---|---|---|
| `SessionManager` | 3 clients, 2 sessions, no wrap, no rejoin | types; matches consistent; memberships exact in both directions; `gameOf` fresh; results final; seats fixed in play; `MatchLifecycle` implemented |
| `Server` | 2 handlers, 2 descriptors, 1 session with a lobby, all requests, every id the same | whoever is seated is being served; the sessions evolve as `SessionManager` alone allows, under every interleaving and hang-up; a mover is told of the end it finds |
| `ServerConnections` | 2 handlers on 2 descriptors, ids modulo 2, signals, fair threads | types; descriptors owned; registry exact; no dangling entry by id even when ids collide; order of messages; hang-ups released; refusals closed |
| `Game` | 5 by 5 squares, 5 positions without knights, every pair of squares tried, 4 moves | the moves accepted are those of `Chess`; kings safe; the game ends exactly when a side is stuck; a move disturbs nothing else; turns and results as `Outcome` says; FEN read back is the board; locators name every man once; a report is accepted in any order and not when it is stale, short or double |
| `Conversation` | the client, its handler, another client, 2 sessions with a lobby, moves in either case | bytes only; every message of the client read to its last byte and no further; ids agree; what the client is told of sessions is true; past the list, the client ends |

Why the bounds are enough. A session seats two, so three clients give a player,
an opponent and a latecomer, and two sessions let a client move from one to the
other and let ids be compared. Seats, memberships, registry entries, descriptors
and ids relate at most two handlers; that a third adds nothing to the invariants
of `ServerConnections`, nor to the order of messages, is proved (section 4), and
the liveness properties are about one handler at a time, whose steps no other can
disable. A move and a resignation are
enough there, one having a payload that may be cut short and a refusal, the
other neither; `Server` has all requests. Every field is finite but the
counters: `IdMod`, `ClientIdMod` and `Creatable` bound those, and small moduli
make collisions common where the code needs 65536 connections. Nothing in
`Rules`, `Fen` or `Locators` depends on the board being 8 wide but its edges and
the ranks of pawns; five ranks are the fewest on which a double push ends short
of promotion. The five positions have pawns that push, capture and promote, pins
and checks from lines and diagonals, mates and stalemates, each for both
colours. They have no knights: with one, `AcceptsChess` and `KingsSafe` are
false of the code, and the run `KingNotCaptured` shows it on the real board.
Every other piece is judged by rules in which knights take no part; that this is
so, and that neither five ranks nor five positions nor four moves hide anything,
is proved for every size of board, every start without knights and games of any
length (section 4). In
`Conversation` one other client is enough to fill or empty a seat between any
two messages, and two sessions give a list with something left after the client
breaks it off; `Openings` has the locators of the script and those that the
server would accept, without which nothing past a refused move would happen.

What the passing runs leave out. Session ids do not wrap in any of them
(`Creatable` without 0), so that what a wrap does to a session in use is not
run: the theorems say which properties survive it (types, consistency) and which
assume that it does not happen. Callers of `joinSession` are taken to join only when they are in no session
(`RejoinAllowed = FALSE`), since the code has none to translate and the method
does not check; the theorems below need no such assumption where they say so.

Deadlock is checked in `SessionManager`. In `Server` the process may exit, be
killed or have nobody connected, in `Game` a game ends or reaches `MaxMoves`,
and a `Conversation` ends or has the client wait for ever (`InquiryAnswered`), so
there `CHECK_DEADLOCK` is off; progress is stated as liveness and the end of a
game as `EndsWhenStuck`.

Fairness. `Server` (`FairSpec`): weak fairness of every handler's own steps and
of `MainExit` - the scheduler runs a thread that can run. Nothing is assumed of
peers, signals, `accept` or further connections, so a handler may wait in `read`
for ever, as it may in the code. `Conversation` (`FairSpec`): weak fairness of
the client's script and of its handler, two threads of two processes that run
when they can; nothing is assumed of anybody else, and a step that waits for
bytes is not enabled.

Runs that end in a violation, each a disagreement between the code and what the
repository says of it (`PROJECT.json`, "findings", quotes the lines):
`RemainingPlayerWins` (the winner is chosen by name), `NoDataRace` (the manager
has no lock), `NoUseAfterDestroy` (detached threads outlive the `Server`),
`ResignNotifiesBoth` (the opponent is not told), `KingNotCaptured` (the missing
knight's jumps hide an attacker, and the king is taken), `MateWins` (whoever
mates, White wins), `InquiryAnswered` (without sessions an inquiry gets no
answer, and the client waits for one for ever).

Seen while modelling and stated by no run:

* Ids are not unique although `../README.md:15` calls them so: `nextId++` is done
  by several threads and wraps (`Server.cpp:149`). `ByIdNeverDangles` holds all
  the same; the run `ServerConnections` lets ids collide.
* `createSession` returns the largest id rather than the new one, which differs
  once ids wrap (`SessionManager.cpp:19`).
* `joinSession` lets a client join a second session or the same one twice; it
  then holds a seat its context has forgotten (`SessionManager.cpp:31`).
* Either player may move either colour (`SessionManager.cpp:153`).
* A write to a closed peer raises SIGPIPE, which ends the process
  (`BinaryIO.h:34`; `SigPipe` in `Server`). A test client that ends early can so
  end the server.
* No code creates a session, although `Client/main.cpp:86` says the server does.
* After a signal the server stops only when another connection arrives
  (`Server.cpp:100`); one that comes between `Server.cpp:89` and line 91 is
  forgotten.
* A player who has not moved yet is told it is in no game (`Server.cpp:308`).
* The test client never joins the session it "joins"; its move is in lower case,
  which `locatorToSquare` refuses (`Game.h:46`; `Types.h:12` has upper-case
  files, its own example `BPd5` a lower-case one), and its list of men is empty:
  the server closes the connection at the move, and the resignation is never
  answered (`Client/main.cpp:98`, `:112`).
* When the client breaks off the list of sessions, what is left of it is read as
  later answers: the low bytes of an id 2 pass for the PID of
  ConnectionSucceeded (`Client/main.cpp:78`).
* The client hands `host:port`, which its usage asks for, to `getaddrinfo` whole
  (`Client/main.cpp:11`, `:29`).
* No code looks at the version in a Greeting, although
  `../docs/ProdotocolDesign.md:177` says so; a field that is too long closes the
  connection without the ConnectionFailed of line 176.
* After a `bind` or `listen` that failed, `listenFd_` is closed twice
  (`Server.cpp:75`, `:84`, `:32`).
* `Tests/TestEngine.cpp:54` disagrees with the parser about the colour on a1; the
  build compiles `TestMain.cpp` instead.

## 4. Proofs

`SessionManagerProofs` proves, for any set of clients, any `IdMod >= 2` and any
`Creatable`:

* `TypeCorrect`, `MatchesConsistent`: `[]TypeOK` and `[]MatchConsistent`, with
  wrapping ids and rejoining callers. The inductive invariant is their
  conjunction `Inv`: that an active session has exactly two seats needs the
  types (`Append` and `Without` on sequences of clients), and that no session
  ever has three needs consistency (a waiting one has fewer than two). The
  lemmas are about one session at a time: `NewSessionGood`, `SeatGood`,
  `AfterLeaveGood` say that what the operations put in the map is `Good`, and
  `PutGood` that replacing one entry keeps the rest; `NextInv` goes through the
  actions.
* `ResultFinal`, `SeatsFixed`: the action properties `ResultIsFinal` and
  `SeatsFixedInPlay`, if the counter does not wrap (`0 \notin Creatable`): only
  `CreateSession` can replace a session, and then never one that exists
  (`FreshIds`: every id in use is positive and below the counter, or the counter
  has come round to 0 and stops).
* `SeatsAreMembers`, `MembersAreSeated`, `GamePointersFresh`: the membership
  invariants, if moreover nobody joins while in a session
  (`RejoinAllowed = FALSE`). None of the three is inductive: that a departure
  empties a seat needs nobody to hold two, and that a pointer stays fresh needs
  both halves of the membership relation. `Membership` is their conjunction,
  proved inductive on top of `Sound` (types, fresh ids, no session 0).
* `MatchesImplementLifecycle`: the refinement `Spec => MatchSpec`, if ids do not
  wrap. Each action is mapped to `Open`, `Enter`, `Depart`, `Decide`, `Abandon`
  or to no step; `ApplyMove` is `Decide` or nothing according to the status it
  leaves. It needs `Inv` (who departs from an active match ends it: two seats)
  and the fresh ids (`CreateSession` opens a match that was not there).

`ServerProofs` proves, for any handlers, descriptors, id widths, requests,
signals and lobby:

* `ServerTypeCorrect`, `DescriptorsAreOwned`, `RegistryIsExact`, `ByIdIsLive`:
  the four safety invariants of `ServerConnections`. They need each other:
  `removeClient` trusts `clientsByFd_`, which is right because a descriptor has
  one owner, who leaves the registry before it closes. The strengthening adds
  that a handler past `GreetOk` has an id (`HasId`) and that what `clientsById_`
  points to is registered under its descriptor too (`ByIdRegistered`).
* `ServerImplementsSessions`: `Server` implements `SessionManager`
  (`Spec => SessionsSpec`): every step of `Server` is a step of the manager or
  leaves its state alone. The one step that needs an invariant is `CloseFd`,
  which destroys a `ClientContext`: a handler that is not registered is in no
  session (`Sessions`), since a client joins only while it is registered and
  `removeClient` takes it out.
* `SeatsAreServed`: `[]SeatedAreServed`, if session ids do not wrap. It combines
  the refinement, `SeatsAreMembers` (taken over with `INSTANCE`; `SameManager`
  says that the two instances of the manager are one) and the registry's
  invariant: a seat holder is live and in a session, so it is registered, so it
  is being served.
* `EndsAreReported`: `EndIsReported`, if session ids do not wrap: the manager
  leaves a decided game as it is (`NextSafe`), nobody but the mover itself
  changes its game pointer (`ReportingKeepsGame`), which stays one into the map
  (`GamePointersFresh`), and the mover does nothing before the report
  (`ReportEnds`).
* `MessagesInOrder`: `ProtocolOrder`. The inductive invariant is
  `WelcomedFirst`: where a handler is in `handleClient` says what it has sent -
  nothing before `IssueId`, a failure only on its way out.
* `ServerRunsMatches`: the chain of the two refinements. What the handler
  threads do to the matches, interleaved as they may be, is what `MatchLifecycle`
  allows, and results are final, if ids do not wrap.

The engine. `RulesProofs` compares `Rules` with `Chess` for any board of any
size `Side >= 5`, reachable or not:

* `MovesAreChess`: if the side to move has one king, and the opponent has no
  knight, every move `generateMoves` and `isLegal` accept is legal in chess; if
  the side to move has no knight, every legal move is accepted. The two halves
  are the two faults of the knight's tables, attackers not seen and jumps not
  made, and neither premise can be dropped (run `KingNotCaptured`).
  `StuckAsInChess` says the same of `checkGameEnd`.
  The argument: a square is a file and a rank (`Coordinates`), a ray ends where
  a line between two squares is blocked, so the generated targets are the
  squares a man attacks or advances to (`PushesAsInChess`, `PieceTargetsAsInChess`,
  `PseudoLegalAsInChess`), and the search outwards from the king finds whom the
  search inwards would (`AttackersInChess`, `CheckAsInChess`). The trial board
  differs from the board after the move in what a pawn has become; `Alike` says
  that boards which differ so agree on the mover's check (`TrialInCheck`).

`GameProofs` proves of `Game`, for any starts, attempts and number of moves:

* `TypeCorrect` (`[]TypeOK`), `MovesDisturbNothingElse` (`OnePieceMoves`),
  `EngineKeepsToOutcome` (`PlaysInTurn`) and `MovesArePlayed` (each step is a
  pseudo-legal move of chess), from any start, knights included. `PlaysInTurn`
  proved is what makes the choices of `Outcome`, on which the proofs about
  `SessionManager` rest, an assumption that the engine meets.
* `GamesAcceptChess`, `GamesKeepKings`, `GamesEndWhenStuck`: `[]AcceptsChess`,
  `[]KingsSafe`, `[]EndsWhenStuck`, if the starts are `Lawful`: no knights, one
  king a side, and the side that is not to move not in check. The inductive
  invariant is `Sound`: types, a lawful board, and a status that is what
  `checkGameEnd` says of it. A lawful board stays one (`PlayedLawful`) because
  the move was legal in chess, by `MovesAreChess`: no king is ever taken, since
  it would have been attacked with its opponent to move. From the board of
  `reset`, which has knights, the three do not hold, as the code stands.
* `GamesReadBack` (`[]FenRoundTrip`, for `Side <= 8`), `ReportsAreBoards`
  (`[]ReportIsBoard`) and `ReportsFollowTheBoard` (`ReportsJudged`), from the
  next two modules.

`FenProofs`: `BoardsReadBack`, every board of at most eight files, which is what
one digit can count, is what is parsed from its FEN. The invariant of the writer's
loop is `Growing`: read so far, the text it has written fills the squares it has
passed, but for the empty ones not yet counted (`Says`). `LocatorsProofs`:
`VerifiedAsNamed`, `verifyGameState` accepts exactly the lists that name each man
of the board once; and that stale, short or doubled lists are none of these.

Both are about loops, that is, recursive functions. The provers cannot
instantiate an induction theorem of the library, which takes a predicate; but
`WFMin` of `WellFoundedInduction` is about sets, and `Induction` derives
`InductionOnSet` from it: a set that has 0 and with n also n + 1 has every
number. That the recursive definitions satisfy their equations
(`ReadUpToStep`, `WrittenStep`, `PawnsListedStep`) is proved with it too.

`ConversationProofs` proves of `Conversation`, for any openings, handlers and
descriptors, any width of ids and anything the other peers request:

* `RequestsAreUnderstood` (`[]RequestsUnderstood`) and `HandshakesAgree`
  (`[]HandshakeAgrees`). The first part of the module is about `Wire`: what the
  `Write` functions write the `Read` functions read, to its last byte and
  whatever is behind it (`GreetingReads`, `PidReads`, `MoveReads`,
  `VerifyReads`), and where nothing has arrived a reading waits or fails but
  never finds something else (`NothingReads`). The second part is the invariant,
  `Inv`. Neither property is inductive, for both depend on what is under way:
  `toServer` is the Greeting, if the handler has not read it, or the payload
  that is due to the request whose PID it has read, and then whole requests
  (`Framed`, where `Whole` says that a stream can be cut into requests), or the
  client has ended and nothing is left (`Silent`); and until the client has
  heard the handler's id, nothing but that is in `toClient` (`Hears`). The steps
  of the other handlers keep it because they have other descriptors (`Apart`);
  those of the client add a request at the end (`AsksLast`), those of the
  handler take one from the front (`WholeFirst`).
* `InfosAreTrue` (`[]InfoTrue`), the other direction: what the client reads of a
  session was true when its handler listed it. The invariant is `FullInv`, on top
  of `Inv`. `SessionsSound` says what a session is as far as it is told of: at
  most two players, and two exactly if it is being played (`SessionsNext`, from
  `ServerStep`: sessions come and never go). `Answers` says that the handler of a
  client that waits has nothing else to answer than its inquiry, and `Clean` that
  it has refused nothing before, so that what it then sends is the list
  (`HandleInfo`). `Listens` says what is in `toClient`: the welcome, or a chain of
  messages each of which tells of a session (`Told`). The loop that writes the
  list keeps to it (`InfosTold`), reading takes one message off the front, whole
  and as it was written (`InfoReads`, `ToldHeard`), and what could be told of a
  session still can be when it is read (`StillTold`).
* `OnlyBytes` (`[]TypeOK`): all that is on the wire is bytes, and what the client
  makes of them is of its type. That what is written is bytes is a matter of the
  `Write` functions (`IntegersWritten`) and of ids and names being written out in
  decimal (`Decimals`). That what is left after a reading is bytes must hold of
  any reading, not only of those that find what was meant: once the client has
  left the list it reads what remains of it as the answers to its later requests.
  `ReadWritten` therefore says it of every stream and every list of fields, by
  induction over the fields (`MidwayField`): a reading has taken numbers and texts
  and left bytes, or it has halted and left bytes. `ClientType`, with `FullInv`, is
  inductive.
* `ConversationIsServer`: `Spec => S!Spec`. What `ServerProofs` says of any
  peers therefore holds of a peer that speaks in bytes. `HangUp` is the step
  that needs an invariant: the client's connection is on `MyFd`.

The only assumptions are those on the constants, each evaluated by the passing
runs, and those stated in the theorems. `0 \notin Creatable`, which several
need, says that nobody creates a session once the 16-bit counter has wrapped;
without it they are false of the code. Of `Openings` it is assumed that locators
are arrays of four characters (`PawnLocator`), of `Fds` that there is a
descriptor for the client, of `IdMod` that session ids fit their 16 bits.

Every invariant and every safety property that a passing run checks is proved.
Only model-checked is liveness (`HangupReleased`, `RefusalCloses`, `ClientEnds`),
which the prover does not do. `NoDataRace` and the other violated properties have
nothing to prove.

## 5. Not modelled, and the plan

Still planned: `Server` with `Game`, that is, a session's `Game` with its board in
place of the choices of `GamesAfterMove`; `EngineKeepsToOutcome` is the fact that
it rests on.

Left out for good: the command line (parsed once, sequentially), socket set-up
beyond whether it succeeds (no state a property is about), `closeClient`,
`getSession`, `findClient`, `findClientById`, `squareToLocator`,
`receiveConnectionFailed` and the second `generate` (no caller), the structs of
`Protocol.h` and the sizes of `WireFormat.h` (used by no code), the contents of
the maps after a data race (undefined), the tests and the build files.
