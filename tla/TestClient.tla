----------------------------- MODULE TestClient -----------------------------
(***************************************************************************)
(* The test client (src/ChessJam/Client/main.cpp, ClientStub.cpp): a       *)
(* script that greets the server, looks for a session to play in, moves,   *)
(* asks for the board, reports it, resigns, and ends.                      *)
(*                                                                         *)
(* A step writes one message or reads one.  A message that is not the one  *)
(* the script expects is left as it stands behind its PID, and the script  *)
(* goes on.                                                                *)
(***************************************************************************)
EXTENDS Wire

CONSTANTS
  Argument,   \* the session id on the command line; 0 = none
  Openings    \* the <<from, to>> it may move, as locators

VARIABLES
  at,         \* where main is
  sessionId,
  serverId,   \* the id the server's Greeting gave it
  info,       \* the last GameSessionInfo
  final,      \* the final message
  connected,  \* the server's end of the connection is open
  toServer, toClient   \* bytes sent and not yet read

own == <<at, sessionId, serverId, info, final>>
vars == <<own, toServer, toClient>>

None   == <<>>
Ended  == at \in {"done", "killed"}
Labels == {"connect", "greet", "hear", "welcome", "inquire", "list", "move",
           "ask", "state", "verify", "resign", "final", "done", "killed"}

Init ==
  /\ at = "connect"
  /\ sessionId = Argument
  /\ serverId = None
  /\ info = None
  /\ final = None
  /\ toServer = <<>>
  /\ toClient = <<>>

\* A connection that is accepted only later has been connected only later.
Connect ==
  /\ at = "connect"
  /\ at' = "greet"
  /\ UNCHANGED <<sessionId, serverId, info, final, toServer, toClient>>

ConnectFails ==
  /\ at = "connect"
  /\ at' = "done"
  /\ UNCHANGED <<sessionId, serverId, info, final, toServer, toClient>>

\* Ctrl-C, at any time.
Killed ==
  /\ ~Ended
  /\ at' = "killed"
  /\ UNCHANGED <<sessionId, serverId, info, final, toServer, toClient>>

-----------------------------------------------------------------------------
(* A write to a server that has closed is lost, or it is the second and    *)
(* SIGPIPE ends the client.                                                *)
Write(message, next) ==
  /\ \/ connected /\ toServer' = toServer \o message /\ at' = next
     \/ ~connected /\ UNCHANGED toServer /\ at' \in {next, "killed"}
  /\ UNCHANGED toClient

(* What the client finds of the message it expects, once it need not wait. *)
Heard(fields) == Read(toClient, connected, fields)
Consume(heard) ==
  /\ heard.status # "wait"
  /\ toClient' = heard.rest
  /\ UNCHANGED toServer

SendGreeting ==
  /\ at = "greet"
  /\ Write(Greeting(1, Text(10), <<>>), "hear")
  /\ UNCHANGED <<sessionId, serverId, info, final>>

ReceiveGreeting ==
  /\ at = "hear"
  /\ LET heard == Heard(GreetingFields) IN
       /\ Consume(heard)
       /\ IF heard.status = "ok"
          THEN serverId' = heard.values[3] /\ at' = "welcome"
          ELSE UNCHANGED serverId /\ at' = "done"
  /\ UNCHANGED <<sessionId, info, final>>

ReceiveWelcome ==
  /\ at = "welcome"
  /\ LET heard == Heard(SucceededFields) IN
       /\ Consume(heard)
       /\ at' = IF heard.status = "ok" THEN "inquire" ELSE "done"
  /\ UNCHANGED <<sessionId, serverId, info, final>>

Inquire ==
  /\ at = "inquire"
  /\ Write(InquireSessions, "list")
  /\ UNCHANGED <<sessionId, serverId, info, final>>

Play(session) == IF session > 0 THEN "move" ELSE "done"

(* The list has no end: it is read until a read fails, or until a session  *)
(* is found that can be joined; the rest is then left unread.              *)
ReceiveSessionInfo ==
  /\ at = "list"
  /\ LET heard == Heard(InfoFields)
         found == [id |-> heard.values[1], players |-> heard.values[2],
                   name |-> heard.values[3], state |-> heard.values[4]]
     IN  /\ Consume(heard)
         /\ IF heard.status # "ok"
              THEN /\ at' = Play(sessionId)
                   /\ UNCHANGED <<sessionId, info>>
            ELSE IF sessionId = 0 /\ found.state = 0 /\ found.players < 2
              THEN /\ sessionId' = found.id
                   /\ info' = found
                   /\ at' = Play(found.id)
            ELSE /\ info' = found
                 /\ UNCHANGED <<at, sessionId>>
  /\ UNCHANGED <<serverId, final>>

\* Sessions are joined in name only: the protocol has no message for it.
SendMove ==
  /\ at = "move"
  /\ \E opening \in Openings : Write(Move(opening[1], opening[2]), "ask")
  /\ UNCHANGED <<sessionId, serverId, info, final>>

SendRequestGameState ==
  /\ at = "ask"
  /\ Write(RequestGameState, "state")
  /\ UNCHANGED <<sessionId, serverId, info, final>>

ReceiveGameState ==
  /\ at = "state"
  /\ Consume(Heard(StateFields))
  /\ at' = "verify"
  /\ UNCHANGED <<sessionId, serverId, info, final>>

\* The report has no men in it.
SendVerifyState ==
  /\ at = "verify"
  /\ Write(VerifyState(<<>>), "resign")
  /\ UNCHANGED <<sessionId, serverId, info, final>>

SendResign ==
  /\ at = "resign"
  /\ Write(Resign, "final")
  /\ UNCHANGED <<sessionId, serverId, info, final>>

ReceiveFinal ==
  /\ at = "final"
  /\ LET heard == Heard(SucceededFields) IN
       /\ Consume(heard)
       /\ final' = IF heard.status = "ok" THEN heard.values[1] ELSE final
  /\ at' = "done"
  /\ UNCHANGED <<sessionId, serverId, info>>

Script ==
  \/ SendGreeting \/ ReceiveGreeting \/ ReceiveWelcome
  \/ Inquire \/ ReceiveSessionInfo
  \/ SendMove \/ SendRequestGameState \/ ReceiveGameState
  \/ SendVerifyState \/ SendResign \/ ReceiveFinal
=============================================================================
