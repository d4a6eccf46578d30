--------------------------- MODULE MatchLifecycle ---------------------------
(***************************************************************************)
(* What a match promises to whoever plays or watches it, with no word of   *)
(* clients, pointers or maps: it is opened once, is played only from the   *)
(* moment its second seat is taken, is decided at most once and only while *)
(* it is played, and is never reopened.  SessionManager implements this.   *)
(***************************************************************************)
EXTENDS Integers

CONSTANT Matches

VARIABLES phase, seats, result

vars == <<phase, seats, result>>

Undecided == "Ongoing"
Results   == {"WhiteWins", "BlackWins", "Draw"}
Phases    == {"none", "waiting", "active", "finished"}

Init ==
  /\ phase  = [m \in Matches |-> "none"]
  /\ seats  = [m \in Matches |-> 0]
  /\ result = [m \in Matches |-> Undecided]

Open(m) ==
  /\ phase[m] = "none"
  /\ phase' = [phase EXCEPT ![m] = "waiting"]
  /\ UNCHANGED <<seats, result>>

\* Taking the second seat starts the match.
Enter(m) ==
  /\ phase[m] = "waiting"
  /\ seats[m] < 2
  /\ seats' = [seats EXCEPT ![m] = @ + 1]
  /\ phase' = [phase EXCEPT ![m] = IF seats'[m] = 2 THEN "active" ELSE @]
  /\ UNCHANGED result

\* Nobody leaves a match that goes on being played.
Depart(m) ==
  /\ phase[m] \in {"waiting", "finished"}
  /\ \E n \in 0..seats[m] : seats' = [seats EXCEPT ![m] = n]
  /\ UNCHANGED <<phase, result>>

Decide(m) ==
  /\ phase[m] = "active"
  /\ \E r \in Results : result' = [result EXCEPT ![m] = r]
  /\ \E n \in 0..seats[m] : seats' = [seats EXCEPT ![m] = n]
  /\ phase' = [phase EXCEPT ![m] = "finished"]

\* The last player leaves, or the match is called off: no result.
Abandon(m) ==
  /\ phase[m] \in {"waiting", "active"}
  /\ phase' = [phase EXCEPT ![m] = "finished"]
  /\ seats' = [seats EXCEPT ![m] = 0]
  /\ UNCHANGED result

Next ==
  \E m \in Matches : Open(m) \/ Enter(m) \/ Depart(m) \/ Decide(m) \/ Abandon(m)

Spec == Init /\ [][Next]_vars
=============================================================================
