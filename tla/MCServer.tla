------------------------------ MODULE MCServer ------------------------------
(* Instances of Server for TLC.                                            *)
EXTENDS Server, TLC

Symmetry == Permutations(Handlers) \cup Permutations(Fds)

OneSession == {1}

\* What players send, and what everybody else does.
MatchRequests == {"Move", "Resign"}
AllRequests   == Requests
ResignOnly    == {"Resign"}
=============================================================================
