--------------------------- MODULE MCSessionManager -------------------------
(* Instances of SessionManager for TLC.                                    *)
EXTENDS SessionManager, TLC
LOCAL INSTANCE SequencesExt

Symmetry == Permutations(Clients)

\* Without is std::remove on the sequences joinSession can build.
ASSUME WithoutIsRemove ==
  \A players \in BoundedSeq(Clients, 2) : \A c \in Clients :
    Without(players, c) = SelectSeq(players, LAMBDA d : d # c)

\* Without 0 the counter stops before it wraps.
TwoSessions == {1, 2}
=============================================================================
