SPECIFICATION Spec
CONSTANTS
  Clients = {c1, c2, c3}
  IdMod = 4
  Creatable <- TwoSessions
  RejoinAllowed = FALSE
SYMMETRY Symmetry
INVARIANTS TypeOK MatchConsistent SeatedIsMember MemberIsSeated GamePointerFresh
PROPERTIES ResultIsFinal SeatsFixedInPlay MatchSpec
