SPECIFICATION Spec
CONSTANTS
  Clients = {c1, c2}
  IdMod = 4
  Creatable <- TwoSessions
  RejoinAllowed = FALSE
SYMMETRY Symmetry
PROPERTY RemainingPlayerWins
