SPECIFICATION Spec
CONSTANTS
  Handlers = {h1, h2}
  Fds = {f1, f2}
  ClientIdMod = 1
  IdMod = 2
  Creatable <- OneSession
  Lobby = TRUE
  Signals = FALSE
  PeerRequests <- AllRequests
CHECK_DEADLOCK FALSE
SYMMETRY Symmetry
INVARIANT SeatedAreServed
PROPERTIES SessionsSpec EndIsReported
