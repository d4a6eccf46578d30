SPECIFICATION Spec
CONSTANTS
  Handlers = {h1, h2}
  Fds = {f1, f2}
  ClientIdMod = 4
  IdMod = 2
  Creatable <- OneSession
  PeerRequests <- MatchRequests
  Signals = FALSE
  Lobby = FALSE
CHECK_DEADLOCK FALSE
INVARIANT NoDataRace
