SPECIFICATION FairSpec
CONSTANTS
  Handlers = {h1, h2}
  Mine = h1
  Fds = {f1, f2}
  ClientIdMod = 4
  IdMod = 4
  Creatable <- TwoSessions
  Lobby = TRUE
  OthersRequests <- NoRequests
  OthersUpTo = 1
  Argument = 0
  Openings <- EitherCase
CHECK_DEADLOCK FALSE
INVARIANTS TypeOK RequestsUnderstood HandshakeAgrees InfoTrue
PROPERTY ClientEnds
