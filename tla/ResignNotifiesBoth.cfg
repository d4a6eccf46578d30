SPECIFICATION FairSpec
CONSTANTS
  Handlers = {h1, h2}
  Fds = {f1, f2}
  ClientIdMod = 1
  IdMod = 2
  Creatable <- OneSession
  PeerRequests <- ResignOnly
  Signals = FALSE
  Lobby = TRUE
CHECK_DEADLOCK FALSE
PROPERTY ResignNotifiesBoth
