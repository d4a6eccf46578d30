SPECIFICATION FairSpec
CONSTANTS
  Handlers = {h1, h2}
  Fds = {f1, f2}
  ClientIdMod = 2
  IdMod = 2
  Creatable <- OneSession
  PeerRequests <- MatchRequests
  Signals = TRUE
  Lobby = FALSE
CHECK_DEADLOCK FALSE
INVARIANTS TypeOK DescriptorsOwned RegistryExact ByIdNeverDangles
PROPERTIES ProtocolOrder HangupReleased RefusalCloses
