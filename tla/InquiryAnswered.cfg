SPECIFICATION FairSpec
CONSTANTS
  Handlers = {h1, h2}
  Mine = h1
  Fds = {f1, f2}
  ClientIdMod = 4
  IdMod = 4
  Creatable <- TwoSessions
  Lobby = FALSE
  OthersRequests <- NoRequests
  OthersUpTo = 1
  Argument = 0
  Openings <- ScriptOnly
CHECK_DEADLOCK FALSE
PROPERTY InquiryAnswered
