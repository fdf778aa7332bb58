SPECIFICATION ReadingPeersSpec
CONSTANTS
  Channels = {c1, c2}
  MaxConnections = 0
  MaxSends = 1
  Requests = {"upgrade", "rejected", "content", "badRequest"}
  Ssl = FALSE
  AcceptErrors = TRUE
PROPERTIES
  ShutdownCompletes
  HandshakeEnds
CHECK_DEADLOCK FALSE
