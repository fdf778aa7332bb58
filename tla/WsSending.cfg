SPECIFICATION ReadingPeersSpec
CONSTANTS
  Channels = {c1}
  MaxConnections = 1
  MaxSends = 4
  Requests = {"upgrade"}
  Ssl = TRUE
  AcceptErrors = TRUE
PROPERTIES
  SentInOrder
  TimedOutIsClosed
CHECK_DEADLOCK FALSE
