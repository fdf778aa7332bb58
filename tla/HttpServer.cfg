SPECIFICATION FairSpec
CONSTANTS
  Channels = {c1, c2}
  MaxConnections = 2
  Ssl = TRUE
  AcceptErrors = TRUE
INVARIANTS
  TypeOK
  FlagsTellOutstanding
  FreedIsQuiet
PROPERTIES
  ServesAsListener
  ChannelEnds
  ShutdownCompletes
CHECK_DEADLOCK FALSE
