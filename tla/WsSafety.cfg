SPECIFICATION Spec
CONSTANTS
  Channels = {c1, c2, c3}
  MaxConnections = 2
  MaxSends = 2
  Requests = {"upgrade", "rejected", "content", "badLength", "badRequest"}
  Ssl = TRUE
  AcceptErrors = FALSE
SYMMETRY Symmetry
INVARIANTS
  TypeOK
  FlagsTellOutstanding
  FreedIsQuiet
  NoMessageStranded
  ConnectionLimit
  ListensUnlessFull
  ShutdownCompletesOnce
PROPERTY ServesAsListener
CHECK_DEADLOCK FALSE
