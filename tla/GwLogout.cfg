SPECIFICATION FairSpec
CONSTANTS
  Channels = {c1, c2}
  Clients = {s1}
  ForeignSessions = FALSE
  MaxPending = 1
  None = None
INVARIANT TypeOK
PROPERTIES
  RequestsPrecedeLogout
  ClosedChannelsAreLoggedOut
  LogoutIsAnswered
CHECK_DEADLOCK FALSE
