SPECIFICATION Spec
CONSTANTS
  Channels = {c1, c2}
  Clients = {s1, s2}
  ForeignSessions = FALSE
  MaxPending = 0
  None = None
INVARIANTS
  NoOrphans
  ClientOutlivesItsTasks
  ShutdownWaits
SYMMETRY Symmetry
CHECK_DEADLOCK FALSE
