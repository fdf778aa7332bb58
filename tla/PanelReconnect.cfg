SPECIFICATION Spec
CONSTANTS
  v1 = v1
  v2 = v2
  Variables = {v1, v2}
  MaxConnections = 2
  DefaultTools <- TableAndCard
  MaxCards = 2
  MaxRows = 2
  MaxTools = 2
  MaxRequests = 2
  Table = Table
  NoTool = NoTool
INVARIANT ClosedIsReopened
CHECK_DEADLOCK FALSE
