SPECIFICATION Spec
CONSTANTS
  Null = Null
  valueName = "Int16"
  Tools <- MCTools
  VariableTools <- MCVariableTools
  DefaultTools <- MCDefaultTools
  MetaData <- MCMetaData
  Values = {100, 305}
  Failures = {"BadNotConnected"}
  MaxTools = 3
  MaxConnections = 2
INVARIANTS
  WidgetFollowsMetadata
  ToolsShowUpdate
  IconsTellStatus
PROPERTIES
  StartsOnce
CHECK_DEADLOCK FALSE
