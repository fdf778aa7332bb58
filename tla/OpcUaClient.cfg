SPECIFICATION FairSpec
CONSTANTS
    Channels = {1, 2}
    Handles = {"h", "k"}
    Variables = {"first", "second"}
    Unknown = "unknown"
    Namespaces = 2
    NamespaceOf <- MCNamespaceOf
    Encodable = {"first"}
    Requests <- MCRequests
    None = None
    MaxPolls = 1
    MaxReads = 1
INVARIANTS MonitorsAgree
PROPERTIES RequestsAreAnswered MonitoredIsUpdated
CHECK_DEADLOCK FALSE
