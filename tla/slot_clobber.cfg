\* Serial starts, no cancels, reliable HTTP: do reports carry their own id?
SPECIFICATION Spec
CONSTANTS
    Daemons <- MCDaemons
    Sessions <- MCSessions2
    None = None
    d1 = d1
    s1 = s1
    s2 = s2
    s3 = s3
    Hosts = 1
    MaxRpcFailures = 0
    OverlappingStarts = FALSE
    CancelFrom <- NoCancels
    DiscoveryTypes <- NetworkOnly
INVARIANT ReportsOwnSession
CHECK_DEADLOCK FALSE
