\* Two start_session calls for one daemon interleave.
SPECIFICATION Spec
CONSTANTS
    Daemons <- MCDaemons
    Sessions <- MCSessions2
    None = None
    d1 = d1
    s1 = s1
    s2 = s2
    s3 = s3
    Hosts = 1
    MaxRpcFailures = 0
    OverlappingStarts = TRUE
    CancelFrom <- NoCancels
    DiscoveryTypes <- NetworkOnly
INVARIANT SingleActiveSession
CHECK_DEADLOCK FALSE
