\* Starts never overlap, cancels only after start_session returned, HTTP
\* calls succeed: queue bookkeeping and FIFO dispatch over three sessions.
SPECIFICATION Spec
CONSTANTS
    Daemons <- MCDaemons
    Sessions <- MCSessions3
    None = None
    d1 = d1
    s1 = s1
    s2 = s2
    s3 = s3
    Hosts = 1
    MaxRpcFailures = 0
    OverlappingStarts = FALSE
    CancelFrom <- CancelAfterStart
    DiscoveryTypes <- NetworkOnly
SYMMETRY SessionSymmetry
INVARIANT TypeOK
INVARIANT QueueRegistered
INVARIANT FifoDispatch
INVARIANT NoSessionRunTwice
CHECK_DEADLOCK FALSE
