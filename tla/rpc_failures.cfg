\* Serial starts, cancels after start, one lost request or reply: the
\* queue bookkeeping and single dispatch survive partial failures.
SPECIFICATION Spec
CONSTANTS
    Daemons <- MCDaemons
    Sessions <- MCSessions2
    None = None
    d1 = d1
    s1 = s1
    s2 = s2
    s3 = s3
    Hosts = 1
    MaxRpcFailures = 1
    OverlappingStarts = FALSE
    CancelFrom <- CancelAfterStart
    DiscoveryTypes <- AllTypes
INVARIANT QueueRegistered
INVARIANT NoSessionRunTwice
PROPERTY ImplementsSessionQueue
CHECK_DEADLOCK FALSE
