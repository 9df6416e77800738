\* Two hosts scanned concurrently, a cancel at any point: host results,
\* the terminal report and termination.
SPECIFICATION Spec
CONSTANTS
    Hosts <- MCHosts
    Gateways <- MCGateways
    TcpPorts <- MCTcpPorts
    UdpPorts <- MCUdpPorts
    EndpointPorts <- MCEndpointPorts
    EndpointOnlyPorts <- MCEndpointOnlyPorts
    PortBatch = 2
    Concurrency = 2
INVARIANT TypeOK
INVARIANT NoPartialResult
INVARIANT CompleteNotCancelled
PROPERTY ScanTerminates
CHECK_DEADLOCK FALSE
