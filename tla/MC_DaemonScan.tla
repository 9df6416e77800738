--------------------------- MODULE MC_DaemonScan ---------------------------
EXTENDS ScanProgress, TLC

\* Two addresses of one subnet: the gateway .1 and a DHCP-range .100.
MCHosts    == {1, 100}
MCGateways == {1}

\* Three TCP discovery ports against a window of two, so batch_scan
\* refills; DNS and DHCP over UDP; one endpoint on a scanned TCP port and
\* one on an endpoint-only port (an endpoint batch of PortBatch/2 = 1).
MCTcpPorts          == <<22, 80, 443>>
MCUdpPorts          == <<53, 67>>
MCEndpointPorts     == {80, 8123}
MCEndpointOnlyPorts == {8123}

=============================================================================
