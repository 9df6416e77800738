------------------------------ MODULE HostScan ------------------------------
(***************************************************************************)
(* The scan of one host (daemon/discovery/service/network.rs scan_host and *)
(* daemon/utils/scanner.rs scan_ports_and_endpoints): a TCP, a UDP and an  *)
(* endpoint stage, each a batch_scan that keeps at most batch_size probes  *)
(* in flight and refills the window as probes complete, with the session's *)
(* cancellation token checked around every stage and probe.                *)
(*                                                                         *)
(* A probe is abstracted to its port and its outcome: a TCP connect (one   *)
(* retry after a timeout, a refused connect is closed), a DNS/NTP/SNMP/    *)
(* DHCP protocol probe, an HTTP(S) GET of a discovery endpoint.  Every     *)
(* probe ends: each carries a timeout.  An endpoint is identified by its   *)
(* port (one discovery path per port).                                     *)
(***************************************************************************)
EXTENDS Naturals, Sequences, SequencesExt, ScanBudget

CONSTANTS
    Hosts,              \* addresses of the subnets being scanned
    Gateways,           \* get_own_routing_table_gateway_ips, as Hosts
    TcpPorts,           \* Seq: Service::all_discovery_ports, TCP
    UdpPorts,           \* Seq: Service::all_discovery_ports, UDP
    EndpointPorts,      \* ports of Service::all_discovery_endpoints
    EndpointOnlyPorts,  \* Service::endpoint_only_ports
    PortBatch           \* get_optimal_port_batch_size()

ASSUME Gateways \subseteq Hosts /\ PortBatch \in Nat \ {0}

VARIABLES
    hs,          \* [Hosts -> HostRec]: where each host's scan_host is
    cancelled,   \* the session's CancellationToken has been cancelled
    processed    \* session.processed_count (the scanned_count Arc)

hostVars == <<hs, cancelled, processed>>

Stages == {"tcp", "udp", "endpoint"}
Ports == ToSet(TcpPorts) \cup ToSet(UdpPorts) \cup EndpointPorts
Outcomes == {"none", "found", "empty", "cancelled", "failed", "critical"}

\* pc: queued (not yet polled), start, a stage, done, yielded (taken by
\* the stream that polls scan_host).  todo/live/got are the
\* batch_scan's iterator, FuturesUnordered and results; tcp/udp the stage
\* results kept by scan_ports_and_endpoints; probed the probes whose result
\* batch_scan recorded.
HostRec == [pc : {"queued", "start", "done", "yielded"} \cup Stages, todo : Seq(Ports),
            live : SUBSET Ports, got : SUBSET Ports, tcp : SUBSET Ports,
            udp : SUBSET Ports, probed : SUBSET (Stages \X Ports),
            out : Outcomes]

HostTypeOK ==
    /\ hs \in [Hosts -> HostRec]
    /\ cancelled \in BOOLEAN
    /\ processed \in 0..Cardinality(Hosts)

NewHost == [pc |-> "queued", todo |-> <<>>, live |-> {}, got |-> {},
            tcp |-> {}, udp |-> {}, probed |-> {}, out |-> "none"]

StageBatch(st) ==
    CASE st = "tcp"      -> PortBatch
      [] st = "udp"      -> UdpBatchSize(PortBatch)
      [] st = "endpoint" -> EndpointBatchSize(PortBatch)

\* batch_scan's initial fill: up to batch_size futures, none once cancelled.
Fill(r, st, items) ==
    LET k == IF cancelled THEN 0 ELSE MinOf(StageBatch(st), Len(items))
    IN [r EXCEPT !.pc = st, !.todo = SubSeq(items, k + 1, Len(items)),
                 !.live = ToSet(SubSeq(items, 1, k)), !.got = {}]

\* Mutant: a cancelled host is counted both before and after the check.
FinishCountCancelTwice(h, r, out, counted) ==
    /\ hs' = [hs EXCEPT ![h] = [r EXCEPT !.pc = "done", !.out = out,
                                 !.todo = <<>>, !.live = {}, !.got = {}]]
    /\ processed' = processed + (IF counted THEN 1 ELSE 0)
                              + (IF out = "cancelled" THEN 1 ELSE 0)

\* scan_host returns.  Every path but a non-empty Ok(Some) and an Err
\* propagated by `?` makes scanned_count.fetch_add(1) first.
Finish(h, r, out, counted) ==
    /\ hs' = [hs EXCEPT ![h] = [r EXCEPT !.pc = "done", !.out = out,
                                 !.todo = <<>>, !.live = {}, !.got = {}]]
    /\ processed' = IF counted THEN processed + 1 ELSE processed

\* scan_host up to the TCP batch: the cancellation check, the batch size and
\* gateway lookups (their errors propagate uncounted), and
\* scan_ports_and_endpoints' own check.
ScanHostBegin(h) ==
    LET r == hs[h]
    IN /\ r.pc = "start"
       /\ \/ cancelled /\ Finish(h, r, "cancelled", FALSE)
          \/ ~cancelled /\ Finish(h, r, "failed", FALSE)
          \/ /\ hs' = [hs EXCEPT ![h] = Fill(r, "tcp", TcpPorts)]
             /\ UNCHANGED processed
       /\ UNCHANGED cancelled

\* scan_tcp_ports' closure: a connect within SCAN_TIMEOUT is open; a
\* refused connect, or a second timeout after a retry, is closed.
TcpProbe == BOOLEAN

\* scan_udp_ports' closure: the DNS, NTP or SNMP test, or the DHCP test,
\* which runs only when the host is a routing-table gateway.
UdpProbe(h, p) == IF p = 67 /\ h \notin Gateways THEN {FALSE} ELSE BOOLEAN

\* scan_endpoints' closure: HTTPS then HTTP on the HTTPS ports, HTTP on
\* the others; a success status with a readable body is a response.
EndpointProbe == BOOLEAN

ProbeOutcomes(h, st, p) ==
    CASE st = "tcp"      -> TcpProbe
      [] st = "udp"      -> UdpProbe(h, p)
      [] st = "endpoint" -> EndpointProbe

\* batch_scan: futures.next() yields the probe of p.  A cancelled token
\* breaks the loop and drops the rest; otherwise the result is kept and the
\* window refilled up to batch_size from the iterator.
ProbeDone(h, p, ok) ==
    LET r == hs[h]
        left == r.live \ {p}
        k == MinOf(StageBatch(r.pc) - Cardinality(left), Len(r.todo))
    IN /\ r.pc \in Stages
       /\ p \in r.live
       /\ ok \in ProbeOutcomes(h, r.pc, p)
       /\ hs' = [hs EXCEPT ![h] =
                   IF cancelled THEN [r EXCEPT !.live = {}, !.todo = <<>>]
                   ELSE [r EXCEPT !.got = IF ok THEN @ \cup {p} ELSE @,
                                  !.probed = @ \cup {<<r.pc, p>>},
                                  !.live = left \cup ToSet(SubSeq(r.todo, 1, k)),
                                  !.todo = SubSeq(r.todo, k + 1, Len(r.todo))]]
       /\ UNCHANGED <<cancelled, processed>>

\* scan_endpoints' targets: discovery endpoints on an open TCP port or an
\* endpoint-only port; unique_endpoints is a HashMap, so any order.
EndpointTargets(tcp) == EndpointPorts \cap (tcp \cup EndpointOnlyPorts)

\* Mutant: scan_host returns the ports without checking the token again.
StageEndNoRecheck(h) ==
    LET r == hs[h]
        r1 == [r EXCEPT !.tcp = IF r.pc = "tcp" THEN r.got ELSE @,
                        !.udp = IF r.pc = "udp" THEN r.got ELSE @]
        open == r.tcp \cup r.udp \cup r.got
    IN /\ r.pc \in Stages
       /\ r.live = {}
       /\ \/ cancelled /\ r.pc # "endpoint" /\ Finish(h, r1, "cancelled", TRUE)
          \/ /\ ~cancelled /\ r.pc = "tcp"
             /\ hs' = [hs EXCEPT ![h] = Fill(r1, "udp", UdpPorts)]
             /\ UNCHANGED processed
          \/ /\ ~cancelled /\ r.pc = "udp"
             /\ \/ Finish(h, r1, "critical", FALSE)
                \/ Finish(h, r1, "empty", TRUE)
                \/ /\ \E s \in SetToSeqs(EndpointTargets(r1.tcp)) :
                         hs' = [hs EXCEPT ![h] = Fill(r1, "endpoint", s)]
                   /\ UNCHANGED processed
          \/ /\ r.pc = "endpoint"
             /\ IF open # {} THEN Finish(h, r1, "found", FALSE)
                ELSE Finish(h, r1, "empty", TRUE)
       /\ UNCHANGED cancelled

\* A batch_scan returned (no future left): scan_ports_and_endpoints keeps
\* its results, checks the token (its Err is counted by scan_host's own
\* check) and starts the next stage; scan_endpoints may fail to build its
\* client.  After the endpoint stage the ports are merged and scan_host
\* checks the token once more before it returns.
StageEnd(h) ==
    LET r == hs[h]
        r1 == [r EXCEPT !.tcp = IF r.pc = "tcp" THEN r.got ELSE @,
                        !.udp = IF r.pc = "udp" THEN r.got ELSE @]
        open == r.tcp \cup r.udp \cup r.got
    IN /\ r.pc \in Stages
       /\ r.live = {}
       /\ \/ cancelled /\ Finish(h, r1, "cancelled", TRUE)
          \/ /\ ~cancelled /\ r.pc = "tcp"
             /\ hs' = [hs EXCEPT ![h] = Fill(r1, "udp", UdpPorts)]
             /\ UNCHANGED processed
          \/ /\ ~cancelled /\ r.pc = "udp"
             /\ \/ Finish(h, r1, "critical", FALSE)
                \/ Finish(h, r1, "empty", TRUE)
                \/ /\ \E s \in SetToSeqs(EndpointTargets(r1.tcp)) :
                         hs' = [hs EXCEPT ![h] = Fill(r1, "endpoint", s)]
                   /\ UNCHANGED processed
          \/ /\ ~cancelled /\ r.pc = "endpoint"
             /\ IF open # {} THEN Finish(h, r1, "found", FALSE)
                ELSE Finish(h, r1, "empty", TRUE)
       /\ UNCHANGED cancelled

HostStep(h) ==
    \/ ScanHostBegin(h)
    \/ \E p \in Ports, ok \in BOOLEAN : ProbeDone(h, p, ok)
    \/ StageEnd(h)

-----------------------------------------------------------------------------
\* Every probe whose result a successful scan_host hands on (Ok(Some)) was
\* completed: all TCP and UDP discovery ports and every endpoint target.
\* A cancellation during the last batch_scan cuts it short without an
\* error, so only scan_host's check after scan_ports_and_endpoints keeps a
\* partial port list from being reported as the host's.
Expected(h) ==
    ({"tcp"} \X ToSet(TcpPorts)) \cup ({"udp"} \X ToSet(UdpPorts))
        \cup ({"endpoint"} \X EndpointTargets(hs[h].tcp))

NoPartialResult ==
    \A h \in Hosts : hs[h].out = "found" => Expected(h) \subseteq hs[h].probed
=============================================================================
