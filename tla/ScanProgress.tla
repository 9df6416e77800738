---------------------------- MODULE ScanProgress ----------------------------
(***************************************************************************)
(* The network runner's scan loop (daemon/discovery/service/network.rs     *)
(* scan_and_process_hosts), its progress reports (periodic_scan_update)    *)
(* and the processed count of its terminal report (finish_discovery, both  *)
(* in daemon/discovery/service/base.rs), composed with the host scans it   *)
(* polls (HostScan) in the order determine_scan_order gives (ScanOrder).   *)
(* Hosts are IPv4 addresses of one subnet, named by their last octet.      *)
(***************************************************************************)
EXTENDS HostScan, ScanOrder

CONSTANT Concurrency   \* get_optimal_concurrent_scans(configured)

ASSUME Hosts \subseteq Octets

VARIABLES
    sp,            \* scanning, finish_ok, finish_err (scan_and_process_hosts
                   \* returned), done (finish_discovery reported)
    nxt,           \* IPs of all_ips_with_subnets handed to buffer_unordered
    lastReported,  \* last_reported_processed_count
    final          \* the terminal update: [phase, processed], or NoReport

vars == <<hs, cancelled, processed, sp, nxt, lastReported, final>>

NoReport == [phase |-> "none", processed |-> 0]
Verdicts == {"Complete", "Cancelled", "Failed"}

\* total_ips_across_subnets: every address of the subnet.
Total == Cardinality(Hosts)

\* all_ips_with_subnets: the subnet's addresses in ascending order, sorted
\* by determine_scan_order.
HostSeq ==
    LET ips == SetToSortSeq(Hosts, <)
        order == determine_scan_order([i \in 1..Len(ips) |->
                                          [v6 |-> FALSE, octet |-> ips[i]]])
    IN [i \in 1..Len(order) |-> order[i].octet]

\* periodic_scan_update: (total/15).max(1), clamped to 1..50.
Threshold == Clamp(IF Total \div 15 > 1 THEN Total \div 15 ELSE 1, 1, 50)

TypeOK ==
    /\ HostTypeOK
    /\ sp \in {"scanning", "finish_ok", "finish_err", "done"}
    /\ nxt \in 0..Total
    /\ lastReported \in 0..Total
    /\ final \in {NoReport} \cup [phase : Verdicts, processed : 0..Total]

Init ==
    /\ hs = [h \in Hosts |-> NewHost]
    /\ cancelled = FALSE
    /\ processed = 0
    /\ sp = "scanning"
    /\ nxt = 0
    /\ lastReported = 0
    /\ final = NoReport

\* Futures buffer_unordered holds: polled and not yet yielded.
InFlight == {h \in Hosts : hs[h].pc \notin {"queued", "yielded"}}

\* buffer_unordered(concurrent_scans) pulls the next IP while fewer than
\* concurrent_scans futures are pending.
AdmitHost ==
    /\ sp = "scanning"
    /\ nxt < Total
    /\ Cardinality(InFlight) < Concurrency
    /\ hs' = [hs EXCEPT ![HostSeq[nxt + 1]].pc = "start"]
    /\ nxt' = nxt + 1
    /\ UNCHANGED <<cancelled, processed, sp, lastReported, final>>

\* periodic_scan_update after a result: report Scanning(processed) once the
\* count has grown by the threshold or reached the total; a failed report
\* (`?`) ends the scan with Err.
PeriodicScanUpdate ==
    IF processed >= lastReported + Threshold \/ processed = Total
    THEN \/ lastReported' = processed /\ sp' = sp
         \/ sp' = "finish_err" /\ lastReported' = lastReported
    ELSE UNCHANGED <<sp, lastReported>>

\* Results that may be an Err the loop tolerates or not: a host with
\* ports, whose process_host, MAC lookup or create_host can fail, and a
\* scan_host error propagated by `?`.
MayFail(h) == hs[h].out \in {"found", "failed"}

\* Mutant: the loop does not look at the token after a result.
YieldHostIgnoreCancel(h) ==
    /\ sp = "scanning"
    /\ hs[h].pc = "done"
    /\ hs' = [hs EXCEPT ![h].pc = "yielded"]
    /\ CASE hs[h].out = "critical" ->
              sp' = "finish_err" /\ lastReported' = lastReported
        [] hs[h].out \in {"found", "failed", "cancelled"} ->
              \/ sp' = "finish_err" /\ lastReported' = lastReported
              \/ PeriodicScanUpdate
        [] OTHER -> PeriodicScanUpdate
    /\ UNCHANGED <<cancelled, processed, nxt, final>>

\* The loop takes a finished host's result.  A cancelled token returns Err;
\* a critical error returns it; anything else, a host that process_host
\* turns into a created host or not included, goes on to the progress
\* report.  Whether an error is critical is decided from its text.
YieldHost(h) ==
    /\ sp = "scanning"
    /\ hs[h].pc = "done"
    /\ hs' = [hs EXCEPT ![h].pc = "yielded"]
    /\ IF cancelled
       THEN sp' = "finish_err" /\ lastReported' = lastReported
       ELSE CASE hs[h].out = "critical" ->
                    sp' = "finish_err" /\ lastReported' = lastReported
              [] MayFail(h) ->
                    \/ sp' = "finish_err" /\ lastReported' = lastReported
                    \/ PeriodicScanUpdate
              [] OTHER -> PeriodicScanUpdate
    /\ UNCHANGED <<cancelled, processed, nxt, final>>

\* The stream is exhausted: scan_and_process_hosts returns Ok.
StreamEnd ==
    /\ sp = "scanning"
    /\ nxt = Total
    /\ \A h \in Hosts : hs[h].pc = "yielded"
    /\ sp' = "finish_ok"
    /\ UNCHANGED <<hs, cancelled, processed, nxt, lastReported, final>>

\* Mutant: discover returns early (`?`) when the scan returned Err.
FinishDiscoveryOkOnly ==
    /\ sp = "finish_ok"
    /\ final' = [phase |-> "Complete", processed |-> processed]
    /\ sp' = "done"
    /\ UNCHANGED <<hs, cancelled, processed, nxt, lastReported>>

\* finish_discovery: the phase from the result and the token, the count
\* from session.processed_count.
FinishDiscovery ==
    /\ sp \in {"finish_ok", "finish_err"}
    /\ final' = [phase |-> IF sp = "finish_ok" THEN "Complete"
                           ELSE IF cancelled THEN "Cancelled" ELSE "Failed",
                 processed |-> processed]
    /\ sp' = "done"
    /\ UNCHANGED <<hs, cancelled, processed, nxt, lastReported>>

\* cancel_session reaches the daemon, which cancels the token.
Cancel ==
    /\ ~cancelled /\ sp # "done"
    /\ cancelled' = TRUE
    /\ UNCHANGED <<hs, processed, sp, nxt, lastReported, final>>

\* Host futures run only while the stream is polled; returning drops them.
ScanHosts ==
    /\ sp = "scanning"
    /\ \E h \in Hosts : HostStep(h)
    /\ UNCHANGED <<sp, nxt, lastReported, final>>

Next ==
    \/ AdmitHost \/ ScanHosts \/ \E h \in Hosts : YieldHost(h)
    \/ StreamEnd \/ FinishDiscovery \/ Cancel

\* Probes end by their timeouts and the stream keeps being polled; the
\* user's cancel is not obliged to happen.
Fairness ==
    /\ WF_vars(AdmitHost) /\ WF_vars(ScanHosts)
    /\ \A h \in Hosts : WF_vars(YieldHost(h))
    /\ WF_vars(StreamEnd) /\ WF_vars(FinishDiscovery)

Spec == Init /\ [][Next]_vars /\ Fairness

-----------------------------------------------------------------------------
\* A session reported Complete had none of its hosts cut short by the
\* cancellation token: the loop's is_cancelled check after every result
\* turns any host that saw the token into an Err for the whole scan.
CompleteNotCancelled ==
    final.phase = "Complete" => \A h \in Hosts : hs[h].out # "cancelled"

\* Every network scan ends with a terminal report, whatever the hosts'
\* outcomes and whenever a cancel arrives.
ScanTerminates == <>(final # NoReport)

\* Spec sections 4.3 and 8: the agent reports progress "on completion" and
\* the terminal update carries the processed count, so a session that
\* completes reports every address of its subnets as processed.  scan_host
\* counts a host only when it found nothing, hit a tolerated scan error or
\* saw the token.
CompleteCountsAll ==
    final.phase = "Complete" => final.processed = Total
=============================================================================
