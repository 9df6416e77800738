----------------------------- MODULE ScanBudget -----------------------------
(***************************************************************************)
(* File-descriptor budget of the daemon's network scanner                  *)
(* (daemon/utils/base.rs get_optimal_port_batch_size and                   *)
(* get_optimal_concurrent_scans, daemon/utils/scanner.rs batch sizes).     *)
(* Pure functions of the process's FD soft limit, stated as operators.     *)
(* All arithmetic is usize:                                                *)
(* saturating_sub floors at 0 and / is integer division.                   *)
(***************************************************************************)
EXTENDS Naturals

\* reserved: stdin/out/err, endpoint HTTP clients, daemon work, safety buffer.
Reserved == 203

\* usize::saturating_sub
SatSub(a, b) == IF a > b THEN a - b ELSE 0

\* Ord::clamp and std::cmp::min on usize.
Clamp(x, lo, hi) == IF x < lo THEN lo ELSE IF x > hi THEN hi ELSE x
MinOf(a, b) == IF a < b THEN a ELSE b

Available(fd) == SatSub(fd, Reserved)

\* Mutant: a very constrained system also takes half of what is available.
PortBatchHalfWhenLow(fd) ==
    IF Available(fd) < 1000 THEN Available(fd) \div 2 ELSE 1000

\* get_optimal_port_batch_size: the batch every host scan uses.
get_optimal_port_batch_size(fd) ==
    LET available == Available(fd)
    IN CASE available < 50  -> 20
         [] available < 500 -> available \div 2
         [] OTHER           -> MinOf(available, 1000)

\* get_optimal_concurrent_scans: the target tier, the per-host port batch
\* it assumes, the hosts that batch affords, and the user override (any
\* configured value other than the default 15).
TargetConcurrentHosts(available) ==
    CASE available < 500  -> 5
      [] available < 2000 -> 15
      [] available < 5000 -> 30
      [] OTHER            -> 50

PerHostOverhead == 25 + 20   \* endpoint_fds_per_host + overhead_per_host

PortBatchBounded(fd) ==
    LET available == Available(fd)
    IN Clamp(SatSub(available \div TargetConcurrentHosts(available),
                    PerHostOverhead), 10, 200)

OptimalConcurrent(fd) ==
    Clamp(Available(fd) \div (PortBatchBounded(fd) + PerHostOverhead), 1, 50)

get_optimal_concurrent_scans(fd, configured) ==
    IF configured # 15 THEN configured ELSE OptimalConcurrent(fd)

\* scan_udp_ports caps UDP at 10; scan_endpoints halves the batch, at most 50.
UdpBatchSize(batch) == MinOf(batch, 10)
EndpointBatchSize(batch) == MinOf(batch \div 2, 50)

-----------------------------------------------------------------------------
(* What the budget is meant to guarantee for one soft limit fd.            *)

\* Every batch_scan the host scan runs has a window of at least one.
BatchesScan(fd) ==
    LET b == get_optimal_port_batch_size(fd)
    IN b >= 1 /\ UdpBatchSize(b) >= 1 /\ EndpointBatchSize(b) >= 1

\* The automatic host count, each host holding the port batch scan_host
\* actually scans with plus its endpoint and overhead descriptors, fits.
BudgetRespected(fd) ==
    Available(fd) >= 10 + PerHostOverhead =>
        get_optimal_concurrent_scans(fd, 15)
          * (get_optimal_port_batch_size(fd) + PerHostOverhead)
            <= Available(fd)
=============================================================================
