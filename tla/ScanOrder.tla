----------------------------- MODULE ScanOrder ------------------------------
(***************************************************************************)
(* The order in which a network scan visits the addresses of a subnet      *)
(* (daemon/discovery/service/network.rs determine_scan_order): a stable    *)
(* sort by a key of the IPv4 last octet; IPv6 addresses sort last.  An     *)
(* address is abstracted to its family and last octet.                     *)
(***************************************************************************)
EXTENDS Naturals, Sequences, TLC

Octets == 0..255
Addr == [v6 : BOOLEAN, octet : Octets]

\* The match on the last octet of an IPv4 address.
OctetKey(o) ==
    CASE o = 1   -> 1
      [] o = 254 -> 2
      [] o = 2   -> 10
      [] o = 3   -> 11
      [] o = 10  -> 12
      [] o = 100 -> 13
      [] o = 253 -> 14
      [] o = 252 -> 15
      [] o \in 4..9     -> 20 + o
      [] o \in 11..20   -> 30 + o
      [] o \in 21..30   -> 50 + o
      [] o \in 31..50   -> 100 + o
      [] o \in 51..100  -> 200 + o
      [] o \in 101..150 -> 400 + o
      [] o \in 151..200 -> 600 + o
      [] o \in 201..251 -> 800 + o
      [] o \in {0, 255} -> 9998

\* Mutant: the servers range is offset by 130 instead of 30.
ScanKeyServersOffset(ip) ==
    IF ip.v6 THEN 9999
    ELSE IF ip.octet \in 11..20 THEN 130 + ip.octet ELSE OctetKey(ip.octet)

\* The sort_by_key closure: IPv6 addresses last.
ScanKey(ip) == IF ip.v6 THEN 9999 ELSE OctetKey(ip.octet)

\* Vec::sort_by_key is stable: ties keep the subnet's iteration order.
determine_scan_order(ips) ==
    LET Before(j, k) == \/ ScanKey(ips[j]) < ScanKey(ips[k])
                        \/ ScanKey(ips[j]) = ScanKey(ips[k]) /\ j < k
        idx == SortSeq([k \in 1..Len(ips) |-> k], Before)
    IN [r \in 1..Len(ips) |-> ips[idx[r]]]

\* IpCidr::iter over an IPv4 block inside one /24: every address from the
\* network address to the broadcast address, ascending.
Block(base, size) == [i \in 1..size |-> [v6 |-> FALSE, octet |-> base + i - 1]]

\* Reference: the tier table of spec section 4.5 (6 = the "skip" row).
SpecTier(o) ==
    CASE o \in {1, 254}                    -> 1
      [] o \in {2, 3, 10, 100, 252, 253}   -> 2
      [] o \in 4..30 \ {10}                -> 3
      [] o \in 31..150 \ {100}             -> 4
      [] o \in 151..251                    -> 5
      [] o \in {0, 255}                    -> 6

\* The scan of ips visits the spec's tiers in order.
TierOrdered(ips) ==
    LET ord == determine_scan_order(ips)
    IN \A i \in 1..Len(ord) - 1 : SpecTier(ord[i].octet) <= SpecTier(ord[i + 1].octet)
=============================================================================
