---------------------------- MODULE SubnetUpsert ----------------------------
(***************************************************************************)
(* The subnets a daemon submits (Subnet::from_discovery, server/subnets/   *)
(* impl/base.rs) and the server's upsert of them (SubnetService::create,   *)
(* server/subnets/service.rs).  create reads the rows of the request's     *)
(* network only, so the network is fixed.  An IPv4 address is abstracted   *)
(* to its third and fourth octets under a fixed /16; a CIDR to its network *)
(* address and prefix length.  A request carries a fresh id (Subnet::new), *)
(* so PartialEq's id branch never matches and equality is CIDR equality.  *)
(***************************************************************************)
EXTENDS Naturals, Sequences, SequencesExt

\* The network address of addr under a /16, /24 or /32 prefix.
NetOf(addr, len) ==
    CASE len = 16 -> <<0, 0>>
      [] len = 24 -> <<addr[1], 0>>
      [] len = 32 -> addr

Cidr(addr, len) == [net |-> NetOf(addr, len), len |-> len]

\* IpCidr::contains.
CidrContains(c, addr) == NetOf(addr, c.len) = c.net

\* A Discovery source carries DiscoveryMetadata entries: the discovery type
\* and, for SelfReport and Docker, the host id.
Meta(type, host) == [type |-> type, host |-> host]
Discovered(m) == [k |-> "Discovery", meta |-> <<m>>]

NoSubnet == [cidr |-> "none"]

\* Subnet::from_discovery for an IPv4 interface: a /32 VPN tunnel becomes
\* the /24 around it, any other /32 yields no subnet, and every other
\* prefix gives the interface's network.  The row is a Discovery row with
\* one metadata entry and the type SubnetType::from_interface_name gave.
from_discovery(type, addr, len, m) ==
    IF len = 32 /\ type # "VpnTunnel" THEN NoSubnet
    ELSE [id |-> 0, cidr |-> IF len = 32 THEN Cidr(addr, 24) ELSE Cidr(addr, len),
          type |-> type, source |-> Discovered(m)]

\* Mutant: the Docker arm does not compare the host ids.
UpsertVerdictAnyDocker(existing, req) ==
    CASE existing.source.k = "Discovery" /\ req.source.k = "Discovery" ->
            IF req.source.meta = <<>> THEN "error" ELSE "reuse"
      [] existing.source.k = "System" \/ req.source.k = "System" -> "create"
      [] OTHER -> "reuse"

\* The guard of create's first match arm: whether the existing row may be
\* returned for the request.  Two Discovery rows share unless both are
\* Docker discoveries of different hosts; a request without metadata is an
\* error; a System row on either side never shares; anything else does.
UpsertVerdict(existing, req) ==
    CASE existing.source.k = "Discovery" /\ req.source.k = "Discovery" ->
            IF req.source.meta = <<>> THEN "error"
            ELSE IF \E i \in DOMAIN existing.source.meta :
                      LET o == existing.source.meta[i]  m == req.source.meta[1]
                      IN m.type = "Docker" /\ o.type = "Docker" => m.host = o.host
                 THEN "reuse" ELSE "create"
      [] existing.source.k = "System" \/ req.source.k = "System" -> "create"
      [] OTHER -> "reuse"

\* SubnetService::create on the rows of the network in created_at order:
\* find the first row with the request's CIDR; return it if the guard lets
\* it be shared, otherwise insert the request (its id is the next one).
\* The result is the new row list, the subnet returned, and whether an Err
\* was returned instead.
create(rows, sub) ==
    LET req  == [sub EXCEPT !.id = Len(rows) + 1]   \* Subnet::new's fresh id
        same == {i \in DOMAIN rows : rows[i].cidr = req.cidr}
        first == CHOOSE i \in same : \A j \in same : i <= j
        verdict == IF same = {} THEN "create" ELSE UpsertVerdict(rows[first], req)
    IN CASE verdict = "reuse"  -> [rows |-> rows, ret |-> rows[first], err |-> FALSE]
         [] verdict = "create" -> [rows |-> Append(rows, req), ret |-> req, err |-> FALSE]
         [] verdict = "error"  -> [rows |-> rows, ret |-> NoSubnet, err |-> TRUE]
=============================================================================
