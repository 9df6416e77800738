------------------------- MODULE MC_ScanAlgorithms -------------------------
(***************************************************************************)
(* The daemon's pure scan algorithms over bounded inputs: the state is one *)
(* input: an FD soft limit the daemon may read, an IPv4 block it may scan, *)
(* the scan evidence of a host, a small pattern with evidence, or a        *)
(* service definition; the invariants check each input.                   *)
(***************************************************************************)
EXTENDS ScanBudget, ScanOrder, ServiceMatch, SubnetUpsert, Topology, FiniteSets

\* Every soft limit up to 6000 (all tier and clamp boundaries) and the
\* common large ones.
MCFdLimits == (0..6000) \cup {8192, 65536, 1048576}

\* Every aligned block of a /24 from /24 to /32, as [base, size].
MCBlocks == UNION {{[base |-> i * 2^k, size |-> 2^k] : i \in 0..(2^(8 - k) - 1)}
                   : k \in 0..8}

\* Scan evidence of one host, in two families; a response implies its
\* port is open (the scanner adds it).  The gateway family varies the
\* facts IsGateway tells apart (a routing-table gateway, a .1/.254 address
\* in a subnet without gateways, one in a subnet with another gateway, any
\* other address) with the ports and responses of Switch, Dhcp Server,
\* Fios and the Nest router and three MAC vendors.  The port family, on a
\* plain address, varies ports that an AllOf (Restic, Workstation), an
\* endpoint of another definition (Vaultwarden) and a Not (WGDashboard)
\* contend for, the subnet type, and whether the host is a container.
MCGatewayFacts == {[inTable |-> TRUE, gwCount |-> 1, octet1or254 |-> FALSE],
                   [inTable |-> FALSE, gwCount |-> 0, octet1or254 |-> TRUE],
                   [inTable |-> FALSE, gwCount |-> 1, octet1or254 |-> TRUE],
                   [inTable |-> FALSE, gwCount |-> 0, octet1or254 |-> FALSE]}
MCPlainAddress == [inTable |-> FALSE, gwCount |-> 1, octet1or254 |-> FALSE]
MCResponses == {<<"Http", "/#/login/", "fios">>, <<"Http", "/", "Nest Wifi">>,
                <<"Http", "/", "restic">>, <<"8000", "/manifest.json", "Vaultwarden Web">>}
Evidence(u, resp, m, g, t, d) ==
    [unbound |-> u, resp |-> resp, mac |-> m, inTable |-> g.inTable,
     gwCount |-> g.gwCount, octet1or254 |-> g.octet1or254, subnet |-> t,
     docker |-> d, matched |-> <<>>]
RespondsOn(u, rs) == {r \in SUBSET rs : \A e \in r : e[1] \in u}
MCGatewayEvidence ==
    UNION {{Evidence(u, r, m, g, "Lan", FALSE) :
              r \in RespondsOn(u, {e \in MCResponses : e[3] \in {"fios", "Nest Wifi"}}),
              m \in {"none", "EERO", "GOOGLE"}, g \in MCGatewayFacts}
             : u \in SUBSET {"Http", "Telnet", "Dhcp"}}
MCPortEvidence ==
    UNION {{Evidence(u, r, "none", MCPlainAddress, t, d) :
              r \in RespondsOn(u, {e \in MCResponses : e[3] \in {"restic", "Vaultwarden Web"}}),
              t \in {"Lan", "VpnTunnel"}, d \in BOOLEAN}
             : u \in SUBSET {"Http", "8000", "10086", "Samba", "Rdp"}}
MCEvidence == MCGatewayEvidence \cup MCPortEvidence

\* Every AllOf and AnyOf of one to four leaves: a shared and a custom
\* port, IsGateway and a Not; evaluated for a definition outside the
\* registry, over the evidence that tells these leaves apart.
MCLeaves == {Port("Http"), Port("5055"), IsGateway, Not(Port("Http"))}
MCPatterns == LET kids == BoundedSeq(MCLeaves, 4) \ {<<>>}
              IN {AllOf(s) : s \in kids} \cup {AnyOf(s) : s \in kids}
MCProbeDef(p) == Def("Probe", p, FALSE, FALSE)
MCPatternEvidence ==
    {Evidence(u, {}, "none", g, "Lan", FALSE) :
        u \in SUBSET {"Http", "5055"}, g \in MCGatewayFacts}

\* Subnet submissions: a daemon's interface (LAN /24, VPN /32, a plain /32
\* that yields nothing, a Docker bridge /16, the same CIDR on every Docker
\* host) from self-report, a network scan or Docker discovery of host h1 or
\* h2, and the API's Manual subnets and a Discovery source with no
\* metadata.  No src path creates System subnets.
MCAddrs == {<<1, 5>>, <<2, 7>>}
MCDaemonIfaces ==
    {[type |-> t[1], addr |-> a, len |-> t[2], src |-> Discovered(m)] :
        t \in {<<"Lan", 24>>, <<"VpnTunnel", 32>>, <<"Lan", 32>>}, a \in MCAddrs,
        m \in {Meta("SelfReport", "h1"), Meta("Network", "none")}}
    \cup {[type |-> "DockerBridge", addr |-> <<1, 5>>, len |-> 16,
           src |-> Discovered(Meta("Docker", h))] : h \in {"h1", "h2"}}
MCApiIfaces ==
    {[type |-> "Lan", addr |-> a, len |-> 24, src |-> [k |-> "Manual", meta |-> <<>>]] : a \in MCAddrs}
    \cup {[type |-> "Lan", addr |-> <<1, 5>>, len |-> 24, src |-> [k |-> "Discovery", meta |-> <<>>]]}
MCIfaces == MCDaemonIfaces \cup MCApiIfaces
\* What reaches create: from_discovery's subnet, or the API's body as is.
Submission(f) ==
    IF f \in MCDaemonIfaces THEN from_discovery(f.type, f.addr, f.len, f.src.meta[1])
    ELSE [id |-> 0, cidr |-> Cidr(f.addr, f.len), type |-> f.type, source |-> f.src]
RECURSIVE CreateAll(_, _)
CreateAll(rows, fs) ==
    IF fs = <<>> THEN rows
    ELSE LET sub == Submission(Head(fs))
         IN CreateAll(IF sub = NoSubnet THEN rows ELSE create(rows, sub).rows, Tail(fs))
\* The subnet tables two submissions leave, with a third one to submit.
MCSubnetCases == {<<CreateAll(<<>>, fs), f>> : fs \in BoundedSeq(MCIfaces, 2), f \in MCIfaces}


\* Layout inputs.  Segment pairs: every pair of segments between points of
\* a 3 x 3 grid (degenerate, collinear, touching and crossing ones).
MCPoints == (0..2) \X (0..2)
MCSegmentPairs == (MCPoints \X MCPoints) \X (MCPoints \X MCPoints)

\* Children of one subnet: one to five with every force direction the
\* planner tells apart and VM providers (grids 1x1 to 3x2, the 3x2 one
\* searched to a radius beyond its height), and one to four with wide and
\* tall sizes.
MCForces == {<<0, 0>>, <<1000, 0>>, <<0, -1000>>}
MCPlaceKinds == [force : MCForces, provider : BOOLEAN, size : {<<1, 1>>}]
MCSizeKinds == [force : MCForces, provider : {FALSE}, size : {<<1, 1>>, <<3, 1>>, <<1, 3>>}]
MCChildren == (BoundedSeq(MCPlaceKinds, 5) \cup BoundedSeq(MCSizeKinds, 4)) \ {<<>>}
MCPadding == <<1, 1>>

\* Barycenter candidates: up to four <<desired x, weight>> pairs with the
\* weights calculate_edge_weight gives an edge it keeps (mixed 1,
\* vertical 100).
MCMedianInputs == BoundedSeq((0..2) \X {1, 100}, 4) \ {<<>>}

\* A row of two subnets: widths, x before the pass and barycenter x, in
\* pixels, close enough to each other for every push.
MCRowLength == 2
MCSubnets == [x : {0, 100}, w : {40, 100}]
MCRows == {<<r, o>> : r \in [1..MCRowLength -> MCSubnets],
                      o \in [1..MCRowLength -> {0, 30, 100}]}

VARIABLE input

Inputs == ({"fd"} \X MCFdLimits) \cup ({"block"} \X MCBlocks)
          \cup ({"host"} \X MCEvidence)
          \cup ({"pattern"} \X (MCPatterns \X MCPatternEvidence))
          \cup ({"def"} \X ToSet(Registry))
          \cup ({"subnet"} \X MCSubnetCases)
          \cup ({"segments"} \X MCSegmentPairs)
          \cup ({"children"} \X MCChildren)
          \cup ({"median"} \X MCMedianInputs)
          \cup ({"row"} \X MCRows)

vars == <<input, classifierVars>>

\* A host input starts discover_services on its evidence; the others are
\* checked as they are.
Init == /\ input \in Inputs
        /\ IF input[1] = "host" THEN ClassifierStart(input[2]) ELSE ClassifierIdle

\* The classifier's loop steps; a finished or pure input stays.
Next == \/ DiscoverServices /\ UNCHANGED input
        \/ cphase # "loop" /\ UNCHANGED vars

Spec == Init /\ [][Next]_vars

\* batch_scan with batch_size 0 pushes no future and returns nothing,
\* without an error: a zero window would report every TCP port, UDP
\* service or endpoint of every host as closed.  For every soft limit, the
\* windows scan_tcp_ports, scan_udp_ports and scan_endpoints derive from
\* get_optimal_port_batch_size are at least 1.
EveryBatchScans == input[1] = "fd" => BatchesScan(input[2])

\* Spec section 5 ("FD budget"): the per-host port batch is
\* clamp(available/target - 45, 10, 200) and the host count is derived
\* from it, so the concurrent host scans stay within the descriptors left
\* after the reserve.  scan_host scans with get_optimal_port_batch_size,
\* which is up to 1000, beside the host count derived from the clamp.
FdBudgetRespected == input[1] = "fd" => BudgetRespected(input[2])

\* determine_scan_order visits the tiers of spec section 4.5 in order in
\* every block a subnet of prefix 24 or longer can be: no address of a
\* later tier is probed before an address of an earlier one.
ScanOrderFollowsTiers ==
    input[1] = "block" => TierOrdered(Block(input[2].base, input[2].size))

\* Reference: the pattern table and confidence rules of spec section 4.2,
\* over the leaves the pattern inputs use.
RECURSIVE PortLeaves(_)
PortLeaves(p) == IF p.k = "Port" THEN {p.a}
                 ELSE UNION {PortLeaves(p.kids[i]) : i \in DOMAIN p.kids}

RECURSIVE SpecMatch(_, _)
SpecMatch(p, ev) ==
    LET kid == [i \in DOMAIN p.kids |-> SpecMatch(p.kids[i], ev)]
        hit == {i \in DOMAIN kid : kid[i].ok}
        top == IF hit = {} THEN Low
               ELSE CHOOSE c \in {kid[i].conf : i \in hit} :
                        \A i \in hit : kid[i].conf <= c
        taken == UNION {PortLeaves(Registry[i].pattern) : i \in DOMAIN Registry}
    IN CASE p.k = "Port" ->
              [ok |-> p.a \in ev.unbound,
               conf |-> IF IsCustom(p.a) /\ p.a \notin taken THEN Medium ELSE Low]
         [] p.k = "IsGateway" ->
              [ok |-> ev.inTable \/ (ev.octet1or254 /\ ev.gwCount = 0), conf |-> High]
         [] p.k = "Not" -> [ok |-> ~kid[1].ok, conf |-> Low]
         [] p.k = "AnyOf" -> [ok |-> hit # {}, conf |-> top]
         [] p.k = "AllOf" ->
              [ok |-> hit = DOMAIN kid,
               conf |-> IF Cardinality(hit) > 3 /\ top \in {Low, Medium}
                        THEN top + 1 ELSE top]

\* Pattern::matches agrees with spec section 4.2 on every AllOf and AnyOf
\* of up to four leaves: whether it matches, and with what confidence
\* (the maximum of the matched children, AllOf bumped one tier when more
\* than three Low or Medium children matched).
PatternMatchesSpec ==
    input[1] = "pattern" =>
        LET p == input[2][1]  ev == input[2][2]
            r == Matches(p, ev, MCProbeDef(p))  ref == SpecMatch(p, ev)
        IN r.ok = ref.ok /\ (r.ok => r.conf = ref.conf)

\* A service flagged is_gateway (its pattern contains IsGateway) is only
\* ever classified on a host that IsGateway holds for: the definitions use
\* IsGateway under AllOf, and Not(IsGateway) does not count as a gateway
\* pattern.  discover_services must never mark a switch or an extender
\* that matched because the host is not a gateway as a layer-3 gateway.
GatewayFlagSound ==
    cphase = "done" =>
        \A i \in DOMAIN services : services[i].gateway => IsGatewayHolds(cev)

\* The scanner probes every port and endpoint a definition's pattern looks
\* at, at any depth and under Not: the scan targets are the Pattern::ports
\* and Pattern::endpoints of all definitions.  An endpoint under Not that
\* nothing probes would make Not always match: Overseerr's exclusion of
\* Jellyseerr relies on Jellyseerr probing (5055, "/").
RECURSIVE LeafArgs(_, _)
LeafArgs(p, k) == IF p.k = k THEN {IF k = "Endpoint" THEN <<p.a, p.ep[1]>> ELSE p.a}
                  ELSE UNION {LeafArgs(p.kids[i], k) : i \in DOMAIN p.kids}

ScanCoversPatterns ==
    input[1] = "def" =>
        /\ LeafArgs(input[2].pattern, "Port")
              \subseteq UNION {PatternPorts(Registry[i].pattern) : i \in DOMAIN Registry}
        /\ LeafArgs(input[2].pattern, "Endpoint")
              \subseteq UNION {PatternEndpoints(Registry[i].pattern) : i \in DOMAIN Registry}
\* docker_container.rs matches a container only when no service matched so
\* far runs in it: "the container was already detected as a non-generic
\* service".  That relies on discover_services trying every branded
\* (non-generic) definition before the generic ones, so a Docker Container
\* service never stands beside a branded service of the same host.
ContainerServiceIsFallback ==
    cphase = "done" =>
        \A i, j \in DOMAIN services :
            services[i].name = "Docker Container" => services[j].generic

\* Spec "subnet upsert rule": an existing subnet is returned for a
\* submission only with the submitted CIDR (so it contains the interface's
\* address, a VPN /32 included), and never when both are Docker bridges of
\* different hosts.  SubnetService::create's first-match find and its
\* metadata comparison decide this.
ForeignBridge(row, sub) ==
    /\ sub.source.meta # <<>> /\ sub.source.meta[1].type = "Docker"
    /\ row.source.k = "Discovery" /\ row.source.meta # <<>>
    /\ \A i \in DOMAIN row.source.meta :
          row.source.meta[i].type = "Docker" /\ row.source.meta[i].host # sub.source.meta[1].host
UpsertAnswerSound ==
    input[1] = "subnet" =>
        LET rows == input[2][1]  f == input[2][2]  sub == Submission(f)
            res == create(rows, sub)
        IN sub # NoSubnet /\ ~res.err =>
               /\ CidrContains(res.ret.cidr, f.addr)
               /\ res.ret.id <= Len(rows) /\ sub.source.k = "Discovery"
                    => ~ForeignBridge(res.ret, sub)

\* Reference: two segments meet when a point lies on both.  For segments
\* that are not parallel the meeting point is unique and its parameters on
\* both segments (Cramer's rule) lie in [0, 1]; parallel or degenerate
\* segments meet exactly when an endpoint of one lies on the other.
Cross(u, v) == u[1] * v[2] - u[2] * v[1]
Minus(a, b) == <<a[1] - b[1], a[2] - b[2]>>
Dot(u, v) == u[1] * v[1] + u[2] * v[2]
InUnit(num, den) == IF den > 0 THEN 0 <= num /\ num <= den ELSE den <= num /\ num <= 0
OnSeg(p, a, b) == Cross(Minus(p, a), Minus(b, a)) = 0 /\ Dot(Minus(p, a), Minus(p, b)) <= 0
SegmentsMeet(p1, p2, p3, p4) ==
    LET r == Minus(p2, p1)  t == Minus(p4, p3)  q == Minus(p3, p1)  den == Cross(r, t)
    IN IF den # 0 THEN InUnit(Cross(q, t), den) /\ InUnit(Cross(q, r), den)
       ELSE \/ OnSeg(p1, p3, p4) \/ OnSeg(p2, p3, p4)
            \/ OnSeg(p3, p1, p2) \/ OnSeg(p4, p1, p2)

\* count_edge_crossings counts a pair of edges when segments_intersect
\* holds for their centres.  It agrees with the reference on every pair of
\* segments of the 3 x 3 grid, collinear, touching and degenerate ones
\* included (the EPSILON tests are exact on these integers).
SegmentsIntersectExact ==
    input[1] = "segments" =>
        LET s1 == input[2][1]  s2 == input[2][2]
        IN segments_intersect(s1[1], s1[2], s2[1], s2[2]) = SegmentsMeet(s1[1], s1[2], s2[1], s2[2])

\* calculate_anchor_based_positions returns a layout for every child: the
\* nearest-free-cell search always finds one of the ceil(sqrt n) x
\* ceil(n / ceil(sqrt n)) cells, even on a grid wider than high, where it
\* must search beyond the grid's height.  A child without a layout would
\* be missing from the subnet's drawing.
EveryChildPlaced ==
    input[1] = "children" =>
        DOMAIN calculate_anchor_based_positions(input[2], MCPadding) = 1..Len(input[2])

\* The planner's layout, then the optimizer's compress_vertical_spacing
\* (run on every subnet after the global iterations), leave no two
\* children of a subnet overlapping: the grid gives every column the
\* width of its widest child, so the columns compression stacks on its own
\* never reach into each other.
PlannedChildrenApart ==
    input[1] = "children" =>
        LET nodes == compress_vertical_spacing(
                        calculate_anchor_based_positions(input[2], MCPadding), MCPadding[2])
        IN \A i, j \in DOMAIN nodes :
              i # j => ~rectangles_overlap(nodes[i].pos, nodes[i].size, nodes[j].pos, nodes[j].size)

\* The barycenter a subnet is moved to, calculate_weighted_median of its
\* neighbours' desired x, minimises the weighted horizontal distance to
\* them: no candidate position is closer in total.
WeightedCost(values, x) == MapThenSumSet(LAMBDA i : values[i][2] * AbsVal(values[i][1] - x), DOMAIN values)
WeightedMedianMinimises ==
    input[1] = "median" =>
        \A i \in DOMAIN input[2] :
            WeightedCost(input[2], calculate_weighted_median(input[2]))
                <= WeightedCost(input[2], input[2][i][1])

\* After a subnet layer's last optimize_layer and the final snap_to_grid,
\* two subnets of one row do not overlap.  The layer's x are settled by its
\* last pass (other layers' passes do not move it).  The second subnet
\* is pushed clear of the first one's new x, the first clear of the
\* second's old x.  (Rows of three are discussed in the README.)
RowApart ==
    input[1] = "row" =>
        LET row == input[2][1]
            x == optimize_layer(row, input[2][2])
        IN \A i, j \in DOMAIN row :
              i # j => \/ snap_to_grid(x[i]) + row[i].w <= snap_to_grid(x[j])
                       \/ snap_to_grid(x[j]) + row[j].w <= snap_to_grid(x[i])

\* try_swap's "Check if swap would cause overlaps" compares each moved
\* node with every third node, never with the other node of the pair.
\* Stated for the planner's layout of one zone (no pins), with the score
\* accepting any of the tries; it is not in a run (see README: a wide
\* child swapped with a narrow neighbour in its row lands on it).
Pairs(n) == FlattenSeq([i \in 1..n |-> [k \in 1..(n - i) |-> <<i, i + k>>]])
SwappedChildrenApart ==
    input[1] = "children" =>
        LET planned == calculate_anchor_based_positions(input[2], MCPadding)
            cons == [i \in DOMAIN planned |-> [infra |-> FALSE, pinX |-> FALSE, pinY |-> FALSE]]
            pairs == Pairs(Len(input[2]))
        IN \A accepts \in [1..Len(pairs) -> BOOLEAN] :
              LET nodes == try_all_swaps(planned, pairs, cons, accepts)
              IN \A i, j \in DOMAIN nodes :
                    i # j => ~rectangles_overlap(nodes[i].pos, nodes[i].size, nodes[j].pos, nodes[j].size)
=============================================================================
