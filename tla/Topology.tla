------------------------------ MODULE Topology ------------------------------
(***************************************************************************)
(* The server's topology layout (server/topology): the pure geometry of    *)
(* the optimizer's utilities, the planner that places the children of a    *)
(* subnet on a grid, the child positioner's column compression and its     *)
(* pairwise swaps, and the subnet positioner's weighted median, overlap    *)
(* constraint and layer pass.  Coordinates are small integers (the code    *)
(* computes in isize, f32 or f64; on the small integers used here f64 is   *)
(* exact).  A node is a record [pos |-> <<x, y>>, size |-> <<w, h>>]; a    *)
(* child of the planner is [force |-> <<fx, fy>>, provider |-> BOOLEAN,    *)
(* size |-> <<w, h>>], its force being what the planner's first half       *)
(* computes from the subnet topology (not modelled, see README).           *)
(***************************************************************************)
EXTENDS Integers, Sequences, FiniteSets, SequencesExt, FiniteSetsExt, TLC

AbsVal(v) == IF v < 0 THEN -v ELSE v

\* f32/f64 round() of a / b for b > 0: half away from zero.
RoundDiv(a, b) == IF a >= 0 THEN (2 * a + b) \div (2 * b)
                  ELSE -((2 * (-a) + b) \div (2 * b))

\* isize::clamp.
Between(v, lo, hi) == IF v < lo THEN lo ELSE IF v > hi THEN hi ELSE v

-----------------------------------------------------------------------------
(* optimizer/utils.rs: geometric utilities                                 *)

\* Two rectangles overlap unless one lies wholly to one side of the other.
rectangles_overlap(p1, d1, p2, d2) ==
    ~ \/ p1[1] + d1[1] <= p2[1]
      \/ p2[1] + d2[1] <= p1[1]
      \/ p1[2] + d1[2] <= p2[2]
      \/ p2[2] + d2[2] <= p1[2]

\* The cross product of (c - a) and (b - a).
direction(a, b, c) == (c[1] - a[1]) * (b[2] - a[2]) - (c[2] - a[2]) * (b[1] - a[1])

\* c lies in the bounding box of a and b.
on_segment(a, b, c) ==
    /\ c[1] <= Max({a[1], b[1]}) /\ c[1] >= Min({a[1], b[1]})
    /\ c[2] <= Max({a[2], b[2]}) /\ c[2] >= Min({a[2], b[2]})

Opposite(u, v) == (u > 0 /\ v < 0) \/ (u < 0 /\ v > 0)

\* A mutant: the collinear cases are only checked for the first segment's
\* endpoints.
segments_intersect_general_only(p1, p2, p3, p4) ==
    LET d1 == direction(p3, p4, p1)  d2 == direction(p3, p4, p2)
        d3 == direction(p1, p2, p3)  d4 == direction(p1, p2, p4)
    IN \/ Opposite(d1, d2) /\ Opposite(d3, d4)
       \/ d1 = 0 /\ on_segment(p3, p4, p1)
       \/ d2 = 0 /\ on_segment(p3, p4, p2)

\* Segments p1p2 and p3p4 intersect: they straddle each other, or an
\* endpoint of one lies on the other (|d| < EPSILON is d = 0 on integers).
segments_intersect(p1, p2, p3, p4) ==
    LET d1 == direction(p3, p4, p1)  d2 == direction(p3, p4, p2)
        d3 == direction(p1, p2, p3)  d4 == direction(p1, p2, p4)
    IN \/ Opposite(d1, d2) /\ Opposite(d3, d4)
       \/ d1 = 0 /\ on_segment(p3, p4, p1)
       \/ d2 = 0 /\ on_segment(p3, p4, p2)
       \/ d3 = 0 /\ on_segment(p1, p2, p3)
       \/ d4 = 0 /\ on_segment(p1, p2, p4)

-----------------------------------------------------------------------------
(* planner/child_planner.rs: calculate_anchor_based_positions, from the    *)
(* force its first half gives every child                                  *)

\* ceil(sqrt(n)) columns and ceil(n / columns) rows, at least one each.
GridW(n) == Max({1, CHOOSE w \in 0..n : w * w >= n /\ (w = 0 \/ (w - 1) * (w - 1) < n)})
GridH(n, w) == Max({1, (n + w - 1) \div w})

\* The ideal cell on an axis of `cells` cells: the force normalised to
\* [0, 1] (0.5 when all forces are equal) times cells - 1, rounded.  The
\* vertical axis is flipped (1 - norm_y).
IdealCell(v, lo, hi, cells, flip) ==
    IF hi = lo THEN RoundDiv(cells - 1, 2)
    ELSE RoundDiv((IF flip THEN hi - v ELSE v - lo) * (cells - 1), hi - lo)

\* Cells scanned at radius r around (ix, iy): dy outer, dx inner, each
\* clamped into the grid.
Ring(ix, iy, r, w, h) ==
    [k \in 1..(2 * r + 1) * (2 * r + 1) |->
        <<Between(ix - r + ((k - 1) % (2 * r + 1)), 0, w - 1),
          Between(iy - r + ((k - 1) \div (2 * r + 1)), 0, h - 1)>>]

\* A mutant: the search stops at the smaller grid dimension.
SearchOrderMinRadius(ix, iy, w, h) ==
    FlattenSeq([r \in 1..Min({w, h}) |-> Ring(ix, iy, r - 1, w, h)])

\* The nearest-available-cell search: radius 0 .. max(w, h) - 1.
SearchOrder(ix, iy, w, h) ==
    FlattenSeq([r \in 1..Max({w, h}) |-> Ring(ix, iy, r - 1, w, h)])

IsProviderFirst(ch, i, j) == ch[i].provider /\ ~ch[j].provider
Magnitude(f) == Max({AbsVal(f[1]), AbsVal(f[2])})

\* The placement order: VM providers first, then by force magnitude,
\* strongest first; sort_by is stable.
PlacedBefore(ch, i, j) ==
    \/ IsProviderFirst(ch, i, j)
    \/ /\ ch[i].provider = ch[j].provider
       /\ \/ Magnitude(ch[i].force) > Magnitude(ch[j].force)
          \/ Magnitude(ch[i].force) = Magnitude(ch[j].force) /\ i < j
PlacementOrder(ch) ==
    [k \in 1..Len(ch) |->
        CHOOSE i \in 1..Len(ch) :
            Cardinality({j \in 1..Len(ch) : PlacedBefore(ch, j, i)}) = k - 1]

\* The grid after placing the children: cell -> child index, 0 when empty.
\* A child whose search finds no free cell is left out.
RECURSIVE PlaceAll(_, _, _, _, _)
PlaceAll(ch, grid, order, w, h) ==
    IF order = <<>> THEN grid
    ELSE LET c == Head(order)
             fx == {ch[i].force[1] : i \in 1..Len(ch)}
             fy == {ch[i].force[2] : i \in 1..Len(ch)}
             ix == Between(IdealCell(ch[c].force[1], Min(fx), Max(fx), w, FALSE), 0, w - 1)
             iy == Between(IdealCell(ch[c].force[2], Min(fy), Max(fy), h, TRUE), 0, h - 1)
             cells == SearchOrder(ix, iy, w, h)
             k == SelectInSeq(cells, LAMBDA cell : grid[cell] = 0)
         IN PlaceAll(ch, IF k = 0 THEN grid ELSE [grid EXCEPT ![cells[k]] = c],
                     Tail(order), w, h)

\* Pixel offset of column (row) i: padding, then each earlier column's
\* widest child (row's tallest) plus padding.
RECURSIVE Offset(_, _, _)
Offset(extent, i, pad) == IF i = 0 THEN pad ELSE Offset(extent, i - 1, pad) + extent[i - 1] + pad

\* The children's layouts, keyed by child index.
calculate_anchor_based_positions(ch, padding) ==
    IF ch = <<>> THEN <<>>
    ELSE LET w == GridW(Len(ch))  h == GridH(Len(ch), w)
             empty == [cell \in (0..w - 1) \X (0..h - 1) |-> 0]
             grid == PlaceAll(ch, empty, PlacementOrder(ch), w, h)
             at(cell) == {grid[cell]} \ {0}
             colW == [c \in 0..w - 1 |-> Max({0} \cup {ch[i].size[1] : i \in UNION {at(<<c, r>>) : r \in 0..h - 1}})]
             rowH == [r \in 0..h - 1 |-> Max({0} \cup {ch[i].size[2] : i \in UNION {at(<<c, r>>) : c \in 0..w - 1}})]
             cellOf(i) == CHOOSE cell \in DOMAIN grid : grid[cell] = i
         IN [i \in {grid[cell] : cell \in DOMAIN grid} \ {0} |->
                [pos |-> <<Offset(colW, cellOf(i)[1], padding[1]),
                           Offset(rowH, cellOf(i)[2], padding[2])>>,
                 size |-> ch[i].size]]

-----------------------------------------------------------------------------
(* optimizer/child_positioner.rs: the interface nodes of one subnet, as a  *)
(* function from node id to [pos, size]                                    *)

\* A mutant: the column is stacked by the nodes' widths.
compress_vertical_spacing_by_width(nodes, pady) ==
    LET startY == Min({nodes[j].pos[2] : j \in DOMAIN nodes})
        above(i) == {j \in DOMAIN nodes :
                        /\ nodes[j].pos[1] = nodes[i].pos[1]
                        /\ \/ nodes[j].pos[2] < nodes[i].pos[2]
                           \/ nodes[j].pos[2] = nodes[i].pos[2] /\ j < i}
    IN [i \in DOMAIN nodes |->
          [nodes[i] EXCEPT !.pos[2] =
              startY + MapThenSumSet(LAMBDA j : nodes[j].size[1] + pady, above(i))]]

\* Nodes sharing an x form a column; each column is stacked, in y order
\* (a stable sort), from the subnet's minimum y, each node padding below
\* the one above it.
compress_vertical_spacing(nodes, pady) ==
    LET startY == Min({nodes[j].pos[2] : j \in DOMAIN nodes})
        above(i) == {j \in DOMAIN nodes :
                        /\ nodes[j].pos[1] = nodes[i].pos[1]
                        /\ \/ nodes[j].pos[2] < nodes[i].pos[2]
                           \/ nodes[j].pos[2] = nodes[i].pos[2] /\ j < i}
    IN [i \in DOMAIN nodes |->
          [nodes[i] EXCEPT !.pos[2] =
              startY + MapThenSumSet(LAMBDA j : nodes[j].size[2] + pady, above(i))]]

\* try_swap of nodes a and b: refused across the infra boundary, when a
\* pinned axis would move, or when either node at the other's position
\* would overlap a third node; otherwise the swap is kept when the layout
\* score says so (`accept`: the score is not modelled).  cons[n] is
\* [infra, pinX, pinY].
try_swap(nodes, a, b, cons, accept) ==
    LET pa == nodes[a].pos  pb == nodes[b].pos
        allowed ==
            /\ cons[a].infra = cons[b].infra
            /\ pb[1] # pa[1] => ~cons[a].pinX /\ ~cons[b].pinX
            /\ pb[2] # pa[2] => ~cons[a].pinY /\ ~cons[b].pinY
            /\ \A o \in DOMAIN nodes \ {a, b} :
                  /\ ~rectangles_overlap(pb, nodes[a].size, nodes[o].pos, nodes[o].size)
                  /\ ~rectangles_overlap(pa, nodes[b].size, nodes[o].pos, nodes[o].size)
    IN IF allowed /\ accept
       THEN [nodes EXCEPT ![a].pos = pb, ![b].pos = pa]
       ELSE nodes

\* try_all_swaps: every pair i < j of the zone's ids, in order, with the
\* score's verdict on each try.
RECURSIVE try_all_swaps(_, _, _, _)
try_all_swaps(nodes, pairs, cons, accepts) ==
    IF pairs = <<>> THEN nodes
    ELSE try_all_swaps(try_swap(nodes, Head(pairs)[1], Head(pairs)[2], cons, Head(accepts)),
                       Tail(pairs), cons, Tail(accepts))

-----------------------------------------------------------------------------
(* optimizer/subnet_positioner.rs                                          *)

GridSize == 25
SubnetPadding == 50

snap_to_grid(v) == RoundDiv(v, GridSize) * GridSize

\* values sorted by position, stably.
SortedByPos(values) ==
    [k \in 1..Len(values) |->
        values[CHOOSE i \in 1..Len(values) :
                  Cardinality({j \in 1..Len(values) :
                                 \/ values[j][1] < values[i][1]
                                 \/ values[j][1] = values[i][1] /\ j < i}) = k - 1]]

\* The first position at which the cumulative weight reaches half the total.
MedianOf(s) ==
    LET total == MapThenSumSet(LAMBDA i : s[i][2], DOMAIN s)
        k == SelectInSeq([i \in DOMAIN s |-> 2 * MapThenSumSet(LAMBDA j : s[j][2], 1..i)],
                         LAMBDA c : c >= total)
    IN IF k = 0 THEN s[Len(s)][1] ELSE s[k][1]

\* A mutant: the sort by position is left out.
calculate_weighted_median_unsorted(values) ==
    CASE values = <<>> -> 0
      [] Len(values) = 1 -> values[1][1]
      [] OTHER -> MedianOf(values)

\* values: <<desired subnet x, edge weight>> pairs.
calculate_weighted_median(values) ==
    CASE values = <<>> -> 0
      [] Len(values) = 1 -> values[1][1]
      [] OTHER -> MedianOf(SortedByPos(values))

\* A mutant: the other subnets are taken at their old x, never at the x
\* already chosen in this pass.
apply_non_overlap_constraint_stale(row, s, proposed, positioned) ==
    LET hits == {o \in DOMAIN row \ {s} :
                    /\ proposed < row[o].x + row[o].w + SubnetPadding
                    /\ proposed + row[s].w + SubnetPadding > row[o].x}
        o == Min(hits)
        left == row[o].x - row[s].w - SubnetPadding
        right == row[o].x + row[o].w + SubnetPadding
    IN IF hits = {} THEN proposed
       ELSE IF AbsVal(proposed - left) < AbsVal(proposed - right) THEN left ELSE right

\* row: the subnets of one y, in node order, as [x, w]; positioned: the x
\* already chosen in this pass.  The first subnet (in node order) the
\* proposal comes within padding of decides the push, and the function
\* returns at once.
apply_non_overlap_constraint(row, s, proposed, positioned) ==
    LET otherX(o) == IF o \in DOMAIN positioned THEN positioned[o] ELSE row[o].x
        hits == {o \in DOMAIN row \ {s} :
                    /\ proposed < otherX(o) + row[o].w + SubnetPadding
                    /\ proposed + row[s].w + SubnetPadding > otherX(o)}
        o == Min(hits)
        left == otherX(o) - row[s].w - SubnetPadding
        right == otherX(o) + row[o].w + SubnetPadding
    IN IF hits = {} THEN proposed
       ELSE IF AbsVal(proposed - left) < AbsVal(proposed - right) THEN left ELSE right

\* optimize_layer: each subnet in turn takes its barycenter x (`optimal`,
\* the weighted median of its neighbours), constrained, at once.
RECURSIVE LayerFrom(_, _, _, _)
LayerFrom(row, optimal, i, positioned) ==
    IF i > Len(row) THEN positioned
    ELSE LayerFrom(row, optimal, i + 1,
                   (i :> apply_non_overlap_constraint(row, i, optimal[i], positioned)) @@ positioned)
optimize_layer(row, optimal) == LayerFrom(row, optimal, 1, <<>>)
=============================================================================
