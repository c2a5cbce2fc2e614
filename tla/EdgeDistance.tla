----------------------------- MODULE EdgeDistance -----------------------------
(***************************************************************************)
(* The graph one PE keeps: its own vertices, the mirrors of others, the    *)
(* edges among all of them, and each vertex's distance from the nearest    *)
(* own vertex, maintained edge by edge (src/hoover.cpp 358-754 and         *)
(* 1695-1820, rows of edges from src/hvr_irregular_matrix.cpp).  A handler *)
(* is one action; inside it the functions of the source are operators on a *)
(* record g of everything they change, among it edge_buffer, the one array *)
(* in which every function lists the edges of a vertex.                    *)
(***************************************************************************)
EXTENDS AvlTree, SequencesExt

CONSTANTS
  Locals, Mirrors,     \* slots of the cache: the PE's vertices and the others'
  Parts,               \* partitions; a vertex's attributes are its place in one
  PartOf(_),           \* actor_to_partition, on places
  Places, absent,      \* absent: the place of a vertex that is not in the cache
  might_interact(_),   \* a partition to the sequence of those it may interact with
  should_have_edge(_, _, _, _), \* of two vertices and their places
  Casts                \* the vertices of a behaviour; those that move; mirrors that leave

V == Locals \cup Mirrors

ASSUME SlotsAssumption ==
  V \subseteq Nat /\ Locals \cap Mirrors = {} /\ absent \notin Places

VARIABLE g

UINT8_MAX == 255
NO_EDGE == 0
DIRECTED_IN == 1
DIRECTED_OUT == 2
BIDIRECTIONAL == 3

flip_edge_direction(e) ==
  CASE e = DIRECTED_IN -> DIRECTED_OUT [] e = DIRECTED_OUT -> DIRECTED_IN [] OTHER -> e

(* The edge matrix and the shared buffer *)

\* hvr_irr_matrix_linearize: the row of v overwrites the front of the buffer.
Row(s, v) == hvr_avl_serialize(s.edges[v])
Linearize(s, v) ==
  [s EXCEPT !.edge_buffer =
     Row(s, v) \o SubSeq(@, Len(Row(s, v)) + 1, Len(@))]

hvr_irr_matrix_set(row, j, e) ==
  IF hvr_avl_find(row, j) = nnil
  THEN IF e = NO_EDGE THEN row ELSE hvr_avl_insert(row, j, [vertex |-> j, edge |-> e])
  ELSE IF e = NO_EDGE THEN hvr_avl_delete(row, j)
       ELSE Overwrite(row, j, [vertex |-> j, edge |-> e])

\* Both rows of an edge: base's with direction e, neighbor's with direction f.
SetRow(s, base, neighbor, e) ==
  [s EXCEPT !.edges[base] = hvr_irr_matrix_set(@, neighbor, e)]
SetEdge(s, base, neighbor, e, f) == SetRow(SetRow(s, base, neighbor, e), neighbor, base, f)

(* Distances *)

\* Everything that may have its shortest path through node forgets its
\* distance; list is linked through the tmp fields, the first node found last.
\* A node is recognised by its tmp, which the last of the list does not have.
RECURSIVE collect_impacted_vertices(_, _), CollectNeighbors(_, _, _, _)
collect_impacted_vertices(s, node) ==
  IF \E i \in 1 .. Len(s.list) - 1 : s.list[i] = node THEN s
  ELSE [CollectNeighbors(Linearize([s EXCEPT !.list = <<node>> \o @], node),
                         node, 1, Len(Row(s, node)))
          EXCEPT !.dist[node] = UINT8_MAX]

CollectNeighbors(s, node, n, n_neighbors) ==
  IF n > n_neighbors THEN s
  ELSE LET neighbor == s.edge_buffer[n].vertex IN
       CollectNeighbors(IF s.dist[neighbor] = s.dist[node] + 1
                        THEN collect_impacted_vertices(s, neighbor) ELSE s,
                        node, n + 1, n_neighbors)

update_dist_from_neighbors(s, node) ==
  LET near == {s.dist[e.vertex] : e \in ToSet(Row(s, node))} \ {UINT8_MAX}
  IN [Linearize(s, node) EXCEPT !.dist[node] = Min({@} \cup {d + 1 : d \in near})]

\* The passes over the list: once a distance has changed a pass looks at no
\* other, and the next begins at the head.
RECURSIVE Passes(_, _)
Passes(s, i) ==
  IF i > Len(s.list) THEN s
  ELSE LET t == update_dist_from_neighbors(s, s.list[i])
       IN Passes(t, IF t.dist = s.dist THEN i + 1 ELSE 1)

\* A slip for the mutants: only the node itself forgets its distance.
UpdateNodeAlone(s, node) ==
  [Passes([s EXCEPT !.list = <<node>>, !.dist[node] = UINT8_MAX], 1) EXCEPT !.list = <<>>]
update_distance_after_edge_update(s, node) ==
  [Passes(collect_impacted_vertices(s, node), 1) EXCEPT !.list = <<>>]

(* One edge *)

NewDistances(s, base, neighbor) ==
  IF s.dist[base] < s.dist[neighbor] - 1 THEN update_distance_after_edge_update(s, neighbor)
  ELSE IF s.dist[neighbor] < s.dist[base] - 1 THEN update_distance_after_edge_update(s, base)
  ELSE s

\* A slip: only the neighbor's count is kept.
AddEdgeHalfCounted(s, base, neighbor, e) ==
  NewDistances(
    [SetEdge(s, base, neighbor, e, flip_edge_direction(e)) EXCEPT
       !.turned = @ \ {{base, neighbor}},
       !.n_local_neighbors[neighbor] = @ + (IF base \in Locals THEN 1 ELSE 0)],
    base, neighbor)
AddEdge(s, base, neighbor, e) ==
  NewDistances(
    [SetEdge(s, base, neighbor, e, flip_edge_direction(e)) EXCEPT
       !.turned = @ \ {{base, neighbor}},
       !.n_local_neighbors = [v \in V |->
          @[v] + (IF v = base /\ neighbor \in Locals THEN 1 ELSE 0)
               + (IF v = neighbor /\ base \in Locals THEN 1 ELSE 0)]],
    base, neighbor)

\* What DropEdge asserts of the two distances.
Consistent(s, base, neighbor) == s.dist[base] - s.dist[neighbor] \in -1 .. 1

OldDistances(s, base, neighbor) ==
  IF s.dist[base] = s.dist[neighbor] + 1 THEN update_distance_after_edge_update(s, base)
  ELSE IF s.dist[neighbor] = s.dist[base] + 1
       THEN update_distance_after_edge_update(s, neighbor)
  ELSE s

DropEdge(s, base, neighbor) ==
  IF ~Consistent(s, base, neighbor) THEN [s EXCEPT !.aborted = TRUE]
  ELSE OldDistances(
    [SetEdge(s, base, neighbor, NO_EDGE, NO_EDGE) EXCEPT
       !.n_local_neighbors = [v \in V |->
          @[v] - (IF v = base /\ neighbor \in Locals THEN 1 ELSE 0)
               - (IF v = neighbor /\ base \in Locals THEN 1 ELSE 0)]],
    base, neighbor)

\* An existing edge gets the same direction in both rows.
TurnEdge(s, base, neighbor, e) ==
  [SetEdge(s, base, neighbor, e, e) EXCEPT !.turned = @ \cup {{base, neighbor}}]

\* The list of mirrors with an edge to an own vertex follows the counts.
ListMirror(s, base, neighbor) ==
  LET remote == IF base \in Locals THEN neighbor ELSE base
      listed == remote \in ToSet(s.local_neighbors)
  IN IF (base \in Locals) = (neighbor \in Locals) THEN s
     ELSE IF listed /\ s.n_local_neighbors[remote] = 0
          THEN [s EXCEPT !.local_neighbors = Remove(@, remote)]
     ELSE IF ~listed /\ s.n_local_neighbors[remote] > 0
          THEN [s EXCEPT !.local_neighbors = <<remote>> \o @]
     ELSE s

\* The own vertices that the new edge points at are to be processed.
\* A slip: the direction is taken to be relative to either end.
MarkEndsUnflipped(s, base, neighbor, e) ==
  [s EXCEPT !.needs_processing = @
     \cup {v \in {base, neighbor} \cap Locals : e # DIRECTED_OUT}]
MarkEnds(s, base, neighbor, e) ==
  [s EXCEPT !.needs_processing = @
     \cup {v \in {base} \cap Locals : e # DIRECTED_OUT}
     \cup {v \in {neighbor} \cap Locals : flip_edge_direction(e) # DIRECTED_OUT}]

\* The only place where edges are made and deleted.  The caller says which
\* edge exists; implicit edges only.
update_edge_info(s, base, neighbor, new_edge, existing) ==
  IF s.aborted \/ existing = new_edge THEN s
  ELSE MarkEnds(
         ListMirror(CASE existing = NO_EDGE -> AddEdge(s, base, neighbor, new_edge)
                      [] existing # NO_EDGE /\ new_edge = NO_EDGE -> DropEdge(s, base, neighbor)
                      [] OTHER -> TurnEdge(s, base, neighbor, new_edge),
                    base, neighbor),
         base, neighbor, new_edge)

(* All edges of a vertex *)

Edge(s, base, neighbor) ==
  should_have_edge(base, s.place[base], neighbor, s.place[neighbor])

\* Each vertex of the lists that is not flagged is taken to have no edge yet.
NewEdgesWith(s, updated, cached) ==
  FoldLeft(LAMBDA t, c : IF t.flag[c] THEN t
                         ELSE update_edge_info(t, c, updated, Edge(t, c, updated), NO_EDGE),
           s, cached)
create_new_edges(s, updated, lists) ==
  NewEdgesWith(s, updated,
    FlattenSeq([i \in DOMAIN might_interact(PartOf(s.place[updated])) |->
                  s[lists][might_interact(PartOf(s.place[updated]))[i]]]))

\* With mirrors first, then with own vertices.
\* A slip: only mirrors are looked at for new edges.
NewMirrorEdges(s, updated) == create_new_edges(s, updated, "mirror_lists")
NewEdges(s, updated) ==
  create_new_edges(create_new_edges(s, updated, "mirror_lists"), updated, "local_lists")

\* What a loop over row reads as its n-th entry is what the buffer holds when it
\* gets there, which may be an entry of another row by then.
Reads(s, row, n) == [s EXCEPT !.misread = @ \/ s.edge_buffer[n] # row[n]]

RECURSIVE Reconsider(_, _, _, _)
Reconsider(s, updated, row, n) ==
  IF n > Len(row) THEN s
  ELSE LET e == s.edge_buffer[n] IN
       Reconsider([update_edge_info(Reads(s, row, n), updated, e.vertex,
                                    Edge(s, updated, e.vertex), e.edge)
                     EXCEPT !.flag[e.vertex] = TRUE],
                  updated, row, n + 1)

\* The flags are cleared by what is in the buffer by then.
Unflag(s, row) ==
  [s EXCEPT !.misread = @ \/ SubSeq(s.edge_buffer, 1, Len(row)) # row,
            !.flag = [v \in V |->
     @[v] /\ v \notin {s.edge_buffer[n].vertex : n \in DOMAIN row}]]

update_existing_edges(s, updated) ==
  Unflag(NewEdges(Reconsider(Linearize(s, updated), updated, Row(s, updated), 1), updated),
         Row(s, updated))

mark_all_downstream_neighbors_for_processing(s, modified) ==
  [Linearize(s, modified) EXCEPT !.needs_processing = @ \cup
     {e.vertex : e \in {f \in ToSet(Row(s, modified)) :
                          f.edge # DIRECTED_IN /\ f.vertex \in Locals}}]

prepend_to_partition_list(lists, v, part) == [lists EXCEPT ![part] = <<v>> \o @]
update_partition_list_membership(lists, v, old, new) ==
  IF old = new THEN lists
  ELSE prepend_to_partition_list([lists EXCEPT ![old] = Remove(@, v)], v, new)

RECURSIVE DropEdges(_, _, _, _)
DropEdges(s, cached, row, n) ==
  IF n > Len(row) THEN s
  ELSE DropEdges(update_edge_info(Reads(s, row, n), cached, s.edge_buffer[n].vertex,
                                  NO_EDGE, s.edge_buffer[n].edge),
                 cached, row, n + 1)

handle_deleted_vertex(s, v) ==
  LET bare == DropEdges(Linearize(s, v), v, Row(s, v), 1)
  IN [bare EXCEPT !.mirror_lists[PartOf(s.place[v])] = Remove(@, v),
                  !.local_neighbors = Remove(@, v),
                  !.place[v] = absent]

\* update_distances
partition_min_dist_from_local_vert(p) ==
  IF g.local_lists[p] # <<>> THEN 0
  ELSE Min({UINT8_MAX} \cup {g.dist[v] : v \in ToSet(g.mirror_lists[p])})

-----------------------------------------------------------------------------
Init ==
  \E cast \in Casts :
  g = [cast |-> cast,
       place |-> [v \in V |-> absent],
       edges |-> [v \in V |-> nnil],
       dist  |-> [v \in V |-> UINT8_MAX],
       n_local_neighbors |-> [v \in V |-> 0],
       flag  |-> [v \in V |-> FALSE],
       local_neighbors |-> <<>>,
       mirror_lists |-> [p \in Parts |-> <<>>],
       local_lists  |-> [p \in Parts |-> <<>>],
       needs_processing |-> {},
       edge_buffer |-> <<>>, list |-> <<>>,
       misread |-> FALSE, turned |-> {},      \* history: see Reads and TurnEdge
       aborted |-> FALSE]

Known(v) == g.place[v] # absent

\* Nobody reads what the buffer held before listing a row into it.  Bound: a
\* behaviour ends where an assert fails or a loop reads another row's entry.
Becomes(s) == ~g.aborted /\ ~g.misread /\ g' = [s EXCEPT !.edge_buffer = <<>>]

\* A slot taken from the pool is wiped; its row in the edge matrix is not.
Allocated(v, at, dist) ==
  [g EXCEPT !.place[v] = at, !.dist[v] = dist, !.n_local_neighbors[v] = 0, !.flag[v] = FALSE]

\* insert_recently_created_in_partitions: an own vertex joins the graph.
CreateLocal(v, at) ==
  /\ v \in g.cast.in /\ ~Known(v)
  /\ LET s == Allocated(v, at, 0) IN
     Becomes(update_existing_edges(
       [s EXCEPT !.local_lists = prepend_to_partition_list(@, v, PartOf(at)),
                 !.needs_processing = @ \cup {v}], v))

\* update_vertices: an own vertex is processed; it may set attributes, and move.
UpdateLocal(v, at, needs_send) ==
  /\ Known(v) /\ v \in g.needs_processing
  /\ at = g.place[v] \/ (v \in g.cast.moving /\ needs_send)
  /\ LET s == [g EXCEPT !.needs_processing = @ \ {v}, !.place[v] = at,
                        !.local_lists = update_partition_list_membership(@, v,
                                          PartOf(g.place[v]), PartOf(at))]
     IN Becomes(IF ~needs_send THEN s
                ELSE mark_all_downstream_neighbors_for_processing(
                       update_existing_edges(s, v), v))

\* handle_new_vertex: the first update of a vertex in a subscribed partition.
NewMirror(v, at) ==
  /\ v \in g.cast.in /\ ~Known(v)
  /\ LET s == [Allocated(v, at, UINT8_MAX) EXCEPT
                 !.mirror_lists = prepend_to_partition_list(@, v, PartOf(at))]
     IN Becomes(NewEdges(s, v))

\* handle_new_vertex: an update of a vertex that is mirrored.
UpdateMirror(v, at) ==
  /\ Known(v)
  /\ at = g.place[v] \/ v \in g.cast.moving
  /\ LET s == [g EXCEPT !.place[v] = at,
                        !.mirror_lists = update_partition_list_membership(@, v,
                                           PartOf(g.place[v]), PartOf(at))]
     IN Becomes(mark_all_downstream_neighbors_for_processing(
                  update_existing_edges(s, v), v))

\* The mirror is invalidated, or moved to a partition that is not subscribed.
DeleteMirror(v) == Known(v) /\ v \in g.cast.leaving /\ Becomes(handle_deleted_vertex(g, v))

Next ==
  \/ \E v \in Locals, at \in Places : CreateLocal(v, at)
  \/ \E v \in Locals, at \in Places, needs_send \in BOOLEAN : UpdateLocal(v, at, needs_send)
  \/ \E v \in Mirrors, at \in Places : NewMirror(v, at) \/ UpdateMirror(v, at)
  \/ \E v \in Mirrors : DeleteMirror(v)

Spec == Init /\ [][Next]_g
-----------------------------------------------------------------------------
(* Properties *)

InCache == {v \in V : Known(v)}
Has(s, u, v) == hvr_avl_find(s.edges[u], v) # nnil
Direction(s, u, v) ==
  IF Has(s, u, v) THEN hvr_avl_find(s.edges[u], v).value.edge ELSE NO_EDGE
Neighbors(v) == {u \in V : Has(g, v, u)}

\* The asserts on the way hold, in particular that the ends of an edge differ by
\* at most one in distance when it is deleted (update_edge_info, hoover.cpp:527).
NoAssertFails == ~g.aborted

\* The edges are those the application asks for of the vertices in the cache as
\* they are, seen from both ends, whatever the order in which vertices are created,
\* arrive, move, are invalidated and return.  Two things are excepted: what is left
\* once a loop has read another row's entry (Reads), and the direction of an edge
\* that has turned (TurnEdge).
Wanted(u, v) == IF Known(u) /\ Known(v) THEN Edge(g, u, v) ELSE NO_EDGE
EdgesWanted ==
  ~g.aborted /\ ~g.misread =>
    \A u, v \in V : IF {u, v} \in g.turned
                    THEN Has(g, u, v) <=> Wanted(u, v) # NO_EDGE
                    ELSE Direction(g, u, v) = Wanted(u, v)

\* When a vertex is deleted, "we simply need to remove all of its edges with local
\* vertices and remove it from the cache" (hoover.cpp:1692): no own vertex keeps an
\* edge to a vertex that is not there.
EdgesGoWithMirrors ==
  ~g.aborted => \A u \in Locals, v \in Mirrors : Has(g, u, v) => Known(v)

\* "DIRECTED_IN means it is an inbound edge on base, and outbound on neighbor"
\* (hoover.cpp:591): the two ends of an edge have it in opposite directions.
DirectionsFlip ==
  ~g.aborted => \A u, v \in V : Direction(g, v, u) = flip_edge_direction(Direction(g, u, v))

\* The counts of edges to own vertices are exact, and so is the list of mirrors
\* that have one.
LocalNeighborsExact ==
  ~g.aborted /\ ~g.misread =>
    /\ \A v \in InCache : g.n_local_neighbors[v] = Cardinality(Neighbors(v) \cap Locals)
    /\ ToSet(g.local_neighbors) = {v \in Mirrors : Neighbors(v) \cap Locals # {}}
    /\ IsInjective(g.local_neighbors)

\* Distances from the own vertices along the edges there are, breadth first.
Reach[n \in Nat] ==
  IF n = 0 THEN InCache \cap Locals
  ELSE Reach[n - 1] \cup UNION {Neighbors(v) : v \in Reach[n - 1]}
TrueDist(v) ==
  LET within == {n \in 0 .. Cardinality(V) : v \in Reach[n]}
  IN IF within = {} THEN UINT8_MAX ELSE Min(within)

\* No vertex and no partition is taken to be nearer than it is, whatever edges
\* come and go: a distance always rests on a path of edges that still exist.
NeverTooNear ==
  ~g.aborted /\ ~g.misread =>
    /\ \A v \in InCache : g.dist[v] >= TrueDist(v)
    /\ \A p \in Parts : partition_min_dist_from_local_vert(p) >=
         Min({UINT8_MAX} \cup {TrueDist(v) : v \in {u \in InCache : PartOf(g.place[u]) = p}})

\* An own vertex that has gained or lost an edge that points at it, or at which a
\* vertex that moved points, is to be processed; with the exceptions of EdgesWanted.
Sees(s, v, u) == Direction(s, v, u) \notin {NO_EDGE, DIRECTED_OUT}
NeighborhoodIsProcessed ==
  [][~g'.aborted /\ ~g'.misread => \A v \in Locals : Known(v) =>
       \A u \in {w \in V : {v, w} \notin g.turned \cup g'.turned} :
         \/ Sees(g, v, u) # Sees(g', v, u)
         \/ Sees(g', v, u) /\ u # v /\ g.place[u] # g'.place[u]
         => v \in g'.needs_processing]_g
=============================================================================
