------------------------------- MODULE Vertices -------------------------------
(***************************************************************************)
(* Where a PE keeps its vertices and its mirrors of others: the slots of   *)
(* the vertex cache with its pool, and the lists that run through them     *)
(* (src/hvr_vertex_cache.cpp, src/hvr_partition_list.cpp), under what an   *)
(* iteration does to them: vertices created, deleted, processed in turn    *)
(* while the application changes them, and mirrors that come and go        *)
(* (src/hvr_vertex.cpp, src/hvr_vertex_iter.cpp, src/hoover.cpp).  Edges   *)
(* and messages are not here.                                              *)
(***************************************************************************)
EXTENDS Integers, Sequences, FiniteSets

CONSTANTS
  NSlots,        \* HVR_VERT_CACHE_PREALLOCS
  Parts,         \* what actor_to_partition maps vertices to
  MaxChanges     \* vertices the application deletes at a time

Slots == 1 .. NSlots
NULL == 0
Pointer == Slots \cup {NULL}
ASSUME SlotsAssumption == NSlots \in Nat \ {0} /\ MaxChanges \in Nat /\ NULL \notin Parts

VARIABLES
  cache_map,        \* what a slot holds: a vertex of this PE, a mirror, nothing
  vert,             \* the vertex in each slot
  neighbors,        \* links of the mirrors next to own vertices; of free slots too
  pool_head, local_neighbors_head,
  locals,           \* links and head of the list of own vertices
  in_partition,     \* links of the lists of each partition, and of recently_created
  local_lists, mirror_lists,   \* heads, by partition
  recently_created,
  buffered_changes, \* slots to delete, the last first
  any_needs_processing,
  pc,               \* where the iteration is
  iter_curr,        \* the vertex the iterator gives next
  curr,             \* the vertex update_metadata has been called on, and its old_part
  visited,          \* history: the vertices this pass of update_vertices has been at
  cut,              \* history: what the iterator gives next was deleted in this pass
  aborted,          \* an assert has failed, or NULL was dereferenced
  astray            \* history: a deletion the code is not made for has come to bear

nodes  == <<cache_map, neighbors, pool_head, local_neighbors_head, locals>>
lists  == <<in_partition, local_lists, mirror_lists, recently_created>>
place  == <<pc, iter_curr, curr, visited, cut>>
vars   == <<nodes, vert, lists, buffered_changes, any_needs_processing, place, aborted, astray>>

(* Doubly linked lists: a record of next, prev and head *)

Prepend(l, n) ==
  [next |-> [l.next EXCEPT ![n] = l.head],
   prev |-> [s \in Slots |-> IF s = n THEN NULL ELSE IF s = l.head THEN n ELSE l.prev[s]],
   head |-> n]

\* linked_list_remove_helper, and what its asserts say
Unlink(l, n) ==
  [next |-> [s \in Slots |-> IF s = l.prev[n] THEN l.next[n] ELSE l.next[s]],
   prev |-> [s \in Slots |-> IF s = l.next[n] THEN l.prev[n] ELSE l.prev[s]],
   head |-> IF l.prev[n] = NULL THEN l.next[n] ELSE l.head]
HeadIsRight(l, n) == l.prev[n] = NULL => l.head = n
LinksAreRight(l, n) ==
  l.prev[n] # NULL /\ l.next[n] # NULL => l.next[l.prev[n]] = n /\ l.prev[l.next[n]] = n

\* The lists of neighbors and of own vertices forget the links of what they drop.
Contains(l, n) == l.next[n] # NULL \/ l.prev[n] # NULL \/ l.head = n
RemoveIfIn(l, n) ==
  IF ~Contains(l, n) THEN l
  ELSE LET m == Unlink(l, n)
       IN [m EXCEPT !.next[n] = NULL, !.prev[n] = NULL]
RemoveIsRight(l, n) == Contains(l, n) => HeadIsRight(l, n) /\ LinksAreRight(l, n)

WithHead(links, head) == [next |-> links.next, prev |-> links.prev, head |-> head]
Links(l) == [next |-> l.next, prev |-> l.prev]
NeighborList == WithHead(neighbors, local_neighbors_head)

(* Partition lists: heads is local_lists or mirror_lists *)

PrependTo(links, heads, n, p) == Prepend(WithHead(links, heads[p]), n)
RemoveFrom(links, heads, n, p) == Unlink(WithHead(links, heads[p]), n)

\* update_partition_list_membership: links and heads after n went from p to q
Rehung(links, heads, n, p, q) ==
  LET out   == RemoveFrom(links, heads, n, p)
      heads2 == [heads EXCEPT ![p] = out.head]
      into  == PrependTo(Links(out), heads2, n, q)
  IN IF p = q THEN [links |-> links, heads |-> heads]
     ELSE [links |-> Links(into), heads |-> [heads2 EXCEPT ![q] = into.head]]
RehangIsRight(links, heads, n, p, q) ==
  p # q => HeadIsRight(WithHead(links, heads[p]), n)

(* Slots *)

NoVertex == [part |-> NULL, curr_part |-> NULL, fresh |-> FALSE, needs_processing |-> FALSE]

\* allocate_node_from_pool wipes the slot: links too.
Take(n) ==
  /\ pool_head' = neighbors.next[n]
  /\ neighbors' = [next |-> [neighbors.next EXCEPT ![n] = NULL],
                   prev |-> [s \in Slots |-> IF s \in {n, neighbors.next[n]} THEN NULL
                                             ELSE neighbors.prev[s]]]

\* hvr_vertex_cache_delete: off the list of neighbors, then onto the pool.
\* A slip for the mutants: it stays on the list of neighbors.
GiveListed(n) ==
  LET pool == Prepend(WithHead(neighbors, pool_head), n)
  IN neighbors' = Links(pool) /\ pool_head' = n /\ UNCHANGED local_neighbors_head
Give(n) ==
  LET off  == RemoveIfIn(NeighborList, n)
      pool == Prepend(WithHead(off, pool_head), n)
  IN /\ local_neighbors_head' = off.head
     /\ neighbors' = Links(pool)
     /\ pool_head' = pool.head

NobodyInHand == [vertex |-> NULL, old_part |-> NULL]

-----------------------------------------------------------------------------
Init ==
  /\ cache_map = [s \in Slots |-> "free"]
  /\ vert = [s \in Slots |-> NoVertex]
  /\ neighbors = [next |-> [s \in Slots |-> IF s = NSlots THEN NULL ELSE s + 1],
                  prev |-> [s \in Slots |-> s - 1]]
  /\ pool_head = 1 /\ local_neighbors_head = NULL
  /\ locals = [next |-> [s \in Slots |-> NULL], prev |-> [s \in Slots |-> NULL],
               head |-> NULL]
  /\ in_partition = [next |-> [s \in Slots |-> NULL], prev |-> [s \in Slots |-> NULL]]
  /\ local_lists = [p \in Parts |-> NULL] /\ mirror_lists = [p \in Parts |-> NULL]
  /\ recently_created = NULL
  /\ buffered_changes = <<>>
  /\ any_needs_processing = FALSE
  /\ pc = "start_time_step" /\ iter_curr = NULL /\ curr = NobodyInHand /\ visited = {}
  /\ cut = FALSE /\ aborted = FALSE /\ astray = FALSE

AssertThat(P) == aborted' = ~P

(* What the application may do in its callbacks *)

InCallback == pc \in {"start_time_step", "update_metadata"}

\* hvr_vertex_create and the sets that follow it: the vertex is in no
\* partition's list before insert_recently_created_in_partitions.
hvr_vertex_create(part) ==
  /\ InCallback /\ pool_head # NULL
  /\ LET n == pool_head IN
     /\ Take(n)
     /\ cache_map' = [cache_map EXCEPT ![n] = "local"]
     /\ vert' = [vert EXCEPT ![n] = [part |-> part, curr_part |-> NULL, fresh |-> TRUE,
                                     needs_processing |-> TRUE]]
     /\ locals' = Prepend(locals, n)
     /\ in_partition' = [next |-> [in_partition.next EXCEPT ![n] = recently_created],
                         prev |-> [in_partition.prev EXCEPT ![n] = NULL]]
     /\ recently_created' = n
  /\ any_needs_processing' = TRUE
  /\ UNCHANGED <<local_neighbors_head, local_lists, mirror_lists, buffered_changes, place,
                 aborted, astray>>

\* hvr_vertex_delete buffers the deletion and asks nothing of the vertex: it may be
\* of this iteration, deleted already, in hand, or what the iterator gives next.
hvr_vertex_delete(n) ==
  /\ InCallback /\ cache_map[n] = "local"
  /\ Len(buffered_changes) < MaxChanges
  /\ buffered_changes' = <<n>> \o buffered_changes
  /\ UNCHANGED <<nodes, vert, lists, any_needs_processing, place, aborted, astray>>

\* update_metadata gives the vertex in hand attributes of another partition.
hvr_vertex_set(part) ==
  /\ pc = "update_metadata" /\ vert[curr.vertex].part # part
  /\ vert' = [vert EXCEPT ![curr.vertex].part = part]
  /\ UNCHANGED <<nodes, lists, buffered_changes, any_needs_processing, place, aborted,
                 astray>>

\* Called by the application, and when an edge or a neighbor changes.
mark_for_processing(n) ==
  /\ InCallback \/ pc = "process_vertex_updates"
  /\ cache_map[n] = "local" /\ ~vert[n].needs_processing
  /\ vert' = [vert EXCEPT ![n].needs_processing = TRUE]
  /\ any_needs_processing' = TRUE
  /\ UNCHANGED <<nodes, lists, buffered_changes, place, aborted, astray>>

EndCallback ==
  /\ InCallback
  /\ pc' = IF pc = "start_time_step" THEN "changes_before" ELSE "changes"
  /\ UNCHANGED <<nodes, vert, lists, buffered_changes, any_needs_processing, iter_curr,
                 curr, visited, cut, aborted, astray>>

(* The iteration *)

\* process_buffered_changes, one change; hvr_vertex_delete_impl takes the
\* vertex out of the list of the partition its attributes say.  It is in that
\* list unless it is of this iteration, or in hand with attributes of another.
process_buffered_change ==
  /\ pc \in {"changes_before", "changes"} /\ buffered_changes # <<>>
  /\ LET n == Head(buffered_changes)
         p == vert[n].part
         out == RemoveFrom(in_partition, local_lists, n, p)
     IN /\ cache_map[n] = "local"
        /\ AssertThat(/\ HeadIsRight(WithHead(in_partition, local_lists[p]), n)
                      /\ RemoveIsRight(locals, n) /\ RemoveIsRight(NeighborList, n))
        /\ in_partition' = Links(out)
        /\ local_lists' = [local_lists EXCEPT ![p] = out.head]
        /\ locals' = RemoveIfIn(locals, n)
        /\ cache_map' = [cache_map EXCEPT ![n] = "free"]
        /\ Give(n)
        /\ buffered_changes' = Tail(buffered_changes)
        /\ cut' = (cut \/ n = iter_curr)
        /\ astray' = (vert[n].fresh \/ (n = curr.vertex /\ p # curr.old_part))
  /\ UNCHANGED <<vert, mirror_lists, recently_created, any_needs_processing, pc, iter_curr,
                 curr, visited>>

\* process_buffered_changes does not look whether the vertex is still there.
DeletedTwice ==
  /\ pc \in {"changes_before", "changes"} /\ buffered_changes # <<>>
  /\ cache_map[Head(buffered_changes)] # "local"
  /\ aborted' = TRUE /\ astray' = TRUE
  /\ UNCHANGED <<nodes, vert, lists, buffered_changes, any_needs_processing, place>>

\* hvr_vertex_iter: vertices of this iteration have no edges yet and are passed over
\* A slip: the first such vertex ends the pass.
SeekToFresh(n) == IF n = NULL THEN NULL ELSE IF vert[n].fresh THEN NULL ELSE n
SeekToValid(n) ==
  LET Seek[k \in 0 .. NSlots] ==
        IF k = 0 THEN n
        ELSE IF Seek[k - 1] # NULL /\ vert[Seek[k - 1]].fresh THEN locals.next[Seek[k - 1]]
        ELSE Seek[k - 1]
  IN Seek[NSlots]

\* update_vertices does nothing when no vertex is said to need it.
BeginUpdates ==
  /\ pc = "changes_before" /\ buffered_changes = <<>>
  /\ pc' = IF any_needs_processing THEN "update_vertices" ELSE "insert"
  /\ iter_curr' = IF any_needs_processing THEN SeekToValid(locals.head) ELSE NULL
  /\ any_needs_processing' = FALSE /\ cut' = FALSE
  /\ UNCHANGED <<nodes, vert, lists, buffered_changes, curr, visited, aborted, astray>>

\* hvr_vertex_iter_next, and the callback if the vertex needs it: the iterator
\* has moved on before the callback runs.  A vertex deleted since then has lost
\* its link, but not its attributes: update_metadata may be called on it.
NextVertex ==
  /\ pc = "update_vertices" /\ iter_curr # NULL
  /\ iter_curr' = SeekToValid(locals.next[iter_curr])
  /\ visited' = visited \cup {iter_curr}
  /\ IF vert[iter_curr].needs_processing
     THEN /\ pc' = "update_metadata"
          /\ curr' = [vertex |-> iter_curr, old_part |-> vert[iter_curr].part]
          /\ vert' = [vert EXCEPT ![iter_curr].needs_processing = FALSE]
     ELSE UNCHANGED <<pc, curr, vert>>
  /\ astray' = (vert[iter_curr].needs_processing /\ cache_map[iter_curr] # "local")
  /\ UNCHANGED <<nodes, lists, buffered_changes, any_needs_processing, cut, aborted>>

\* After the callback and the changes it asked for.
\* A slip: the old partition is read then, not before.
VertexUpdatedLate ==
  /\ pc = "changes" /\ buffered_changes = <<>>
  /\ vert' = [vert EXCEPT ![curr.vertex].curr_part = vert[curr.vertex].part]
  /\ pc' = "update_vertices" /\ curr' = NobodyInHand
  /\ UNCHANGED <<nodes, lists, buffered_changes, any_needs_processing, iter_curr, visited,
                 cut, aborted, astray>>
VertexUpdated ==
  /\ pc = "changes" /\ buffered_changes = <<>>
  /\ LET n == curr.vertex
         rehung == Rehung(in_partition, local_lists, n, curr.old_part, vert[n].part)
     IN /\ AssertThat(RehangIsRight(in_partition, local_lists, n, curr.old_part, vert[n].part))
        /\ vert' = [vert EXCEPT ![n].curr_part = vert[n].part]
        /\ in_partition' = rehung.links /\ local_lists' = rehung.heads
  /\ pc' = "update_vertices" /\ curr' = NobodyInHand
  /\ UNCHANGED <<nodes, mirror_lists, recently_created, buffered_changes,
                 any_needs_processing, iter_curr, visited, cut, astray>>

EndUpdates ==
  /\ pc = "update_vertices" /\ iter_curr = NULL
  /\ pc' = "insert"
  /\ UNCHANGED <<nodes, vert, lists, buffered_changes, any_needs_processing, iter_curr,
                 curr, visited, cut, aborted, astray>>

\* insert_recently_created_in_partitions, one vertex
InsertRecentlyCreated ==
  /\ pc = "insert" /\ recently_created # NULL
  /\ LET n == recently_created
         p == vert[n].part
         in == PrependTo(in_partition, local_lists, n, p)
     IN /\ recently_created' = in_partition.next[n]
        /\ vert' = [vert EXCEPT ![n].curr_part = p]
        /\ in_partition' = Links(in)
        /\ local_lists' = [local_lists EXCEPT ![p] = in.head]
  /\ UNCHANGED <<nodes, mirror_lists, buffered_changes, any_needs_processing, place, aborted,
                 astray>>

Inserted ==
  /\ pc = "insert" /\ recently_created = NULL
  /\ pc' = "process_vertex_updates" /\ visited' = {}
  /\ UNCHANGED <<nodes, vert, lists, buffered_changes, any_needs_processing, iter_curr,
                 curr, cut, aborted, astray>>

(* Mirrors: what process_vertex_updates does with the updates that arrive *)

Receiving == pc = "process_vertex_updates"

\* handle_new_vertex: the first update of a vertex
NewMirror(part) ==
  /\ Receiving /\ pool_head # NULL
  /\ LET n == pool_head
         in == PrependTo(in_partition, mirror_lists, n, part)
     IN /\ Take(n)
        /\ cache_map' = [cache_map EXCEPT ![n] = "mirror"]
        /\ vert' = [vert EXCEPT ![n] = [NoVertex EXCEPT !.part = part, !.curr_part = part]]
        /\ in_partition' = Links(in)
        /\ mirror_lists' = [mirror_lists EXCEPT ![part] = in.head]
  /\ UNCHANGED <<local_neighbors_head, locals, local_lists, recently_created,
                 buffered_changes, any_needs_processing, place, aborted, astray>>

\* handle_new_vertex: the vertex has moved
MoveMirror(n, part) ==
  /\ Receiving /\ cache_map[n] = "mirror" /\ vert[n].part # part
  /\ LET old == vert[n].curr_part
         rehung == Rehung(in_partition, mirror_lists, n, old, part)
     IN /\ AssertThat(RehangIsRight(in_partition, mirror_lists, n, old, part))
        /\ in_partition' = rehung.links /\ mirror_lists' = rehung.heads
  /\ vert' = [vert EXCEPT ![n].part = part, ![n].curr_part = part]
  /\ UNCHANGED <<nodes, local_lists, recently_created, buffered_changes,
                 any_needs_processing, place, astray>>

\* handle_deleted_vertex; its last edge to an own vertex may still have it listed.
DeleteMirror(n) ==
  /\ Receiving /\ cache_map[n] = "mirror"
  /\ LET p == vert[n].curr_part
         out == RemoveFrom(in_partition, mirror_lists, n, p)
     IN /\ AssertThat(/\ HeadIsRight(WithHead(in_partition, mirror_lists[p]), n)
                      /\ RemoveIsRight(NeighborList, n))
        /\ in_partition' = Links(out)
        /\ mirror_lists' = [mirror_lists EXCEPT ![p] = out.head]
  /\ cache_map' = [cache_map EXCEPT ![n] = "free"]
  /\ Give(n)
  /\ UNCHANGED <<vert, locals, local_lists, recently_created, buffered_changes,
                 any_needs_processing, place, astray>>

\* update_edge_info: the first edge to an own vertex, or none left
ListNeighbor(n) ==
  /\ Receiving /\ cache_map[n] = "mirror"
  /\ LET l == IF Contains(NeighborList, n) THEN RemoveIfIn(NeighborList, n)
              ELSE Prepend(NeighborList, n)
     IN neighbors' = Links(l) /\ local_neighbors_head' = l.head
  /\ AssertThat(RemoveIsRight(NeighborList, n))
  /\ UNCHANGED <<cache_map, pool_head, locals, vert, lists, buffered_changes,
                 any_needs_processing, place, astray>>

EndIteration ==
  /\ Receiving
  /\ pc' = "start_time_step"
  /\ vert' = [s \in Slots |-> [vert[s] EXCEPT !.fresh = FALSE]]
  /\ UNCHANGED <<nodes, lists, buffered_changes, any_needs_processing, iter_curr, curr,
                 visited, cut, aborted, astray>>

Callback ==
  \/ \E part \in Parts : hvr_vertex_create(part) \/ hvr_vertex_set(part)
  \/ \E n \in Slots : hvr_vertex_delete(n) \/ mark_for_processing(n)
  \/ EndCallback
UpdateVertices ==
  process_buffered_change \/ DeletedTwice \/ BeginUpdates \/ NextVertex \/ VertexUpdated \/ EndUpdates
ReceiveUpdates ==
  \/ \E part \in Parts : NewMirror(part) \/ \E n \in Slots : MoveMirror(n, part)
  \/ \E n \in Slots : DeleteMirror(n) \/ ListNeighbor(n)

\* Bound: what a program does after it has gone astray is not followed.
Stopped == (aborted \/ astray) /\ UNCHANGED vars

Next ==
  \/ /\ ~aborted /\ ~astray
     /\ \/ Callback \/ UpdateVertices \/ InsertRecentlyCreated \/ Inserted
        \/ ReceiveUpdates \/ EndIteration
  \/ Stopped

Spec == Init /\ [][Next]_vars
-----------------------------------------------------------------------------
(* Properties *)

\* The slots met from head along next, as long as there are slots.
Chain(next, head) ==
  LET Upto[k \in 0 .. NSlots] ==
        IF k = 0 THEN <<>>
        ELSE LET c == Upto[k - 1]
                 n == IF c = <<>> THEN head ELSE next[c[Len(c)]]
             IN IF n = NULL \/ (c # <<>> /\ Len(c) < k - 1) THEN c ELSE Append(c, n)
  IN Upto[NSlots]
Members(next, head) == {Chain(next, head)[i] : i \in DOMAIN Chain(next, head)}

\* Both directions of a list agree, it ends, and it holds exactly the slots of S.
IsListOf(l, S) ==
  LET c == Chain(l.next, l.head) IN
  /\ Len(c) = Cardinality(S) /\ Members(l.next, l.head) = S
  /\ l.head # NULL => l.prev[l.head] = NULL
  /\ \A i \in DOMAIN c : i < Len(c) => l.prev[c[i + 1]] = c[i]
  /\ c # <<>> => l.next[c[Len(c)]] = NULL

Holding(what) == {n \in Slots : cache_map[n] = what}

\* No slot is lost or in two places: the free slots are the pool, own vertices are
\* in the list of own vertices, and the list that shares its links with the pool
\* only ever holds mirrors, whatever is created, deleted and moved in between; the
\* asserts of linked_list_remove_helper and remove_from_partition_list_helper hold.
\* The vertex in hand may be deleted, and what the iterator gives next; only programs
\* that delete vertices the code is not made for, see astray, are excepted.
SlotsPartition ==
  ~astray =>
    /\ ~aborted
    /\ IsListOf(WithHead(neighbors, pool_head), Holding("free"))
    /\ IsListOf(locals, Holding("local"))
    /\ LET listed == Members(neighbors.next, local_neighbors_head)
       IN listed \subseteq Holding("mirror") /\ IsListOf(NeighborList, listed)

\* Every vertex is in the list of the partition it is in and no other: an own
\* vertex from the moment it is inserted, whose next link threads recently_created
\* before that; while update_metadata runs it is where it was.
WhereListed(n) == IF n = curr.vertex THEN curr.old_part ELSE vert[n].part
PartitionListsExact ==
  ~aborted /\ ~astray =>
    LET waiting == Members(in_partition.next, recently_created) IN
    /\ waiting = {n \in Holding("local") : vert[n].curr_part = NULL}
    /\ \A p \in Parts :
         /\ IsListOf(WithHead(in_partition, local_lists[p]),
                     {n \in Holding("local") \ waiting : WhereListed(n) = p})
         /\ IsListOf(WithHead(in_partition, mirror_lists[p]),
                     {n \in Holding("mirror") : vert[n].part = p})

\* An own vertex of an earlier iteration that waits for a turn this pass did not give it
Overlooked(n) ==
  cache_map[n] = "local" /\ vert[n].needs_processing /\ ~vert[n].fresh /\ n \notin visited

\* A pass processes every own vertex that needs it, though vertices, the one in hand
\* too, are created, deleted and marked under the iterator: whatever it leaves marked
\* was marked after its turn, or is of this iteration.  Only the deletion of the very
\* vertex the iterator gives next ends the pass early.
NothingIsSkipped ==
  [][pc = "update_vertices" /\ pc' = "insert" /\ ~cut =>
       \A n \in Slots : ~Overlooked(n)]_vars

\* hvr_vertex_trigger_update is to "force update_metadata to be called on this vertex
\* [...] on the next iteration" (inc/hvr_vertex.h:139): who needs processing when a pass
\* begins has a turn in it, or else the next pass is due.
EveryTurnComes ==
  pc = "update_vertices" /\ iter_curr = NULL /\ ~any_needs_processing =>
    \A n \in Slots : ~Overlooked(n)

\* A vertex that needs processing is flagged when an iteration begins, so that its
\* pass is not skipped: a new vertex "should be sent and processed" (hvr_vertex.cpp:54).
NeedsAreFlagged ==
  pc = "start_time_step" /\ (\E n \in Holding("local") : vert[n].needs_processing) =>
    any_needs_processing
=============================================================================
