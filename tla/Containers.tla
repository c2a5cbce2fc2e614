------------------------------ MODULE Containers ------------------------------
(***************************************************************************)
(* The data structures of a PE under any sequence of the calls the rest of *)
(* the code makes, next to what each one stands for: a map is a function,  *)
(* a set of integers a set, a sparse array a relation, buffered changes a  *)
(* stack, and so are the messages to a vertex; memory is a set of blocks.  *)
(* Two of them are seen with those who use them: messages to vertices with *)
(* the pass that gives vertices their turn, and the buffers in front of    *)
(* mailboxes with the PEs at both ends.  A behaviour exercises one of them. *)
(***************************************************************************)
EXTENDS HvrMap, HvrSet, SparseArr, Messages, MspaceChecks, Crc, Neighbors, MailboxBuffer

CONSTANTS
  Keys, Data, none, NSegs,       \* of the map; none: no data
  NVals,                         \* the sets hold 0 .. NVals - 1
  Pairs, Capacity, NRowSegs,     \* row and value pairs of the sparse array
  NNodes, Changes,               \* of the pools; what is put in their nodes
  NReceivers, MaxArrived,        \* vertices messages are for; bound on the mailbox
  HeapSize, Requests, MaxBlocks, \* words of the mspace; what is asked of it; bound
  MaxBytes,                      \* of a message with a checksum
  Values,                        \* of the feature hvr_neighbors_min looks at, by slot
  Programs                       \* how many messages of each sort two PEs send

VARIABLES kind, c, model         \* the structure used, its state, what it stands for

vars == <<kind, c, model>>

Init ==
  \/ kind = "map" /\ c = hvr_map_init(NSegs) /\ model = [k \in Keys |-> none]
  \/ kind = "sets" /\ c = [s \in {"dst", "src"} |-> hvr_create_empty_set(NVals)]
                   /\ model = [s \in {"dst", "src"} |-> {}]
  \/ kind = "array" /\ c = hvr_sparse_arr_init(Capacity, NRowSegs) /\ model = {}
  \/ kind = "changes" /\ c = pool_init(NNodes) /\ model = <<>>
  \/ kind = "buffers" /\ c = pool_init(NNodes) /\ model = <<>>
  \/ kind = "nodes" /\ c = pool_init(NNodes) /\ model = <<>>
  \/ kind = "messages" /\ c = hvr_ctx(NReceivers, NNodes)
                       /\ model = [i \in 1 .. NReceivers |-> <<>>]
  \/ kind = "heap" /\ c = create_mspace_with_base(HeapSize) /\ model = {}
  \/ kind = "crc" /\ c = <<>> /\ model = <<>>
  \/ kind = "row" /\ c = nnil /\ model = [j \in DOMAIN Values |-> <<0>>]
  \/ kind = "mailboxes" /\ \E left \in Programs : c = two_pes(left) /\ model = left

\* What aborts the process is not part of what it promises.
Becomes(s, m) == /\ UNCHANGED kind
                 /\ c' = s
                 /\ IF s.aborted THEN UNCHANGED model ELSE model' = m

\* The callers replace, or add keys that are not there or have the same data, and
\* remove keys with their data.
MapStep ==
  /\ kind = "map" /\ ~c.aborted
  /\ \E k \in Keys, d \in Data :
       \/ \E replace \in BOOLEAN :
            /\ replace \/ model[k] \in {none, d}
            /\ Becomes(hvr_map_add(k, d, replace, c), [model EXCEPT ![k] = d])
       \/ model[k] = d /\ Becomes(hvr_map_remove(k, d, c), [model EXCEPT ![k] = none])
       \/ model[k] = none /\ Becomes(hvr_map_remove(k, d, c), model)

SetsBecome(s, m) == UNCHANGED kind /\ c' = [c EXCEPT !["dst"] = s]
                                   /\ model' = [model EXCEPT !["dst"] = m]
SetStep ==
  /\ kind = "sets"
  /\ \/ \E v \in 0 .. NVals - 1 :
          \/ SetsBecome(hvr_set_insert(v, c["dst"]), model["dst"] \cup {v})
          \/ SetsBecome(hvr_set_clear(v, c["dst"]), model["dst"] \ {v})
     \/ SetsBecome(hvr_set_fill(c["dst"]), 0 .. NVals - 1)
     \/ SetsBecome(hvr_set_wipe(c["dst"]), {})
     \/ SetsBecome(hvr_set_merge(c["dst"], c["src"]), model["dst"] \cup model["src"])
     \/ SetsBecome(hvr_set_or(c["dst"], c["src"]), model["dst"] \cup model["src"])
     \/ SetsBecome(hvr_set_and(c["dst"], c["dst"], c["src"]), model["dst"] \cap model["src"])
     \/ SetsBecome(hvr_set_msg_copy(c["dst"], hvr_set_msg_send(c["src"])), model["src"])
     \/ UNCHANGED kind /\ c' = [c EXCEPT !["src"] = hvr_set_copy(@, c["dst"])]
                       /\ model' = [model EXCEPT !["src"] = model["dst"]]

ArrayStep ==
  /\ kind = "array" /\ ~c.aborted
  /\ \E p \in Pairs :
       \/ Becomes(hvr_sparse_arr_insert(p[1], p[2], c), model \cup {p})
       \/ Becomes(hvr_sparse_arr_remove(p[1], p[2], c), model \ {p})
       \/ Becomes(hvr_sparse_arr_remove_value(p[2], c), {q \in model : q[2] # p[2]})
       \/ Becomes(hvr_sparse_arr_remove_row(p[1], c), {q \in model : q[1] # p[1]})

ChangeStep ==
  /\ kind = "changes" /\ ~c.aborted
  /\ \/ \E change \in Changes : Becomes(buffer_change(change, c), <<change>> \o model)
     \/ c.head # NoNode /\ Becomes(poll_change(c), Tail(model))

\* Message buffers, or AVL nodes: model holds those in use.
BufferStep ==
  /\ kind = "buffers" /\ ~c.aborted
  /\ \/ Becomes(acquire(c), Append(model, c.pool))
     \/ \E i \in DOMAIN model : Becomes(release(model[i], c), RemoveAt(model, i))

NodeStep ==
  /\ kind = "nodes" /\ ~c.aborted
  /\ \/ Becomes(hvr_avl_node_allocator_alloc(c), Append(model, c.pool))
     \/ \E i \in DOMAIN model :
          Becomes(hvr_avl_node_allocator_free(model[i], c), RemoveAt(model, i))

\* Callbacks send to vertices of their PE and take all the messages there are for
\* theirs; model has what each vertex is to be given next.
MessageStep ==
  /\ kind = "messages" /\ ~c.aborted
  /\ \/ \E i \in 1 .. NReceivers, m \in Changes :
          \/ c.in_hand # Nobody /\ Becomes(hvr_send_msg(i, m, c), [model EXCEPT ![i] = <<m>> \o @])
          \/ Len(c.vertex_msg_mailbox) < MaxArrived /\ Becomes(Arrived(i, m, c), model)
     \/ /\ c.in_hand # Nobody /\ c.buffered[c.in_hand] # NoNode
        /\ Becomes(hvr_poll_msg(c), [model EXCEPT ![c.in_hand] = Tail(@)])
     \/ /\ c.in_hand # Nobody /\ c.buffered[c.in_hand] = NoNode
        /\ Becomes(EndCallback(c), model)
     \/ /\ c.iter = Outside
        /\ \/ Becomes(BeginUpdates(c), model)
           \/ LET Given(m) == [i \in 1 .. NReceivers |->
                    Reverse(SelectSeq(m, LAMBDA x : x.dst = i))]
                  new == Given(c.vertex_msg_mailbox)
              IN Becomes(process_incoming_messages(c),
                         [i \in 1 .. NReceivers |->
                            [k \in DOMAIN new[i] |-> new[i][k].payload] \o model[i]])
     \/ /\ c.iter # Outside /\ c.in_hand = Nobody
        /\ Becomes(IF c.iter > NReceivers THEN EndUpdates(c) ELSE NextVertex(c), model)

\* Blocks are freed in any order; model has what was asked for at each address.
HeapStep ==
  /\ kind = "heap" /\ UNCHANGED kind
  /\ \/ \E words \in Requests :
          LET got == mspace_malloc(c, words) IN
          /\ Cardinality(model) < MaxBlocks /\ got.p # NULL
          /\ c' = got.m /\ model' = model \cup {<<got.p, words>>}
     \/ \E b \in model : c' = mspace_free(c, b[1]) /\ model' = model \ {b}

CrcStep ==
  /\ kind = "crc" /\ Len(c) < MaxBytes
  /\ \E byte \in Bytes : c' = Append(c, byte)
  /\ UNCHANGED <<kind, model>>

\* A row of the edge matrix; model has the type of each edge and who made it.
RowStep ==
  /\ kind = "row" /\ UNCHANGED kind
  /\ \E j \in DOMAIN model, e \in EdgeTypes, created \in {IMPLICIT_EDGE, EXPLICIT_EDGE} :
       /\ c' = hvr_irr_matrix_set(j, e, created, c)
       /\ model' = [model EXCEPT ![j] = IF e = 0 THEN <<0>> ELSE <<e, created>>]

MailboxStep ==
  /\ kind = "mailboxes" /\ UNCHANGED <<kind, model>>
  /\ \E p \in Two : c' \in Step(p, c)

Next == \/ MapStep \/ SetStep \/ ArrayStep \/ ChangeStep \/ BufferStep \/ NodeStep
        \/ MessageStep \/ HeapStep \/ CrcStep \/ RowStep \/ MailboxStep

Spec == Init /\ [][Next]_vars
-----------------------------------------------------------------------------
(* Properties *)

\* A key is found, sorted segment or not, with the last data it was given, and
\* after it was removed no older entry shows.
MapIsExact ==
  kind = "map" /\ ~c.aborted => \A k \in Keys : hvr_map_get(k, c, none) = model[k]

\* A set counts exactly its members, also after hvr_set_fill has set bits past
\* its end; minimum, maximum and comparison agree.
SetsAreExact ==
  kind = "sets" =>
    /\ \A s \in DOMAIN c :
         /\ model[s] = {v \in 0 .. NVals - 1 : hvr_set_contains(v, c[s])}
         /\ c[s].n_contained = Cardinality(model[s])
         /\ model[s] # {} =>
              /\ hvr_set_min_contained(c[s]) = Min(model[s])
              /\ hvr_set_max_contained(c[s]) = Max(model[s])
    /\ hvr_set_equal(c["dst"], c["src"]) <=> model["dst"] = model["src"]

\* Rows are search trees, balanced, of the values they should have; their size,
\* by which callers allocate, is that of the tree.
RowsAreExact ==
  kind = "array" /\ ~c.aborted =>
    /\ \A p \in Pairs : hvr_sparse_arr_contains(p[1], p[2], c) <=> p \in model
    /\ \A s \in DOMAIN c.segs : c.segs[s] # unallocated =>
         \A k \in DOMAIN c.segs[s].seg :
           LET tree == c.segs[s].seg[k] IN
           /\ Ordered(tree) /\ Balanced(tree)
           /\ c.segs[s].seg_size[k] = hvr_avl_size(tree)
    /\ \A i \in 0 .. Capacity - 1 :
         ToSet(hvr_sparse_arr_linearize_row(i, c)) = {q[2] : q \in {p \in model : p[1] = i}}

\* No node is lost or in two lists, changes and the messages to a vertex come last
\* in, first out, and a pool is empty only when all its nodes are in use.
Contents(nodes) == [i \in DOMAIN nodes |-> c.what[nodes[i]]]
PoolsAreExact ==
  kind \in {"changes", "buffers", "nodes", "messages"} =>
    LET used == CASE kind \in {"buffers", "nodes"} -> model
                  [] kind = "changes" -> ListFrom(c, c.head)
                  [] kind = "messages" ->
                       FlattenSeq([i \in 1 .. NReceivers |-> ListFrom(c, c.buffered[i])])
        both == ListFrom(c, c.pool) \o used
    IN /\ Len(both) = NNodes /\ ToSet(both) = 1 .. NNodes
       /\ kind = "changes" => Contents(used) = model
       /\ kind \in {"buffers", "nodes"} => c.n_reserved = Len(model)
       /\ c.aborted => c.pool = NoNode

\* What dlmalloc checks of its state holds between any two calls; the chunks in use
\* are the blocks that were given out, none much larger than asked; and nothing is
\* refused for which there is a chunk.
HeapIsExact ==
  kind = "heap" =>
    LET chunks == Front(Traversed(c))
        InUse(p) == c.head[p].cinuse
    IN /\ do_check_malloc_state(c)
       /\ \A b \in model : do_check_malloced_chunk(c, b[1], request2size(b[2]))
       /\ Cardinality(model) = Len(SelectSeq(chunks, InUse))
       /\ {b[1] : b \in model} = ToSet(SelectSeq(chunks, InUse))
       /\ \A words \in Requests : mspace_malloc(c, words).p = NULL =>
            LET nb == request2size(words)
            IN c.topsize <= nb /\ \A p \in ToSet(chunks) : InUse(p) \/ c.head[p].size < nb

\* The checksum by table is that of the division, and no change of a message that
\* stays within the width of the checksum is missed.
CrcIsExact ==
  kind = "crc" =>
    /\ crcFast(c) = crcSlow(c)
    /\ \A n \in 1 .. Len(c) - WIDTH \div BYTE + 1 :
         \A e \in [n .. n + WIDTH \div BYTE - 1 -> Bytes] :
           (\E i \in DOMAIN e : e[i] # {}) =>
             crcFast([i \in DOMAIN c |-> IF i \in DOMAIN e THEN Xor(c[i], e[i]) ELSE c[i]])
               # crcFast(c)

\* Whatever of its neighbors are populated, a vertex is shown those, each once and
\* with the type of the edge, again after a reset, and the minimum over them.
Shown(list, populated) ==
  LET After[k \in 0 .. Cardinality(DOMAIN model) + 1] ==
        IF k = 0 THEN [out |-> <<>>, list |-> list, seen |-> <<>>]
        ELSE LET next == hvr_neighbors_next(After[k - 1].list, populated)
             IN next @@ [seen |-> IF next.out = <<>> THEN After[k - 1].seen
                                  ELSE Append(After[k - 1].seen, next.out)]
  IN After[Cardinality(DOMAIN model) + 1]
NeighborsAreExact ==
  kind = "row" =>
    /\ Ordered(c) /\ Balanced(c)
    /\ \A j \in DOMAIN model : hvr_irr_matrix_get(j, c) = model[j]
    /\ \A populated \in SUBSET DOMAIN model :
         LET there == {j \in populated : model[j] # <<0>>}
             first == Shown(hvr_get_neighbors(TRUE, c, populated), populated)
         IN /\ ToSet(first.seen) = {<<j, model[j][1]>> : j \in there}
            /\ Len(first.seen) = Cardinality(there)
            /\ Shown(hvr_neighbors_reset(first.list, populated), populated).seen = first.seen
            /\ LET least == hvr_neighbors_min(TRUE, c, Values, 100, populated)
               IN least = Min({100} \cup {Values[j] : j \in there})

\* A PE's messages of a sort that the other has not handled are in its hands, in its
\* mailbox or in the buffer, each once; but for updates that a flush of updates sends
\* or drops because others were put in the buffer from inside it.
InHand(p, s) ==
  SelectSeq(c[p].todo, LAMBDA item : item.do = "handle" /\ item.sort = s)
BuffersAreExact ==
  kind = "mailboxes" =>
    \A p \in Two, s \in Sorts :
      LET q    == OtherOf(p)
          open == FlattenSeq(c[q].mailbox[s]) \o SubSeq(c[p].buffers[s], 1, c[p].nbuffered[s])
                    \o [i \in DOMAIN InHand(q, s) |-> InHand(q, s)[i].msg]
      IN \/ /\ c[q].got[s] \cup ToSet(open) = 1 .. c[p].sent[s]
            /\ Cardinality(c[q].got[s]) + Len(open) = c[p].sent[s]
         \/ s = "update" /\ (c[p].overtaken \/ c[p].knows_exit)

\* Maps, sets, rows of sparse arrays, lists of changes, buffers and messages, rows of
\* edges and batches for other PEs hold what their users put in.
ContainersAreExact ==
  /\ MapIsExact /\ SetsAreExact /\ RowsAreExact /\ PoolsAreExact
  /\ HeapIsExact /\ CrcIsExact /\ NeighborsAreExact /\ BuffersAreExact

\* A vertex is given its messages in the order model has them; as long as there are
\* some it is in hand or flagged, and the next pass is not skipped if it has been
\* passed over in this one.
MessagesHaveTurn ==
  kind = "messages" /\ ~c.aborted =>
    \A i \in 1 .. NReceivers :
      /\ Contents(ListFrom(c, c.buffered[i])) = model[i]
      /\ model[i] # <<>> => c.in_hand = i \/ c.needs_processing[i]
      /\ c.needs_processing[i] =>
           c.any_needs_processing \/ (c.iter # Outside /\ c.iter <= i)

\* A PE that waits for room, where what it does between two tries leads nowhere.
Spins(p) == /\ ~c[p].exited /\ c[p].todo # <<>>
            /\ \A w \in Step(p, c) :
                 c = w \/ \A v \in Step(p, w) : c \in {v} \cup Step(p, v)
\* Nobody waits for ever to send an update: a PE that does is let through by the
\* other, or learns that it is gone, unless one of them waits to subscribe.
UpdatesGetThrough ==
  kind = "mailboxes" =>
    \A p \in Two :
      Spins(p) /\ (Spins(OtherOf(p)) \/ c[OtherOf(p)].exited) =>
        \E q \in Two : Spins(q) /\ Head(c[q].todo).sort = "sub"

\* Messages to vertices and updates to other PEs are not left lying.
NothingIsStranded == MessagesHaveTurn /\ UpdatesGetThrough
=============================================================================
