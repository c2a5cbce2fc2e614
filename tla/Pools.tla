-------------------------------- MODULE Pools --------------------------------
(***************************************************************************)
(* The free lists of preallocated nodes: the pools of AVL nodes, message   *)
(* buffers and buffered changes (src/hvr_avl_tree.cpp 171-205,             *)
(* src/hvr_msg_buf_pool.cpp, src/hvr_buffered_changes.cpp), and messages   *)
(* to vertices (src/hvr_buffered_msgs.cpp).  A node that leaves the pool   *)
(* is used alone, or is pushed on another list through the same link; node *)
(* 0 is NULL.                                                              *)
(***************************************************************************)
EXTENDS Integers, Sequences, TLC

NoNode == 0

\* n nodes, linked in order; head is the list the owner keeps of those in use.
pool_init(n) ==
  [next |-> [k \in 1 .. n |-> IF k = n THEN NoNode ELSE k + 1], pool |-> 1, head |-> NoNode,
   n_reserved |-> 0, what |-> [k \in 1 .. n |-> NoNode], aborted |-> FALSE]

\* AVL nodes keep what the link, their first kid, was when they are taken, and are
\* given back with kids.
hvr_avl_node_allocator_alloc(p) ==
  IF p.pool = NoNode THEN [p EXCEPT !.aborted = TRUE]
  ELSE [p EXCEPT !.pool = p.next[p.pool], !.n_reserved = @ + 1]
hvr_avl_node_allocator_free(node, p) ==
  [p EXCEPT !.next[node] = p.pool, !.pool = node, !.n_reserved = @ - 1]

\* hvr_msg_buf_pool_acquire: the buffer is p.pool
acquire(p) ==
  IF p.pool = NoNode THEN [p EXCEPT !.aborted = TRUE]
  ELSE [p EXCEPT !.pool = p.next[p.pool], !.next[p.pool] = NoNode, !.n_reserved = @ + 1]

\* hvr_msg_buf_pool_release asserts that the buffer is in no list.
release(node, p) ==
  IF p.next[node] # NoNode THEN [p EXCEPT !.aborted = TRUE]
  ELSE [p EXCEPT !.next[node] = p.pool, !.pool = node, !.n_reserved = @ - 1]

\* hvr_buffered_changes_edge_create, hvr_buffered_changes_delete_vertex
buffer_change(change, p) ==
  IF p.pool = NoNode THEN [p EXCEPT !.aborted = TRUE]
  ELSE [p EXCEPT !.pool = p.next[p.pool], !.next[p.pool] = p.head, !.head = p.pool,
                 !.what[p.pool] = change]

\* hvr_buffered_changes_poll, of a list that is not empty
poll_change(p) ==
  [p EXCEPT !.head = p.next[p.head], !.next[p.head] = p.pool, !.pool = p.head]

\* The messages for each vertex; mspace_malloc takes the node from the pool too.
hvr_buffered_msgs_init(vertices, n) == [buffered |-> [i \in vertices |-> NoNode]] @@ pool_init(n)

hvr_buffered_msgs_insert(i, payload, b) ==
  IF b.pool = NoNode THEN [b EXCEPT !.aborted = TRUE]
  ELSE [b EXCEPT !.pool = b.next[b.pool], !.next[b.pool] = b.buffered[i],
                 !.buffered[i] = b.pool, !.what[b.pool] = payload]

\* Of a vertex that has a message.
hvr_buffered_msgs_poll(i, b) ==
  [b EXCEPT !.buffered[i] = b.next[b.buffered[i]], !.next[b.buffered[i]] = b.pool,
            !.pool = b.buffered[i]]

ListFrom(p, node) ==
  LET N == Len(p.next)
      Upto[k \in 0 .. N + 1] ==
        IF k = 0 THEN <<>>
        ELSE LET c == Upto[k - 1]
                 n == IF c = <<>> THEN node ELSE p.next[c[Len(c)]]
             IN IF n = NoNode \/ Len(c) < k - 1 THEN c ELSE Append(c, n)
  IN Upto[N + 1]
=============================================================================
