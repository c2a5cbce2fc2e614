------------------------------ MODULE Neighbors ------------------------------
(***************************************************************************)
(* What a callback reads of the graph: a row of the edge matrix, an AVL    *)
(* tree with packed edges (src/hvr_irregular_matrix.cpp), walked through   *)
(* a list of its own (inc/hvr_neighbors.h, hvr_get_neighbors) or reduced   *)
(* (hvr_neighbors_min).  Slots the PE has subscribed to, without a body    *)
(* yet, are passed over.                                                   *)
(***************************************************************************)
EXTENDS AvlTree

CONSTANT VERTEX_BITS       \* 61: the rest of the 64 bits hold the edge
ASSUME BitsAssumption == VERTEX_BITS \in Nat

IMPLICIT_EDGE == 0
EXPLICIT_EDGE == 1
EdgeTypes == 0 .. 3         \* NO_EDGE, DIRECTED_IN, DIRECTED_OUT, BIDIRECTIONAL

construct_edge_info(vert, edge, creation_type) ==
  vert + creation_type * 2 ^ VERTEX_BITS + edge * 2 ^ (VERTEX_BITS + 1)
EDGE_INFO_VERTEX(info) == info % 2 ^ VERTEX_BITS
EDGE_INFO_CREATION(info) == (info % 2 ^ (VERTEX_BITS + 1)) \div 2 ^ VERTEX_BITS
EDGE_INFO_EDGE(info) == info \div 2 ^ (VERTEX_BITS + 1)

\* One row of the matrix; type 0 is NO_EDGE.
hvr_irr_matrix_set(j, e, create_type, root) ==
  LET info == construct_edge_info(j, e, create_type)
  IN CASE hvr_avl_find(root, j) = nnil -> IF e = 0 THEN root ELSE hvr_avl_insert(root, j, info)
       [] e = 0 -> hvr_avl_delete(root, j)
       [] OTHER -> Overwrite(root, j, info)

\* The type of the edge and how it was created.
hvr_irr_matrix_get(j, root) ==
  LET found == hvr_avl_find(root, j)
  IN IF found = nnil THEN <<0>>
     ELSE <<EDGE_INFO_EDGE(found.value), EDGE_INFO_CREATION(found.value)>>

(* Lists: populated is the set of slots that have a vertex *)

hvr_neighbors_seek_to_valid(n, populated) ==
  LET valid == {i \in n.iter .. Len(n.l) - 1 : EDGE_INFO_VERTEX(n.l[i + 1]) \in populated}
  IN [n EXCEPT !.iter = CHOOSE i \in valid \cup {Len(n.l)} : \A j \in valid : i <= j]

hvr_neighbors_init(l, populated) == hvr_neighbors_seek_to_valid([l |-> l, iter |-> 0], populated)

hvr_neighbors_reset(n, populated) ==
  hvr_neighbors_seek_to_valid([n EXCEPT !.iter = 0], populated)

\* The next neighbor and the type of the edge to it, and where that leaves the list.
hvr_neighbors_next(n, populated) ==
  IF n.iter >= Len(n.l) THEN [out |-> <<>>, list |-> n]
  ELSE [out |-> <<EDGE_INFO_VERTEX(n.l[n.iter + 1]), EDGE_INFO_EDGE(n.l[n.iter + 1])>>,
        list |-> hvr_neighbors_seek_to_valid([n EXCEPT !.iter = @ + 1], populated)]

\* A vertex that is not in the cache has no row.
hvr_get_neighbors(cached, root, populated) ==
  hvr_neighbors_init(IF cached THEN hvr_avl_serialize(root) ELSE <<>>, populated)

\* The least value of a feature among the neighbors, or init_val.
RECURSIVE hvr_neighbors_min_helper(_, _, _, _)
hvr_neighbors_min_helper(curr, feat, init_val, populated) ==
  IF curr = nnil THEN init_val
  ELSE LET Lesser(a, b) == IF a < b THEN a ELSE b
           slot == EDGE_INFO_VERTEX(curr.value)
           below(dir) == hvr_neighbors_min_helper(curr.kid[dir], feat, init_val, populated)
       IN Lesser(Lesser(below(0), below(1)), IF slot \in populated THEN feat[slot] ELSE init_val)

hvr_neighbors_min(cached, root, feat, init_val, populated) ==
  IF cached THEN hvr_neighbors_min_helper(root, feat, init_val, populated) ELSE init_val
=============================================================================
