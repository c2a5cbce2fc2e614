------------------------------ MODULE SparseArr ------------------------------
(***************************************************************************)
(* The sparse array of src/hvr_sparse_arr.cpp, which holds the subscribers *)
(* of each partition and vertex: rows are AVL trees, in segments that are  *)
(* taken from a pool when a row in them gets its first value.              *)
(***************************************************************************)
EXTENDS AvlTree

CONSTANTS HVR_SPARSE_ARR_SEGMENT_SIZE, unallocated   \* unallocated: a segment that is NULL
ASSUME SegmentAssumption == HVR_SPARSE_ARR_SEGMENT_SIZE \in Nat \ {0}

SegOf(i) == i \div HVR_SPARSE_ARR_SEGMENT_SIZE
SegIndex(i) == i % HVR_SPARSE_ARR_SEGMENT_SIZE

hvr_sparse_arr_seg_init ==
  [seg |-> [k \in 0 .. HVR_SPARSE_ARR_SEGMENT_SIZE - 1 |-> nnil],
   seg_size |-> [k \in 0 .. HVR_SPARSE_ARR_SEGMENT_SIZE - 1 |-> 0]]

hvr_sparse_arr_init(capacity, preallocated) ==
  [segs |-> [s \in 0 .. (capacity + HVR_SPARSE_ARR_SEGMENT_SIZE - 1)
                           \div HVR_SPARSE_ARR_SEGMENT_SIZE - 1 |-> unallocated],
   segs_pool |-> preallocated, aborted |-> FALSE]

WithSegment(arr, s) ==
  IF arr.segs[s] # unallocated THEN arr
  ELSE IF arr.segs_pool = 0 THEN [arr EXCEPT !.aborted = TRUE]
  ELSE [arr EXCEPT !.segs[s] = hvr_sparse_arr_seg_init, !.segs_pool = @ - 1]

Without(segment, k, j) ==
  [segment EXCEPT
     !.seg[k] = hvr_avl_delete(@, j),
     !.seg_size[k] = @ - IF hvr_avl_find(segment.seg[k], j) = nnil THEN 0 ELSE 1]

hvr_sparse_arr_insert(i, j, arr) ==
  LET a == WithSegment(arr, SegOf(i)) IN
  IF a.aborted THEN a
  ELSE LET tree == a.segs[SegOf(i)].seg[SegIndex(i)] IN
       [a EXCEPT !.segs[SegOf(i)].seg[SegIndex(i)] = hvr_avl_insert(tree, j, j),
                 !.segs[SegOf(i)].seg_size[SegIndex(i)] =
                    @ + IF hvr_avl_find(tree, j) = nnil THEN 1 ELSE 0]

hvr_sparse_arr_contains(i, j, arr) ==
  LET segment == arr.segs[SegOf(i)] IN
  segment # unallocated /\ hvr_avl_find(segment.seg[SegIndex(i)], j) # nnil

hvr_sparse_arr_remove(i, j, arr) ==
  IF arr.segs[SegOf(i)] = unallocated THEN arr
  ELSE [arr EXCEPT !.segs[SegOf(i)] = Without(@, SegIndex(i), j)]

\* From every row.
hvr_sparse_arr_remove_value(j, arr) ==
  LET WithoutAll(segment) ==
        [seg |-> [k \in DOMAIN segment.seg |-> Without(segment, k, j).seg[k]],
         seg_size |-> [k \in DOMAIN segment.seg |-> Without(segment, k, j).seg_size[k]]]
  IN [arr EXCEPT !.segs = [s \in DOMAIN @ |-> IF @[s] = unallocated THEN unallocated
                                              ELSE WithoutAll(@[s])]]

hvr_sparse_arr_remove_row(i, arr) ==
  IF arr.segs[SegOf(i)] = unallocated THEN arr
  ELSE [arr EXCEPT !.segs[SegOf(i)].seg[SegIndex(i)] = nnil,
                   !.segs[SegOf(i)].seg_size[SegIndex(i)] = 0]

\* The caller's array has room for seg_size values.
hvr_sparse_arr_linearize_row(i, arr) ==
  LET segment == arr.segs[SegOf(i)] IN
  IF segment = unallocated \/ segment.seg_size[SegIndex(i)] = 0 THEN <<>>
  ELSE hvr_avl_serialize(segment.seg[SegIndex(i)])
=============================================================================
