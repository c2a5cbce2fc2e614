------------------------------- MODULE HvrMap -------------------------------
(***************************************************************************)
(* The hash map of src/hvr_map.cpp, which finds cached vertices by id and  *)
(* the head of a partition's list: buckets that are lists of segments.  A  *)
(* segment is searched linearly until it is full; then it is sorted, and   *)
(* searched by bisection.  New keys go to the last segment of a bucket.    *)
(* A segment is a sequence of entries, its length the nkeys of the source. *)
(***************************************************************************)
EXTENDS Integers, Sequences, SequencesExt

CONSTANTS HVR_MAP_SEG_SIZE, HVR_MAP_BUCKETS
ASSUME MapAssumption == HVR_MAP_SEG_SIZE \in Nat \ {0} /\ HVR_MAP_BUCKETS \in Nat \ {0}

HVR_MAP_BUCKET(key) == key % HVR_MAP_BUCKETS

Swap(arr, i, j) == [arr EXCEPT ![i] = arr[j], ![j] = arr[i]]

\* The entries smaller than the last one to the left of it; pi is where it goes.
partition(arr, low, high) ==
  LET Place(acc, j) == IF acc.arr[j].key < arr[high].key
                       THEN [arr |-> Swap(acc.arr, acc.pi, j), pi |-> acc.pi + 1] ELSE acc
      last == FoldLeft(Place, [arr |-> arr, pi |-> low],
                       [n \in 1 .. high - low |-> low + n - 1])
  IN [arr |-> Swap(last.arr, last.pi, high), pi |-> last.pi]

RECURSIVE quickSort(_, _, _)
quickSort(arr, low, high) ==
  IF low >= high THEN arr
  ELSE LET p == partition(arr, low, high)
       IN quickSort(quickSort(p.arr, low, p.pi - 1), p.pi + 1, high)

\* A slip for the mutants: a segment that fills up is left as it is.
SegAddUnsorted(seg, e) == Append(seg, e)
hvr_map_seg_add(seg, e) ==
  IF Len(seg) + 1 = HVR_MAP_SEG_SIZE THEN quickSort(Append(seg, e), 1, HVR_MAP_SEG_SIZE)
  ELSE Append(seg, e)

\* 0 when x is not there
binarySearch(arr, x) ==
  LET Within[l \in 1 .. HVR_MAP_SEG_SIZE + 1, r \in 0 .. HVR_MAP_SEG_SIZE] ==
        LET mid == l + (r - l) \div 2 IN
        IF r < l THEN 0
        ELSE IF arr[mid].key = x THEN mid
        ELSE IF arr[mid].key > x THEN Within[l, mid - 1] ELSE Within[mid + 1, r]
  IN Within[1, HVR_MAP_SEG_SIZE]

IndexIn(seg, key) ==
  IF Len(seg) = HVR_MAP_SEG_SIZE THEN binarySearch(seg, key)
  ELSE SelectInSeq(seg, LAMBDA e : e.key = key)

\* Where key is: the segment of its bucket and the index in it, or segment 0.
hvr_map_find(key, m) ==
  LET segs == m.buckets[HVR_MAP_BUCKET(key)]
      at   == SelectInSeq(segs, LAMBDA seg : IndexIn(seg, key) # 0)
  IN [seg |-> at, index |-> IF at = 0 THEN 0 ELSE IndexIn(segs[at], key)]

EntryAt(m, key) ==
  LET f == hvr_map_find(key, m) IN m.buckets[HVR_MAP_BUCKET(key)][f.seg][f.index]

hvr_map_get(key, m, null) ==
  IF hvr_map_find(key, m).seg = 0 THEN null ELSE EntryAt(m, key).data

hvr_map_init(n_segs) ==
  [buckets |-> [b \in 0 .. HVR_MAP_BUCKETS - 1 |-> <<>>], seg_pool |-> n_segs,
   aborted |-> FALSE]

\* The last segment of the bucket, or a new one from the pool if it is full.
AddNew(m, b, e) ==
  LET segs == m.buckets[b]
      fits == segs # <<>> /\ Len(Last(segs)) < HVR_MAP_SEG_SIZE
  IN IF fits THEN [m EXCEPT !.buckets[b][Len(segs)] = hvr_map_seg_add(Last(segs), e)]
     ELSE IF m.seg_pool = 0 THEN [m EXCEPT !.aborted = TRUE]
     ELSE [m EXCEPT !.buckets[b] = Append(segs, hvr_map_seg_add(<<>>, e)),
                    !.seg_pool = @ - 1]

hvr_map_add(key, to_insert, replace, m) ==
  LET b == HVR_MAP_BUCKET(key)
      f == hvr_map_find(key, m)
  IN IF f.seg = 0 THEN AddNew(m, b, [key |-> key, data |-> to_insert])
     ELSE IF replace THEN [m EXCEPT !.buckets[b][f.seg][f.index].data = to_insert]
     ELSE [m EXCEPT !.aborted = EntryAt(m, key).data # to_insert]

\* The last entry of the segment takes the place of the one removed; a segment
\* that becomes empty stays where it is.
hvr_map_remove(key, val, m) ==
  LET b == HVR_MAP_BUCKET(key)
      f == hvr_map_find(key, m)
      seg == m.buckets[b][f.seg]
  IN IF f.seg = 0 THEN m
     ELSE IF seg[f.index].data # val THEN [m EXCEPT !.aborted = TRUE]
     ELSE [m EXCEPT !.buckets[b][f.seg] = Front([seg EXCEPT ![f.index] = Last(seg)])]
=============================================================================
