----------------------------- MODULE MspaceChecks -----------------------------
(***************************************************************************)
(* The checks of the state of an mspace that dlmalloc makes at every call  *)
(* when it is built with DEBUG, which HOOVER does not do.  Alignment and   *)
(* the links of circular lists are not in the model.                       *)
(***************************************************************************)
EXTENDS Mspace, FiniteSets

MIN_LARGE_SIZE == 2 ^ TREEBIN_SHIFT
minsize_for_tree_index(i) ==
  2 ^ (i \div 2 + TREEBIN_SHIFT) + (i % 2) * 2 ^ (i \div 2 + TREEBIN_SHIFT - 1)

is_inuse(m, p) == m.head[p].cinuse \/ ~m.head[p].pinuse
is_mmapped(m, p) == ~m.head[p].cinuse /\ ~m.head[p].pinuse
next_pinuse(m, p) == m.head[next_chunk(m, p)].pinuse

\* Every address is past that of the state; sizes cannot lead out of the segment.
do_check_any_chunk(m, p) == p > NULL /\ next_chunk(m, p) \in DOMAIN m.head

do_check_top_chunk(m, p) ==
  LET sz == m.head[p].size IN
  /\ do_check_any_chunk(m, p)
  /\ sz = m.topsize /\ sz > 0
  /\ p + sz + TOP_FOOT_SIZE = Cardinality(DOMAIN m.head) - 1
  /\ m.head[p].pinuse /\ ~next_pinuse(m, p)

\* Nothing is mapped.
do_check_inuse_chunk(m, p) ==
  /\ do_check_any_chunk(m, p)
  /\ is_inuse(m, p) /\ next_pinuse(m, p) /\ ~is_mmapped(m, p)
  /\ m.head[p].pinuse \/ next_chunk(m, p - m.foot[p]) = p

do_check_free_chunk(m, p) ==
  LET sz == m.head[p].size  next == next_chunk(m, p) IN
  /\ do_check_any_chunk(m, p)
  /\ ~is_inuse(m, p) /\ ~next_pinuse(m, p) /\ ~is_mmapped(m, p)
  /\ p \notin {m.dv, m.top} =>
       /\ sz >= MIN_CHUNK_SIZE
       /\ m.foot[next] = sz /\ m.head[p].pinuse
       /\ next = m.top \/ is_inuse(m, next)

\* A chunk that was given out for a request of s.
do_check_malloced_chunk(m, p, s) ==
  LET sz == m.head[p].size IN
  /\ do_check_inuse_chunk(m, p)
  /\ sz >= MIN_CHUNK_SIZE /\ sz >= s /\ sz < s + MIN_CHUNK_SIZE

RECURSIVE do_check_tree(_, _, _)
do_check_tree(m, t, tindex) ==
  LET there == {i \in 1 .. 2 : t.child[i] # empty} IN
  /\ compute_tree_index(t.size) = tindex
  /\ t.size >= MIN_LARGE_SIZE /\ t.size >= minsize_for_tree_index(tindex)
  /\ tindex = NTREEBINS - 1 \/ t.size < minsize_for_tree_index(tindex + 1)
  /\ \A u \in ToSet(t.ring) :
       /\ do_check_any_chunk(m, u)
       /\ m.head[u].size = t.size /\ ~is_inuse(m, u) /\ ~next_pinuse(m, u)
  /\ \A i \in there : do_check_tree(m, t.child[i], tindex)
  /\ there = 1 .. 2 => t.child[1].size < t.child[2].size

do_check_treebin(m, i) ==
  /\ m.treebins[i] = empty => i \notin m.treemap
  /\ i \in m.treemap => do_check_tree(m, m.treebins[i], i)

do_check_smallbin(m, i) ==
  /\ m.smallbins[i] = <<>> => i \notin m.smallmap
  /\ i \in m.smallmap => \A p \in ToSet(m.smallbins[i]) :
       /\ do_check_free_chunk(m, p) /\ m.head[p].size = i
       /\ do_check_inuse_chunk(m, next_chunk(m, p))

\* Whether x is in the bin for its size, a trie being searched by the size.
RECURSIVE FindInTrie(_, _, _)
FindInTrie(t, size, bit) ==
  IF t = empty \/ t.size = size THEN t
  ELSE FindInTrie(t.child[Branch(size, bit)], size, bit - 1)
bin_find(m, x) ==
  LET size == m.head[x].size
      tidx == compute_tree_index(size)
  IN IF is_small(size) THEN size \in m.smallmap /\ x \in ToSet(m.smallbins[size])
     ELSE /\ tidx \in m.treemap
          /\ x \in ToSet(FindInTrie(m.treebins[tidx], size, bit_for_tree_index(tidx)).ring)

\* The chunks from the first one behind the state up to top.
Traversed(m) ==
  LET N == Cardinality(DOMAIN m.head)
      Upto[k \in 0 .. N] ==
        IF k = 0 THEN <<MSTATE_SIZE>>
        ELSE LET qs == Upto[k - 1]
             IN IF Last(qs) = m.top \/ m.head[Last(qs)].size = 0 THEN qs
                ELSE Append(qs, next_chunk(m, Last(qs)))
  IN Upto[N]
traverse_and_check(m) ==
  LET qs == Traversed(m) IN
  /\ m.head[qs[1]].pinuse /\ Last(qs) = m.top
  /\ \A k \in 1 .. Len(qs) - 1 :
       LET q == qs[k] IN
       IF is_inuse(m, q) THEN ~bin_find(m, q) /\ do_check_inuse_chunk(m, q)
       ELSE /\ q = m.dv \/ bin_find(m, q)
            /\ k > 1 => is_inuse(m, qs[k - 1])
            /\ do_check_free_chunk(m, q)

do_check_malloc_state(m) ==
  /\ \A i \in 0 .. NSMALLBINS - 1 : do_check_smallbin(m, i)
  /\ \A i \in 0 .. NTREEBINS - 1 : do_check_treebin(m, i)
  /\ m.dvsize # 0 =>
       /\ do_check_any_chunk(m, m.dv) /\ ~bin_find(m, m.dv)
       /\ m.dvsize = m.head[m.dv].size /\ m.dvsize >= MIN_CHUNK_SIZE
  /\ do_check_top_chunk(m, m.top) /\ ~bin_find(m, m.top)
  /\ traverse_and_check(m)
=============================================================================
