------------------------------- MODULE Mspace -------------------------------
(***************************************************************************)
(* The allocator under row copies, linearised rows, neighbor lists and     *)
(* buffered messages: an mspace of dlmalloc over the piece of memory       *)
(* create_mspace_with_base was given, as HOOVER builds it (one segment     *)
(* that is never extended, trimmed or mapped; no locks).                   *)
(*                                                                         *)
(* Sizes and addresses count words, the unit of alignment.  A chunk at p   *)
(* has prev_foot at p, head at p + 1 and its memory from p + 2 up to and   *)
(* including the prev_foot of the chunk behind it, which the chunk in      *)
(* front of a free one sets to its size (0 here while it is the user's).   *)
(* Words that are inside a chunk have no head.  Circular lists are         *)
(* sequences, the tries of large chunks are values.                        *)
(***************************************************************************)
EXTENDS Integers, Sequences, SequencesExt

CONSTANTS
  MIN_CHUNK_SIZE, CHUNK_OVERHEAD, \* 4 and 1 in the code (2 with footers)
  NSMALLBINS,                     \* 32: sizes below have a bin each
  TREEBIN_SHIFT,                  \* 5: NSMALLBINS is its power of two
  NTREEBINS,                      \* 32
  SIZE_T_BITSIZE,                 \* bits of a size: 61 for words
  MSTATE_SIZE, TOP_FOOT_SIZE      \* of malloc_state, of the end of the segment

ASSUME MspaceAssumption ==
  /\ MIN_CHUNK_SIZE > CHUNK_OVERHEAD /\ CHUNK_OVERHEAD > 0
  /\ NSMALLBINS = 2 ^ TREEBIN_SHIFT /\ MIN_CHUNK_SIZE < NSMALLBINS
  /\ NTREEBINS > 0 /\ SIZE_T_BITSIZE > TREEBIN_SHIFT

NULL == 0
Unsigned(n) == n % 2 ^ SIZE_T_BITSIZE
request2size(req) ==
  IF req + CHUNK_OVERHEAD < MIN_CHUNK_SIZE THEN MIN_CHUNK_SIZE ELSE req + CHUNK_OVERHEAD
is_small(s) == s < NSMALLBINS

\* Two bins for each power of two, the last for all that is larger.
compute_tree_index(s) ==
  LET X == s \div 2 ^ TREEBIN_SHIFT
      K == CHOOSE k \in 0 .. SIZE_T_BITSIZE : 2 ^ k <= X /\ X < 2 ^ (k + 1)
  IN IF X = 0 THEN 0
     ELSE IF X >= 2 ^ (NTREEBINS \div 2) THEN NTREEBINS - 1
     ELSE 2 * K + ((s \div 2 ^ (K + TREEBIN_SHIFT - 1)) % 2)

\* The bit that decides at the root of bin i; the next lower one a level down.
bit_for_tree_index(i) ==
  IF i = NTREEBINS - 1 THEN SIZE_T_BITSIZE - 1 ELSE i \div 2 + TREEBIN_SHIFT - 2
Branch(s, bit) == IF bit < 0 THEN 1 ELSE ((s \div 2 ^ bit) % 2) + 1

(* Heads and feet *)

ChunkHead(s, pinuse, cinuse) == [size |-> s, pinuse |-> pinuse, cinuse |-> cinuse]
NoHead == ChunkHead(0, FALSE, FALSE)
next_chunk(m, p) == p + m.head[p].size

set_inuse_and_pinuse(m, p, s) ==
  [m EXCEPT !.head[p] = ChunkHead(s, TRUE, TRUE), !.head[p + s].pinuse = TRUE, !.foot[p + s] = 0]
set_size_and_pinuse_of_inuse_chunk(m, p, s) == [m EXCEPT !.head[p] = ChunkHead(s, TRUE, TRUE)]
set_size_and_pinuse_of_free_chunk(m, p, s) ==
  [m EXCEPT !.head[p] = ChunkHead(s, TRUE, FALSE), !.foot[p + s] = s]
set_free_with_pinuse(m, p, s, n) ==
  set_size_and_pinuse_of_free_chunk([m EXCEPT !.head[n].pinuse = FALSE], p, s)
\* q is inside the chunk in front of it.
Absorb(m, q) == [m EXCEPT !.head[q] = NoHead, !.foot[q] = 0]

(* Bins of one size *)

insert_small_chunk(m, p, s) ==
  [m EXCEPT !.smallbins[s] = IF s \in m.smallmap THEN <<p>> \o @ ELSE <<p>>,
            !.smallmap = @ \union {s}]
unlink_small_chunk(m, p, s) ==
  IF m.smallbins[s] = <<p>> THEN [m EXCEPT !.smallbins[s] = <<>>, !.smallmap = @ \ {s}]
  ELSE [m EXCEPT !.smallbins[s] = SelectSeq(@, LAMBDA q : q # p)]
unlink_first_small_chunk(m, s) == unlink_small_chunk(m, Head(m.smallbins[s]), s)

\* Bins the designated victim; its callers know that it is small.
replace_dv(m, p, s) ==
  [IF m.dvsize # 0 THEN insert_small_chunk(m, m.dv, m.dvsize) ELSE m EXCEPT
     !.dv = p, !.dvsize = s]

(* Tries of chunks by the bits of their sizes.  A node is the ring of the   *)
(* chunks of one size, the one that has parent and children first.          *)

empty == [ring |-> <<>>]

RECURSIVE TrieInsert(_, _, _, _)
TrieInsert(t, x, s, bit) ==
  IF t = empty THEN [ring |-> <<x>>, size |-> s, child |-> <<empty, empty>>]
  ELSE IF t.size = s THEN [t EXCEPT !.ring = <<t.ring[1], x>> \o Tail(t.ring)]
  ELSE [t EXCEPT !.child[Branch(s, bit)] = TrieInsert(@, x, s, bit - 1)]

insert_large_chunk(m, x, s) ==
  LET i == compute_tree_index(s) IN
  [m EXCEPT !.treebins[i] = TrieInsert(IF i \in m.treemap THEN @ ELSE empty, x, s,
                                       bit_for_tree_index(i)),
            !.treemap = @ \union {i}]

\* A leaf below t, as far right as possible, and t without it.
LeafSide(t) == IF t.child[2] # empty THEN 2 ELSE 1
RECURSIVE Leaf(_), WithoutLeaf(_)
Leaf(t) == IF t.child = <<empty, empty>> THEN t ELSE Leaf(t.child[LeafSide(t)])
WithoutLeaf(t) ==
  IF t.child = <<empty, empty>> THEN empty ELSE [t EXCEPT !.child[LeafSide(t)] = WithoutLeaf(@)]

\* The chunk behind in the ring takes x's place, or else a leaf does.
Unlinked(t, x) ==
  IF Len(t.ring) > 1
  THEN [t EXCEPT !.ring = IF x = t.ring[1] THEN <<Last(@)>> \o Tail(Front(@))
                          ELSE SelectSeq(@, LAMBDA q : q # x)]
  ELSE IF t.child = <<empty, empty>> THEN empty
  ELSE [WithoutLeaf(t) EXCEPT !.ring = Leaf(t).ring, !.size = Leaf(t).size]

RECURSIVE TrieUnlink(_, _)
TrieUnlink(t, x) ==
  IF t = empty THEN t
  ELSE IF x \in ToSet(t.ring) THEN Unlinked(t, x)
  ELSE [t EXCEPT !.child = <<TrieUnlink(@[1], x), TrieUnlink(@[2], x)>>]

unlink_large_chunk(m, x, s) ==
  LET i == compute_tree_index(s)
      t == TrieUnlink(m.treebins[i], x)
  IN [m EXCEPT !.treebins[i] = t, !.treemap = IF t = empty THEN @ \ {i} ELSE @]

insert_chunk(m, p, s) ==
  IF is_small(s) THEN insert_small_chunk(m, p, s) ELSE insert_large_chunk(m, p, s)
unlink_chunk(m, p, s) ==
  IF is_small(s) THEN unlink_small_chunk(m, p, s) ELSE unlink_large_chunk(m, p, s)

(* Allocation: the new state and the chunk found, NULL if there is none *)

NoChunk(m) == [m |-> m, p |-> NULL]
\* p, of size s and unlinked, is used whole if what is left of it were too small
\* for a chunk; else the rest becomes the victim, or goes to a bin.
Carve(m, p, s, nb, toDv) ==
  LET r == p + nb  rsize == s - nb
      split == set_size_and_pinuse_of_free_chunk(
                 set_size_and_pinuse_of_inuse_chunk(m, p, nb), r, rsize)
  IN [p |-> p,
      m |-> IF rsize < MIN_CHUNK_SIZE THEN set_inuse_and_pinuse(m, p, s)
            ELSE IF toDv THEN replace_dv(split, r, rsize) ELSE insert_chunk(split, r, rsize)]

leftmost_child(t) == IF t.child[1] # empty THEN t.child[1] ELSE t.child[2]
Remainder(t, nb) == Unsigned((IF t = empty THEN 0 ELSE t.size) - nb)
Closer(t, v, nb) == IF Remainder(t, nb) < Remainder(v, nb) THEN t ELSE v

RECURSIVE Leftmost(_, _, _)
Leftmost(t, v, nb) == IF t = empty THEN v ELSE Leftmost(leftmost_child(t), Closer(t, v, nb), nb)

\* Down the path of size nb: the best node so far and the least subtree of
\* larger sizes passed by.
RECURSIVE AlongPath(_, _, _, _, _)
AlongPath(t, v, rst, nb, bit) ==
  LET best == Closer(t, v, nb)
      down == t.child[Branch(nb, bit)]
      passed == IF t.child[2] # empty /\ t.child[2] # down THEN t.child[2] ELSE rst
  IN IF best = t /\ t.size = nb THEN [v |-> t, t |-> t]
     ELSE IF down = empty THEN [v |-> best, t |-> passed]
     ELSE AlongPath(down, best, passed, nb, bit - 1)

tmalloc_large(m, nb) ==
  LET idx == compute_tree_index(nb)
      path == IF m.treebins[idx] = empty THEN [v |-> empty, t |-> empty]
              ELSE AlongPath(m.treebins[idx], empty, empty, nb, bit_for_tree_index(idx))
      larger == {i \in m.treemap : i > idx}
      start == IF path.t = empty /\ path.v = empty /\ larger # {}
               THEN m.treebins[Min(larger)] ELSE path.t
      v == Leftmost(start, path.v, nb)
  IN IF v = empty \/ Remainder(v, nb) >= Unsigned(m.dvsize - nb) THEN NoChunk(m)
     ELSE Carve(unlink_large_chunk(m, v.ring[1], v.size), v.ring[1], v.size, nb, FALSE)

tmalloc_small(m, nb) ==
  LET root == m.treebins[Min(m.treemap)]
      v == Leftmost(leftmost_child(root), root, nb)
  IN Carve(unlink_large_chunk(m, v.ring[1], v.size), v.ring[1], v.size, nb, TRUE)

\* A bin of the size, or of the next.
FromExactBin(m, s) ==
  LET p == Head(m.smallbins[s])
  IN [p |-> p, m |-> set_inuse_and_pinuse(unlink_first_small_chunk(m, s), p, s)]
FromLargerBin(m, s, nb) ==
  Carve(unlink_first_small_chunk(m, s), Head(m.smallbins[s]), s, nb, TRUE)

Binned(m, nb) ==
  LET bins == {s \in m.smallmap : s >= nb} IN
  IF ~is_small(nb) THEN IF m.treemap # {} THEN tmalloc_large(m, nb) ELSE NoChunk(m)
  ELSE IF bins \cap {nb, nb + 1} # {} THEN FromExactBin(m, Min(bins))
  ELSE IF nb <= m.dvsize THEN NoChunk(m)
  ELSE IF bins # {} THEN FromLargerBin(m, Min(bins), nb)
  ELSE IF m.treemap # {} THEN tmalloc_small(m, nb) ELSE NoChunk(m)

\* No victim is left to bin.
FromDv(m, nb) == Carve([m EXCEPT !.dv = NULL, !.dvsize = 0], m.dv, m.dvsize, nb, TRUE)

FromTop(m, nb) ==
  LET r == m.top + nb  rsize == m.topsize - nb
  IN [p |-> m.top,
      m |-> [set_size_and_pinuse_of_inuse_chunk(m, m.top, nb) EXCEPT
               !.top = r, !.topsize = rsize, !.head[r] = ChunkHead(rsize, TRUE, FALSE)]]

\* sys_alloc finds no more memory.
Allocate(m, nb) ==
  LET binned == Binned(m, nb)
  IN IF binned.p # NULL THEN binned
     ELSE IF nb <= m.dvsize THEN FromDv(m, nb)
     ELSE IF nb < m.topsize THEN FromTop(m, nb)
     ELSE NoChunk(m)
mspace_malloc(m, words) == Allocate(m, request2size(words))

(* Freeing *)

IntoTop(m, p, s) ==
  [Absorb(m, m.top) EXCEPT
     !.top = p, !.topsize = @ + s, !.head[p] = ChunkHead(m.topsize + s, TRUE, FALSE),
     !.dv = IF p = @ THEN NULL ELSE @, !.dvsize = IF p = m.dv THEN 0 ELSE @]
IntoDv(m, p, s) ==
  [set_size_and_pinuse_of_free_chunk(Absorb(m, m.dv), p, s + m.dvsize) EXCEPT
     !.dv = p, !.dvsize = @ + s]
IntoNext(m, p, s, n) ==
  LET nsize == m.head[n].size
      merged == set_size_and_pinuse_of_free_chunk(
                  Absorb(unlink_chunk(m, n, nsize), n), p, s + nsize)
  IN IF p = m.dv THEN [merged EXCEPT !.dvsize = s + nsize] ELSE insert_chunk(merged, p, s + nsize)

\* p, in use or the free chunk that was in front of it, before n.
Release(m, p, s, n) ==
  IF m.head[n].cinuse
  THEN LET freed == set_free_with_pinuse(m, p, s, n)
       IN IF p = m.dv THEN [freed EXCEPT !.dvsize = s] ELSE insert_chunk(freed, p, s)
  ELSE IF n = m.top THEN IntoTop(m, p, s)
  ELSE IF n = m.dv THEN IntoDv(m, p, s)
  ELSE IntoNext(m, p, s, n)

\* The chunk in front is unlinked unless it is the victim, which stays it.
mspace_free(m, p) ==
  LET prevsize == m.foot[p]
      prev == p - prevsize
      psize == m.head[p].size
  IN IF m.head[p].pinuse THEN Release(m, p, psize, p + psize)
     ELSE Release(Absorb(IF prev # m.dv THEN unlink_chunk(m, prev, prevsize) ELSE m, p),
                  prev, prevsize + psize, p + psize)

-----------------------------------------------------------------------------
init_top(m, p, psize) ==
  [m EXCEPT !.top = p, !.topsize = psize, !.head[p] = ChunkHead(psize, TRUE, FALSE)]
init_bins == [s \in 0 .. NSMALLBINS - 1 |-> <<>>]

\* The state itself is in the first chunk.
init_user_mstate(tsize) ==
  init_top([head |-> [a \in 0 .. tsize |-> IF a = 0 THEN ChunkHead(MSTATE_SIZE, TRUE, TRUE) ELSE NoHead],
            foot |-> [a \in 0 .. tsize |-> 0],
            top |-> NULL, topsize |-> 0, dv |-> NULL, dvsize |-> 0,
            smallmap |-> {}, smallbins |-> init_bins,
            treemap |-> {}, treebins |-> [i \in 0 .. NTREEBINS - 1 |-> empty]],
           MSTATE_SIZE, tsize - MSTATE_SIZE - TOP_FOOT_SIZE)

create_mspace_with_base(capacity) ==
  IF capacity > MSTATE_SIZE + TOP_FOOT_SIZE THEN init_user_mstate(capacity) ELSE NULL
=============================================================================
