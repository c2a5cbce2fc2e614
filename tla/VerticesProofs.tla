---------------------------- MODULE VerticesProofs ----------------------------
(***************************************************************************)
(* Proofs about Vertices, for any number of slots, partitions and deletions *)
(* at a time: no slot is lost or in two places and no assert of the lists  *)
(* fails (SlotsPartition), every vertex is in the list of its partition and*)
(* no other (PartitionListsExact), and a pass over the own vertices skips  *)
(* none unless the vertex the iterator gives next is deleted               *)
(* (NothingIsSkipped).  The first two hold until a deletion the code is not*)
(* made for has come to bear (astray).                                     *)
(*                                                                         *)
(* The invariant does not follow links from a head.  It says that there is *)
(* a rank of the slots along which a list is sorted: next leads to the     *)
(* lowest of higher rank.  Inserting in front and removing anywhere keep   *)
(* such a rank, and what is in front of the iterator is what ranks lower.  *)
(***************************************************************************)
EXTENDS Vertices, FiniteSetTheorems, WellFoundedInduction, TLAPS

LinkType == [next : [Slots -> Pointer], prev : [Slots -> Pointer]]
ListType == [next : [Slots -> Pointer], prev : [Slots -> Pointer], head : Pointer]
VertexType == [part : Parts \cup {NULL}, curr_part : Parts \cup {NULL}, fresh : BOOLEAN,
               needs_processing : BOOLEAN]
Rank == [Slots -> Int]

\* From head the slots of S follow each other along next, in the order of r.
Threaded(next, head, S, r) ==
  /\ head \in S \cup {NULL}
  /\ \A m \in S : head # NULL /\ r[head] <= r[m]
  /\ \A m \in S : next[m] \in S \cup {NULL}
  /\ \A m, n \in S : next[m] = NULL => r[n] <= r[m]
  /\ \A m \in S : next[m] # NULL => r[m] < r[next[m]]
  /\ \A m, n \in S : next[m] # NULL /\ r[m] < r[n] => r[next[m]] <= r[n]
  /\ \A m, n \in S : r[m] = r[n] => m = n

\* ... and prev leads back.
Backed(l, S) ==
  /\ \A m \in S : l.prev[m] = NULL <=> m = l.head
  /\ \A m \in S : l.prev[m] # NULL => l.prev[m] \in S /\ l.next[l.prev[m]] = m
  /\ \A m \in S : l.next[m] # NULL => l.prev[l.next[m]] = m

Sorted(l, S, r) == Threaded(l.next, l.head, S, r) /\ Backed(l, S)
Linked(l, S) == \E r \in Rank : Sorted(l, S, r)

-----------------------------------------------------------------------------
(* The invariant *)

TypeInv ==
  /\ cache_map \in [Slots -> {"free", "local", "mirror"}]
  /\ vert \in [Slots -> VertexType]
  /\ neighbors \in LinkType /\ in_partition \in LinkType /\ locals \in ListType
  /\ pool_head \in Pointer /\ local_neighbors_head \in Pointer
  /\ recently_created \in Pointer /\ iter_curr \in Pointer
  /\ local_lists \in [Parts -> Pointer] /\ mirror_lists \in [Parts -> Pointer]
  /\ buffered_changes \in Seq(Slots)
  /\ pc \in {"start_time_step", "changes_before", "update_vertices", "update_metadata",
             "changes", "insert", "process_vertex_updates"}
  /\ curr \in [vertex : Pointer, old_part : Parts \cup {NULL}]
  /\ cut \in BOOLEAN

InPass == pc \in {"update_vertices", "update_metadata", "changes"}
InHand == pc \in {"update_metadata", "changes"}

\* A vertex that may be processed: an own one of an earlier iteration
Settled(n) == n \in Slots /\ cache_map[n] = "local" /\ ~vert[n].fresh

\* What was deleted while it was in hand, or what the iterator gives next
GivenBack(n) == n \in Slots /\ cache_map[n] = "free"

\* Own vertices that are in no partition's list yet, and those of a partition's
Waiting == {n \in Slots : cache_map[n] = "local" /\ vert[n].curr_part = NULL}
LocalsIn(p) ==
  {n \in Slots : cache_map[n] = "local" /\ vert[n].curr_part # NULL /\ WhereListed(n) = p}
MirrorsIn(p) == {n \in Slots : cache_map[n] = "mirror" /\ vert[n].part = p}

PoolInv == Linked(WithHead(neighbors, pool_head), Holding("free"))

\* Slots in use that are not in the list of neighbors have no links.
NeighborsInv ==
  \E N \in SUBSET Holding("mirror") :
    /\ Linked(NeighborList, N)
    /\ \A n \in Slots \ N : cache_map[n] # "free" =>
         neighbors.next[n] = NULL /\ neighbors.prev[n] = NULL

\* Who is in front of the iterator has been visited or is of this iteration, unless
\* the iterator has lost its place.
LocalsInv ==
  \E r \in Rank :
    /\ Sorted(locals, Holding("local"), r)
    /\ \A n \in Slots : InPass /\ ~cut /\ Settled(n) /\ n \notin visited =>
         iter_curr # NULL /\ r[iter_curr] <= r[n]

PartsInv ==
  /\ \E r \in Rank : Threaded(in_partition.next, recently_created, Waiting, r)
  /\ \A p \in Parts : /\ Linked(WithHead(in_partition, local_lists[p]), LocalsIn(p))
                      /\ Linked(WithHead(in_partition, mirror_lists[p]), MirrorsIn(p))

VertexInv ==
  \A n \in Slots :
    /\ cache_map[n] = "local" => vert[n].part \in Parts /\ (vert[n].curr_part = NULL => vert[n].fresh)
    /\ cache_map[n] = "mirror" => vert[n].part \in Parts /\ vert[n].curr_part = vert[n].part

\* The iterator is at a vertex that was deleted: it gives no other after that, and has no
\* callback in between.
IterLost ==
  /\ cut /\ pc \in {"changes", "update_vertices"}
  /\ GivenBack(iter_curr) /\ locals.next[iter_curr] = NULL

\* update_metadata has deleted the vertex in hand, which it has not moved.
HandLost ==
  /\ pc = "changes"
  /\ GivenBack(curr.vertex) /\ vert[curr.vertex].part = curr.old_part

PlaceInv ==
  /\ iter_curr # NULL => InPass /\ (Settled(iter_curr) \/ IterLost)
  /\ InHand => curr.old_part \in Parts /\ (Settled(curr.vertex) \/ HandLost)
  /\ ~InHand => curr.vertex = NULL
  /\ pc = "process_vertex_updates" => recently_created = NULL

ChangesInv ==
  buffered_changes # <<>> =>
    pc \in {"start_time_step", "changes_before", "update_metadata", "changes"}

\* As long as no deletion has come to bear that the code is not made for
IInv ==
  /\ TypeInv /\ ~aborted
  /\ PoolInv /\ NeighborsInv /\ LocalsInv /\ PartsInv
  /\ VertexInv /\ PlaceInv /\ ChangesInv

Inv == astray \/ IInv
-----------------------------------------------------------------------------
(* Links *)

\* NULL is no slot.
LEMMA NullIsNoSlot == NULL \notin Slots /\ Pointer = Slots \cup {0} /\ NULL = 0
  BY SlotsAssumption DEF Slots, Pointer, NULL

\* Where two lists agree on the slots of S and on the head, one is sorted if the
\* other is.
LEMMA SortedFrame ==
  ASSUME NEW l, NEW m, NEW S, NEW r, Sorted(l, S, r), m.head = l.head,
         \A s \in S : m.next[s] = l.next[s] /\ m.prev[s] = l.prev[s]
  PROVE  Sorted(m, S, r)
<1>1. Threaded(m.next, m.head, S, r)
  BY DEF Sorted, Threaded
<1>2. Backed(m, S)
  <2>1. \A s \in S : l.prev[s] # NULL => l.prev[s] \in S
    BY DEF Sorted, Backed
  <2>2. \A s \in S : l.next[s] # NULL => l.next[s] \in S
    BY DEF Sorted, Threaded
  <2> QED BY <2>1, <2>2 DEF Sorted, Backed
<1> QED BY <1>1, <1>2 DEF Sorted

\* The same for some rank.
LEMMA LinkedFrame ==
  ASSUME NEW l, NEW m, NEW S, Linked(l, S), m.head = l.head,
         \A s \in S : m.next[s] = l.next[s] /\ m.prev[s] = l.prev[s]
  PROVE  Linked(m, S)
<1> PICK r \in Rank : Sorted(l, S, r) BY DEF Linked
<1> Sorted(m, S, r) BY SortedFrame
<1> QED BY DEF Linked

\* The rank of a slot that is put in front.
Lowered(r, head, n) == [r EXCEPT ![n] = IF head = NULL THEN 0 ELSE r[head] - 1]

\* A slot in front of a thread
LEMMA ThreadedPush ==
  ASSUME NEW next, NEW head, NEW S \in SUBSET Slots, NEW r \in Rank, Threaded(next, head, S, r),
         NEW n \in Slots \ S, NEW next2, next2[n] = head,
         \A s \in S : next2[s] = next[s]
  PROVE  Lowered(r, head, n) \in Rank /\ Threaded(next2, n, S \cup {n}, Lowered(r, head, n))
<1> DEFINE q == Lowered(r, head, n)
<1>0. NULL \notin Slots BY NullIsNoSlot
<1>1. q \in Rank /\ q[n] \in Int /\ \A s \in S : q[s] = r[s] /\ q[s] \in Int /\ q[n] < q[s]
  <2>1. q \in Rank BY <1>0 DEF Lowered, Rank, Threaded
  <2>2. \A s \in Slots : q[s] = IF s = n THEN IF head = NULL THEN 0 ELSE r[head] - 1 ELSE r[s]
    BY DEF Lowered, Rank
  <2>3. \A s \in Slots : r[s] \in Int /\ q[s] \in Int BY <2>1 DEF Rank
  <2>4. \A s \in S : head # NULL /\ head \in S /\ r[head] <= r[s] BY DEF Threaded
  <2> QED BY <2>1, <2>2, <2>3, <2>4
<1> HIDE DEF q
<1>2. \A m \in S \cup {n} : next2[m] \in S \cup {n} \cup {NULL}
  BY DEF Threaded
<1>3. \A m, k \in S \cup {n} : next2[m] = NULL => q[k] <= q[m]
  <2> SUFFICES ASSUME NEW m \in S \cup {n}, NEW k \in S \cup {n}, next2[m] = NULL
               PROVE  q[k] <= q[m]
    OBVIOUS
  <2>1. CASE m = n
    <3>1. S = {} BY <2>1 DEF Threaded
    <3> QED BY <3>1, <2>1, <1>1
  <2>2. CASE m # n /\ k = n BY <2>2, <1>1
  <2>3. CASE m # n /\ k # n
    <3>1. r[k] <= r[m] BY <2>3 DEF Threaded
    <3> QED BY <3>1, <2>3, <1>1
  <2> QED BY <2>1, <2>2, <2>3
<1>4. \A m \in S \cup {n} : next2[m] # NULL => q[m] < q[next2[m]]
  <2> SUFFICES ASSUME NEW m \in S \cup {n}, next2[m] # NULL PROVE q[m] < q[next2[m]]
    OBVIOUS
  <2>1. CASE m = n BY <2>1, <1>1 DEF Threaded
  <2>2. CASE m # n
    <3>1. next[m] \in S /\ r[m] < r[next[m]] BY <2>2 DEF Threaded
    <3> QED BY <3>1, <2>2, <1>1
  <2> QED BY <2>1, <2>2
<1>5. \A m, k \in S \cup {n} : next2[m] # NULL /\ q[m] < q[k] => q[next2[m]] <= q[k]
  <2> SUFFICES ASSUME NEW m \in S \cup {n}, NEW k \in S \cup {n}, next2[m] # NULL, q[m] < q[k]
               PROVE  q[next2[m]] <= q[k]
    OBVIOUS
  <2>1. k # n BY <1>1
  <2>2. CASE m = n
    <3>1. head \in S /\ r[head] <= r[k] BY <2>1, <2>2 DEF Threaded
    <3> QED BY <3>1, <2>1, <2>2, <1>1
  <2>3. CASE m # n
    <3>1. next[m] \in S /\ r[m] < r[k] BY <2>1, <2>3, <1>1 DEF Threaded
    <3>2. r[next[m]] <= r[k] BY <3>1, <2>1, <2>3 DEF Threaded
    <3> QED BY <3>1, <3>2, <2>1, <2>3, <1>1
  <2> QED BY <2>2, <2>3
<1>6. \A m, k \in S \cup {n} : q[m] = q[k] => m = k
  BY <1>1 DEF Threaded
<1>7. \A m \in S \cup {n} : n # NULL /\ q[n] <= q[m]
  BY <1>0, <1>1
<1> QED BY <1>1, <1>2, <1>3, <1>4, <1>5, <1>6, <1>7 DEF Threaded, q

\* The first slot of a thread is taken off.
LEMMA ThreadedPop ==
  ASSUME NEW next, NEW head, NEW S \in SUBSET Slots, NEW r \in Rank, Threaded(next, head, S, r),
         head # NULL, NEW next2, \A s \in S \ {head} : next2[s] = next[s]
  PROVE  Threaded(next2, next[head], S \ {head}, r)
<1>0. head \in S /\ \A s \in Slots : r[s] \in Int BY DEF Threaded, Rank
<1>1. \A m \in S : next[m] # head
  <2> SUFFICES ASSUME NEW m \in S, next[m] = head PROVE FALSE OBVIOUS
  <2>1. r[m] < r[head] /\ r[head] <= r[m] BY DEF Threaded
  <2> QED BY <2>1, <1>0
<1>2. next[head] \in (S \ {head}) \cup {NULL} BY <1>0, <1>1 DEF Threaded
<1>3. \A m \in S \ {head} : next[head] # NULL /\ r[next[head]] <= r[m]
  <2> SUFFICES ASSUME NEW m \in S \ {head} PROVE next[head] # NULL /\ r[next[head]] <= r[m]
    OBVIOUS
  <2>1. r[head] <= r[m] /\ r[head] # r[m] BY <1>0 DEF Threaded
  <2>2. r[head] < r[m] BY <2>1, <1>0
  <2>3. next[head] # NULL
    <3> SUFFICES ASSUME next[head] = NULL PROVE FALSE OBVIOUS
    <3>1. r[m] <= r[head] BY <1>0 DEF Threaded
    <3> QED BY <3>1, <2>2, <1>0
  <2> QED BY <2>2, <2>3, <1>0 DEF Threaded
<1> QED BY <1>1, <1>2, <1>3 DEF Threaded

\* A slot prepended to a list is in front of the others; other slots keep their links.
LEMMA SortedPrepend ==
  ASSUME NEW l \in ListType, NEW S \in SUBSET Slots, NEW r \in Rank, Sorted(l, S, r),
         NEW n \in Slots \ S
  PROVE  /\ Prepend(l, n) \in ListType /\ Prepend(l, n).head = n
         /\ Lowered(r, l.head, n) \in Rank
         /\ Sorted(Prepend(l, n), S \cup {n}, Lowered(r, l.head, n))
         /\ \A s \in Slots \ (S \cup {n}) :
              Prepend(l, n).next[s] = l.next[s] /\ Prepend(l, n).prev[s] = l.prev[s]
<1> PICK m : m = Prepend(l, n) OBVIOUS
<1>0. NULL \notin Slots /\ NULL \in Pointer BY NullIsNoSlot
<1>1. l.next \in [Slots -> Pointer] /\ l.prev \in [Slots -> Pointer] /\ l.head \in Pointer
  BY DEF ListType
<1>2. /\ m = [next |-> m.next, prev |-> m.prev, head |-> m.head] /\ m.head = n
      /\ m.next = [l.next EXCEPT ![n] = l.head]
      /\ m.prev = [s \in Slots |-> IF s = n THEN NULL ELSE IF s = l.head THEN n ELSE l.prev[s]]
  BY DEF Prepend
<1>3. m.next \in [Slots -> Pointer] /\ m.prev \in [Slots -> Pointer]
  BY <1>0, <1>1, <1>2 DEF Pointer
<1>4. m \in ListType
  BY <1>2, <1>3 DEF ListType, Pointer
<1>5. \A s \in Slots \ {n} : m.next[s] = l.next[s]
  BY <1>1, <1>2
<1>6. m.next[n] = l.head /\ m.prev[n] = NULL
  BY <1>1, <1>2
<1>7. \A s \in Slots \ {n} : m.prev[s] = IF s = l.head THEN n ELSE l.prev[s]
  BY <1>2
<1>8. Lowered(r, l.head, n) \in Rank /\ Threaded(m.next, n, S \cup {n}, Lowered(r, l.head, n))
  <2>1. Threaded(l.next, l.head, S, r) BY DEF Sorted
  <2>2. \A s \in S : m.next[s] = l.next[s] BY <1>5
  <2> QED BY <1>6, <2>1, <2>2, ThreadedPush
<1>9. Backed(m, S \cup {n})
  <2>1. l.head \in S \cup {NULL} /\ \A s \in S : l.next[s] # l.head
    <3>1. \A s \in S : l.next[s] # NULL => l.prev[l.next[s]] = s BY DEF Sorted, Backed
    <3>2. l.head \in S \cup {NULL} /\ \A s \in S : l.head # NULL BY DEF Sorted, Threaded
    <3>3. l.head \in S => l.prev[l.head] = NULL BY DEF Sorted, Backed
    <3> QED BY <1>0, <3>1, <3>2, <3>3
  <2>2. \A s \in S : l.next[s] \in S \cup {NULL} BY DEF Sorted, Threaded
  <2>3. \A s \in S \cup {n} : m.prev[s] = NULL <=> s = m.head
    BY <1>0, <1>2, <1>6, <1>7, <2>1 DEF Sorted, Backed
  <2>4. \A s \in S \cup {n} : m.prev[s] # NULL =>
          m.prev[s] \in S \cup {n} /\ m.next[m.prev[s]] = s
    <3> SUFFICES ASSUME NEW s \in S \cup {n}, m.prev[s] # NULL
                 PROVE  m.prev[s] \in S \cup {n} /\ m.next[m.prev[s]] = s
      OBVIOUS
    <3>1. CASE s = l.head BY <1>6, <1>7, <3>1
    <3>2. CASE s # l.head
      <4>1. s \in S /\ m.prev[s] = l.prev[s] BY <1>6, <1>7, <3>2
      <4>2. l.prev[s] \in S /\ l.next[l.prev[s]] = s BY <4>1 DEF Sorted, Backed
      <4> QED BY <4>1, <4>2, <1>5
    <3> QED BY <3>1, <3>2
  <2>5. \A s \in S \cup {n} : m.next[s] # NULL => m.prev[m.next[s]] = s
    <3> SUFFICES ASSUME NEW s \in S \cup {n}, m.next[s] # NULL PROVE m.prev[m.next[s]] = s
      OBVIOUS
    <3>1. CASE s = n BY <1>6, <1>7, <2>1, <3>1
    <3>2. CASE s # n
      <4>1. m.next[s] = l.next[s] /\ l.next[s] \in S /\ l.next[s] # l.head
        BY <1>5, <2>1, <2>2, <3>2
      <4>2. l.prev[l.next[s]] = s BY <3>2, <4>1 DEF Sorted, Backed
      <4> QED BY <4>1, <4>2, <1>7
    <3> QED BY <3>1, <3>2
  <2> QED BY <2>3, <2>4, <2>5 DEF Backed
<1>10. \A s \in Slots \ (S \cup {n}) : m.next[s] = l.next[s] /\ m.prev[s] = l.prev[s]
  BY <1>0, <1>5, <1>7 DEF Sorted, Threaded
<1> QED BY <1>2, <1>4, <1>8, <1>9, <1>10 DEF Sorted

\* The same for some rank.
LEMMA LinkedPrepend ==
  ASSUME NEW l \in ListType, NEW S \in SUBSET Slots, Linked(l, S), NEW n \in Slots \ S
  PROVE  /\ Prepend(l, n) \in ListType /\ Prepend(l, n).head = n
         /\ Linked(Prepend(l, n), S \cup {n})
         /\ \A s \in Slots \ (S \cup {n}) :
              Prepend(l, n).next[s] = l.next[s] /\ Prepend(l, n).prev[s] = l.prev[s]
<1> PICK r \in Rank : Sorted(l, S, r) BY DEF Linked
<1>1. /\ Prepend(l, n) \in ListType /\ Prepend(l, n).head = n
      /\ Lowered(r, l.head, n) \in Rank
      /\ Sorted(Prepend(l, n), S \cup {n}, Lowered(r, l.head, n))
      /\ \A s \in Slots \ (S \cup {n}) :
           Prepend(l, n).next[s] = l.next[s] /\ Prepend(l, n).prev[s] = l.prev[s]
  BY SortedPrepend
<1>2. Linked(Prepend(l, n), S \cup {n}) BY <1>1 DEF Linked
<1> QED BY <1>1, <1>2

\* What remains of a list when a slot is taken out keeps its rank, the asserts about the
\* links hold, and other slots keep their links.
LEMMA SortedUnlink ==
  ASSUME NEW l \in ListType, NEW S \in SUBSET Slots, NEW r \in Rank, Sorted(l, S, r), NEW n \in S
  PROVE  /\ Unlink(l, n) \in ListType
         /\ Sorted(Unlink(l, n), S \ {n}, r)
         /\ HeadIsRight(l, n) /\ LinksAreRight(l, n)
         /\ \A s \in Slots \ S :
              Unlink(l, n).next[s] = l.next[s] /\ Unlink(l, n).prev[s] = l.prev[s]
<1> PICK m : m = Unlink(l, n) OBVIOUS
<1>0. NULL \notin Slots /\ NULL \in Pointer /\ \A s \in Slots : r[s] \in Int
  BY NullIsNoSlot DEF Rank
<1>1. l.next \in [Slots -> Pointer] /\ l.prev \in [Slots -> Pointer] /\ l.head \in Pointer
  BY DEF ListType
<1>2. /\ m = [next |-> m.next, prev |-> m.prev, head |-> m.head]
      /\ m.next = [s \in Slots |-> IF s = l.prev[n] THEN l.next[n] ELSE l.next[s]]
      /\ m.prev = [s \in Slots |-> IF s = l.next[n] THEN l.prev[n] ELSE l.prev[s]]
      /\ m.head = IF l.prev[n] = NULL THEN l.next[n] ELSE l.head
  BY DEF Unlink
<1>3. m.next \in [Slots -> Pointer] /\ m.prev \in [Slots -> Pointer] /\ m.head \in Pointer
  BY <1>1, <1>2
<1>4. m \in ListType BY <1>2, <1>3 DEF ListType
<1>5. /\ \A s \in Slots : m.next[s] = IF s = l.prev[n] THEN l.next[n] ELSE l.next[s]
      /\ \A s \in Slots : m.prev[s] = IF s = l.next[n] THEN l.prev[n] ELSE l.prev[s]
  BY <1>2
\* who is before n, and who behind
<1>6. /\ l.prev[n] = NULL <=> n = l.head
      /\ l.prev[n] # NULL => l.prev[n] \in S \ {n} /\ l.next[l.prev[n]] = n /\ r[l.prev[n]] < r[n]
      /\ l.next[n] # NULL => l.next[n] \in S \ {n} /\ l.prev[l.next[n]] = n /\ r[n] < r[l.next[n]]
  <2>1. l.prev[n] = NULL <=> n = l.head BY DEF Sorted, Backed
  <2>2. ASSUME l.prev[n] # NULL
        PROVE  l.prev[n] \in S \ {n} /\ l.next[l.prev[n]] = n /\ r[l.prev[n]] < r[n]
    <3>1. l.prev[n] \in S /\ l.next[l.prev[n]] = n BY <2>2 DEF Sorted, Backed
    <3>2. r[l.prev[n]] < r[n] BY <1>0, <3>1 DEF Sorted, Threaded
    <3> QED BY <1>0, <3>1, <3>2
  <2>3. ASSUME l.next[n] # NULL
        PROVE  l.next[n] \in S \ {n} /\ l.prev[l.next[n]] = n /\ r[n] < r[l.next[n]]
    <3>1. l.next[n] \in S /\ r[n] < r[l.next[n]] BY <2>3 DEF Sorted, Threaded
    <3>2. l.prev[l.next[n]] = n BY <2>3 DEF Sorted, Backed
    <3> QED BY <1>0, <3>1, <3>2
  <2> QED BY <2>1, <2>2, <2>3
<1>7. HeadIsRight(l, n) /\ LinksAreRight(l, n)
  BY <1>6 DEF HeadIsRight, LinksAreRight
<1>8. \A s \in Slots \ S : m.next[s] = l.next[s] /\ m.prev[s] = l.prev[s]
  BY <1>0, <1>5, <1>6
<1>9. \A s \in S \ {n} : l.next[s] = n => s = l.prev[n]
  BY <1>0 DEF Sorted, Backed
<1>10. \A s \in S \ {n} : l.prev[s] = n => s = l.next[n]
  BY <1>0 DEF Sorted, Backed
<1>11. Threaded(m.next, m.head, S \ {n}, r)
  <2>1. m.head \in (S \ {n}) \cup {NULL} /\ \A k \in S \ {n} : m.head # NULL /\ r[m.head] <= r[k]
    <3>1. CASE l.prev[n] = NULL
      <4>1. m.head = l.next[n] /\ n = l.head BY <1>2, <1>6, <3>1
      <4>2. ASSUME NEW k \in S \ {n} PROVE l.next[n] # NULL /\ r[l.next[n]] <= r[k]
        <5>1. r[n] < r[k] BY <1>0, <4>1 DEF Sorted, Threaded
        <5>2. l.next[n] # NULL
          <6>1. l.next[n] = NULL => r[k] <= r[n] BY DEF Sorted, Threaded
          <6> QED BY <1>0, <5>1, <6>1
        <5> QED BY <5>1, <5>2 DEF Sorted, Threaded
      <4> QED BY <4>1, <4>2, <1>6
    <3>2. CASE l.prev[n] # NULL
      <4>1. m.head = l.head /\ n # l.head BY <1>2, <1>6, <3>2
      <4> QED BY <4>1 DEF Sorted, Threaded
    <3> QED BY <3>1, <3>2
  <2>2. \A k \in S \ {n} : m.next[k] \in (S \ {n}) \cup {NULL}
    BY <1>0, <1>5, <1>6, <1>9 DEF Sorted, Threaded
  <2>3. \A k, j \in S \ {n} : m.next[k] = NULL => r[j] <= r[k]
    <3> SUFFICES ASSUME NEW k \in S \ {n}, NEW j \in S \ {n}, m.next[k] = NULL
                 PROVE  r[j] <= r[k]
      OBVIOUS
    <3>1. CASE k = l.prev[n]
      <4>1. l.next[n] = NULL BY <1>5, <3>1
      <4>2. r[j] <= r[n] /\ r[j] # r[n] /\ r[k] < r[n]
        BY <4>1, <1>6, <1>0, <3>1 DEF Sorted, Threaded
      <4>3. l.next[k] = n BY <3>1, <1>6, <1>0
      <4>4. r[k] < r[j] => r[n] <= r[j]
        BY <4>3, <1>0 DEF Sorted, Threaded
      <4> QED BY <4>2, <4>4, <1>0
    <3>2. CASE k # l.prev[n]
      <4>1. l.next[k] = NULL BY <1>5, <3>2
      <4> QED BY <4>1 DEF Sorted, Threaded
    <3> QED BY <3>1, <3>2
  <2>4. \A k \in S \ {n} : m.next[k] # NULL => r[k] < r[m.next[k]]
    <3> SUFFICES ASSUME NEW k \in S \ {n}, m.next[k] # NULL PROVE r[k] < r[m.next[k]]
      OBVIOUS
    <3>1. CASE k = l.prev[n]
      <4>1. m.next[k] = l.next[n] /\ r[k] < r[n] /\ r[n] < r[l.next[n]] /\ l.next[n] \in S
        BY <1>0, <1>5, <1>6, <3>1
      <4> QED BY <4>1, <1>0
    <3>2. CASE k # l.prev[n]
      <4>1. m.next[k] = l.next[k] BY <1>5, <3>2
      <4> QED BY <4>1 DEF Sorted, Threaded
    <3> QED BY <3>1, <3>2
  <2>5. \A k, j \in S \ {n} : m.next[k] # NULL /\ r[k] < r[j] => r[m.next[k]] <= r[j]
    <3> SUFFICES ASSUME NEW k \in S \ {n}, NEW j \in S \ {n}, m.next[k] # NULL, r[k] < r[j]
                 PROVE  r[m.next[k]] <= r[j]
      OBVIOUS
    <3>1. CASE k = l.prev[n]
      <4>1. m.next[k] = l.next[n] /\ l.next[k] = n
        BY <1>0, <1>5, <1>6, <3>1
      <4>2. r[n] <= r[j] /\ r[n] # r[j] BY <4>1, <1>0 DEF Sorted, Threaded
      <4>3. r[n] < r[j] BY <4>2, <1>0
      <4> QED BY <4>1, <4>3 DEF Sorted, Threaded
    <3>2. CASE k # l.prev[n]
      <4>1. m.next[k] = l.next[k] BY <1>5, <3>2
      <4> QED BY <4>1 DEF Sorted, Threaded
    <3> QED BY <3>1, <3>2
  <2>6. \A k, j \in S \ {n} : r[k] = r[j] => k = j BY DEF Sorted, Threaded
  <2> QED BY <2>1, <2>2, <2>3, <2>4, <2>5, <2>6 DEF Threaded
<1>12. Backed(m, S \ {n})
  <2>1. \A s \in S \ {n} : m.prev[s] = NULL <=> s = m.head
    <3> SUFFICES ASSUME NEW s \in S \ {n} PROVE m.prev[s] = NULL <=> s = m.head
      OBVIOUS
    <3>1. l.prev[s] = NULL <=> s = l.head BY DEF Sorted, Backed
    <3> QED BY <3>1, <1>0, <1>2, <1>5, <1>6
  <2>2. \A s \in S \ {n} : m.prev[s] # NULL => m.prev[s] \in S \ {n} /\ m.next[m.prev[s]] = s
    <3> SUFFICES ASSUME NEW s \in S \ {n}, m.prev[s] # NULL
                 PROVE  m.prev[s] \in S \ {n} /\ m.next[m.prev[s]] = s
      OBVIOUS
    <3>1. CASE s = l.next[n]
      <4>1. m.prev[s] = l.prev[n] BY <1>5, <3>1
      <4> QED BY <4>1, <3>1, <1>0, <1>5, <1>6
    <3>2. CASE s # l.next[n]
      <4>1. m.prev[s] = l.prev[s] BY <1>5, <3>2
      <4>2. l.prev[s] \in S /\ l.next[l.prev[s]] = s /\ l.prev[s] # n
        BY <4>1, <3>2, <1>10 DEF Sorted, Backed
      <4>3. l.prev[s] # l.prev[n] BY <4>2, <1>6, <1>0
      <4> QED BY <4>1, <4>2, <4>3, <1>5
    <3> QED BY <3>1, <3>2
  <2>3. \A s \in S \ {n} : m.next[s] # NULL => m.prev[m.next[s]] = s
    <3> SUFFICES ASSUME NEW s \in S \ {n}, m.next[s] # NULL PROVE m.prev[m.next[s]] = s
      OBVIOUS
    <3>1. CASE s = l.prev[n]
      <4>1. m.next[s] = l.next[n] BY <1>5, <3>1
      <4> QED BY <4>1, <3>1, <1>0, <1>5, <1>6
    <3>2. CASE s # l.prev[n]
      <4>1. m.next[s] = l.next[s] BY <1>5, <3>2
      <4>2. l.next[s] \in S /\ l.prev[l.next[s]] = s BY <4>1 DEF Sorted, Threaded, Backed
      <4>3. l.next[s] # l.next[n] BY <4>2, <1>6, <1>0
      <4> QED BY <4>1, <4>2, <4>3, <1>5
    <3> QED BY <3>1, <3>2
  <2> QED BY <2>1, <2>2, <2>3 DEF Backed
<1> QED BY <1>4, <1>7, <1>8, <1>11, <1>12 DEF Sorted

\* The same for some rank.
LEMMA LinkedUnlink ==
  ASSUME NEW l \in ListType, NEW S \in SUBSET Slots, Linked(l, S), NEW n \in S
  PROVE  /\ Unlink(l, n) \in ListType
         /\ Linked(Unlink(l, n), S \ {n})
         /\ HeadIsRight(l, n) /\ LinksAreRight(l, n)
         /\ \A s \in Slots \ S :
              Unlink(l, n).next[s] = l.next[s] /\ Unlink(l, n).prev[s] = l.prev[s]
<1> PICK r \in Rank : Sorted(l, S, r) BY DEF Linked
<1> QED BY SortedUnlink DEF Linked

\* A slot is taken out of a list that forgets the links of what it drops; a slot that is
\* not in it has no links, and then nothing changes.
LEMMA SortedRemove ==
  ASSUME NEW l \in ListType, NEW S \in SUBSET Slots, NEW r \in Rank, Sorted(l, S, r),
         NEW n \in Slots, n \notin S => l.next[n] = NULL /\ l.prev[n] = NULL
  PROVE  /\ RemoveIfIn(l, n) \in ListType
         /\ Sorted(RemoveIfIn(l, n), S \ {n}, r)
         /\ RemoveIsRight(l, n)
         /\ RemoveIfIn(l, n).next[n] = NULL /\ RemoveIfIn(l, n).prev[n] = NULL
         /\ \A s \in Slots \ S :
              RemoveIfIn(l, n).next[s] = l.next[s] /\ RemoveIfIn(l, n).prev[s] = l.prev[s]
         /\ Contains(l, n) <=> n \in S
<1>0. NULL \notin Slots /\ NULL \in Pointer BY NullIsNoSlot
<1>1. Contains(l, n) <=> n \in S
  <2>1. ASSUME n \in S PROVE Contains(l, n)
    <3>1. l.prev[n] = NULL <=> n = l.head BY <2>1 DEF Sorted, Backed
    <3> QED BY <3>1 DEF Contains
  <2>2. l.head \in S \cup {NULL} BY DEF Sorted, Threaded
  <2> QED BY <2>1, <2>2, <1>0 DEF Contains
<1>2. CASE n \notin S
  <2>1. RemoveIfIn(l, n) = l /\ S \ {n} = S BY <1>1, <1>2 DEF RemoveIfIn
  <2>2. RemoveIsRight(l, n) BY <1>1, <1>2 DEF RemoveIsRight
  <2> QED BY <2>1, <2>2, <1>1, <1>2
<1>3. CASE n \in S
  <2> PICK u : u = Unlink(l, n) OBVIOUS
  <2>1. /\ u \in ListType /\ Sorted(u, S \ {n}, r) /\ HeadIsRight(l, n) /\ LinksAreRight(l, n)
        /\ \A s \in Slots \ S : u.next[s] = l.next[s] /\ u.prev[s] = l.prev[s]
    BY <1>3, SortedUnlink
  <2>3. PICK m : m = [u EXCEPT !.next[n] = NULL, !.prev[n] = NULL] OBVIOUS
  <2>2. RemoveIfIn(l, n) = m BY <1>1, <1>3, <2>3 DEF RemoveIfIn
  <2>4. m.next = [u.next EXCEPT ![n] = NULL]
    BY <2>1, <2>3 DEF ListType
  <2>5. m.prev = [u.prev EXCEPT ![n] = NULL]
    BY <2>1, <2>3 DEF ListType
  <2>12. m.head = u.head
    BY <2>1, <2>3 DEF ListType
  <2>6. m \in ListType
    BY <2>1, <2>3, <1>0 DEF ListType
  <2>7. \A s \in Slots \ {n} : m.next[s] = u.next[s] /\ m.prev[s] = u.prev[s]
    BY <2>1, <2>4, <2>5 DEF ListType
  <2>8. m.next[n] = NULL /\ m.prev[n] = NULL
    BY <2>1, <2>4, <2>5 DEF ListType
  <2>9. Sorted(m, S \ {n}, r)
    <3>1. \A s \in S \ {n} : m.next[s] = u.next[s] /\ m.prev[s] = u.prev[s] BY <2>7
    <3> QED BY <2>1, <2>12, <3>1, SortedFrame
  <2>10. \A s \in Slots \ S : m.next[s] = l.next[s] /\ m.prev[s] = l.prev[s]
    BY <1>3, <2>1, <2>7
  <2>11. RemoveIsRight(l, n) BY <2>1 DEF RemoveIsRight
  <2> QED BY <1>1, <1>3, <2>2, <2>6, <2>8, <2>9, <2>10, <2>11
<1> QED BY <1>2, <1>3

\* The same for some rank.
LEMMA LinkedRemove ==
  ASSUME NEW l \in ListType, NEW S \in SUBSET Slots, Linked(l, S),
         NEW n \in Slots, n \notin S => l.next[n] = NULL /\ l.prev[n] = NULL
  PROVE  /\ RemoveIfIn(l, n) \in ListType
         /\ Linked(RemoveIfIn(l, n), S \ {n})
         /\ RemoveIsRight(l, n)
         /\ RemoveIfIn(l, n).next[n] = NULL /\ RemoveIfIn(l, n).prev[n] = NULL
         /\ \A s \in Slots \ S :
              RemoveIfIn(l, n).next[s] = l.next[s] /\ RemoveIfIn(l, n).prev[s] = l.prev[s]
         /\ Contains(l, n) <=> n \in S
<1>1. PICK r \in Rank : Sorted(l, S, r) BY DEF Linked
<1>2. /\ RemoveIfIn(l, n) \in ListType
      /\ Sorted(RemoveIfIn(l, n), S \ {n}, r)
      /\ RemoveIsRight(l, n)
      /\ RemoveIfIn(l, n).next[n] = NULL /\ RemoveIfIn(l, n).prev[n] = NULL
      /\ \A s \in Slots \ S :
           RemoveIfIn(l, n).next[s] = l.next[s] /\ RemoveIfIn(l, n).prev[s] = l.prev[s]
      /\ Contains(l, n) <=> n \in S
  BY <1>1, SortedRemove
<1> QED BY <1>1, <1>2 DEF Linked

\* The first slot of a list is taken off, and the second has none before it any more.
LEMMA LinkedPop ==
  ASSUME NEW l, NEW S \in SUBSET Slots, Linked(l, S), l.head # NULL,
         NEW m, m.head = l.next[l.head],
         \A s \in S \ {l.head} : /\ m.next[s] = l.next[s]
                                 /\ m.prev[s] = IF s = m.head THEN NULL ELSE l.prev[s]
  PROVE  Linked(m, S \ {l.head})
<1> PICK r \in Rank : Sorted(l, S, r) BY DEF Linked
<1>0. NULL \notin Slots /\ \A s \in Slots : r[s] \in Int BY NullIsNoSlot DEF Rank
<1>1. Threaded(m.next, m.head, S \ {l.head}, r)
  <2>1. Threaded(l.next, l.head, S, r) BY DEF Sorted
  <2> QED BY <2>1, ThreadedPop
<1>2. l.head \in S /\ l.prev[l.head] = NULL BY DEF Sorted, Threaded, Backed
<1>3. \A s \in S : l.prev[s] = l.head => s = m.head
  <2> SUFFICES ASSUME NEW s \in S, l.prev[s] = l.head PROVE s = m.head OBVIOUS
  <2>1. l.next[l.prev[s]] = s BY DEF Sorted, Backed
  <2> QED BY <2>1
<1>4. \A s \in S : l.next[s] # NULL => l.next[s] \in S /\ l.next[s] # l.head /\ l.prev[l.next[s]] = s
  <2>1. \A s \in S : l.next[s] # NULL => l.next[s] \in S /\ l.prev[l.next[s]] = s
    BY DEF Sorted, Threaded, Backed
  <2> QED BY <2>1, <1>0, <1>2
<1>5. m.head \in (S \ {l.head}) \cup {NULL} BY <1>0, <1>2, <1>4
<1>6. Backed(m, S \ {l.head})
  <2>1. \A s \in S \ {l.head} : m.prev[s] = NULL <=> s = m.head
    BY <1>3 DEF Sorted, Backed
  <2>2. \A s \in S \ {l.head} :
          m.prev[s] # NULL => m.prev[s] \in S \ {l.head} /\ m.next[m.prev[s]] = s
    <3> SUFFICES ASSUME NEW s \in S \ {l.head}, m.prev[s] # NULL
                 PROVE  m.prev[s] \in S \ {l.head} /\ m.next[m.prev[s]] = s
      OBVIOUS
    <3>1. s # m.head /\ m.prev[s] = l.prev[s] BY <2>1
    <3>2. l.prev[s] \in S /\ l.next[l.prev[s]] = s /\ l.prev[s] # l.head
      BY <3>1, <1>3 DEF Sorted, Backed
    <3> QED BY <3>1, <3>2
  <2>3. \A s \in S \ {l.head} : m.next[s] # NULL => m.prev[m.next[s]] = s
    <3> SUFFICES ASSUME NEW s \in S \ {l.head}, m.next[s] # NULL PROVE m.prev[m.next[s]] = s
      OBVIOUS
    <3>1. m.next[s] = l.next[s] /\ l.next[s] \in S \ {l.head} /\ l.prev[l.next[s]] = s BY <1>4
    <3>2. l.next[s] # m.head
      <4> SUFFICES ASSUME l.next[s] = l.next[l.head] PROVE FALSE BY <3>1
      <4> QED BY <3>1, <1>2, <1>4
    <3> QED BY <3>1, <3>2
  <2> QED BY <2>1, <2>2, <2>3 DEF Backed
<1> QED BY <1>1, <1>6 DEF Linked, Sorted
-----------------------------------------------------------------------------
(* What the recursive functions compute *)

\* A set of numbers that is not empty has a least one.
LEMMA NatsHaveLeast ==
  ASSUME NEW S \in SUBSET Nat, S # {} PROVE \E x \in S : \A y \in S : x <= y
<1>1. PICK x \in S : \A y \in S : ~(<<y, x>> \in OpToRel(<, Nat))
  BY NatLessThanWellFounded, WFMin, Zenon
<1>2. \A y \in S : ~(y < x)
  BY <1>1, Zenon DEF OpToRel
<1> QED BY <1>2

\* What holds of 0 and of the next number holds of all up to NSlots.
LEMMA UpToNSlots ==
  ASSUME NEW G \in SUBSET Nat, 0 \in G, \A k \in 0 .. NSlots - 1 : k \in G => k + 1 \in G
  PROVE  NSlots \in Nat /\ 0 .. NSlots \subseteq G
<1>0. NSlots \in Nat BY SlotsAssumption
<1> SUFFICES ASSUME (0 .. NSlots) \ G # {} PROVE FALSE BY <1>0
<1>1. (0 .. NSlots) \ G \in SUBSET Nat BY <1>0
<1>2. PICK x \in (0 .. NSlots) \ G : \A y \in (0 .. NSlots) \ G : x <= y
  BY <1>1, NatsHaveLeast
<1>3. x # 0 /\ x \in Nat /\ x - 1 \in 0 .. NSlots - 1 BY <1>0, <1>2
<1>4. x - 1 \in G BY <1>0, <1>2, <1>3
<1>5. x - 1 + 1 \in G BY <1>3, <1>4
<1> QED BY <1>2, <1>3, <1>5

\* There is a number of slots.
LEMMA SlotsAreFinite == IsFiniteSet(Slots) /\ Cardinality(Slots) = NSlots /\ NSlots \in Nat
<1>1. NSlots \in Nat BY SlotsAssumption
<1> QED BY <1>1, FS_Interval DEF Slots

\* One step of SeekToValid
Sought(s) == IF s # NULL /\ vert[s].fresh THEN locals.next[s] ELSE s

\* SeekToValid goes step by step.
LEMMA SeekSteps ==
  ASSUME NEW n
  PROVE  \E V : /\ V = [k \in 0 .. NSlots |-> IF k = 0 THEN n ELSE Sought(V[k - 1])]
                /\ SeekToValid(n) = V[NSlots]
<1> DEFINE Goes(V, f) == V = [k \in 0 .. f |-> IF k = 0 THEN n ELSE Sought(V[k - 1])]
           G == {f \in Nat : \E V : Goes(V, f)}
<1>1. 0 \in G
  <2>1. Goes([k \in 0 .. 0 |-> n], 0) OBVIOUS
  <2> QED BY <2>1
<1>2. ASSUME NEW f \in 0 .. NSlots - 1, f \in G PROVE f + 1 \in G
  <2>1. f \in Nat BY <1>2
  <2>2. PICK V : Goes(V, f) BY <1>2
  <2>3. PICK W : W = [k \in 0 .. f + 1 |-> IF k <= f THEN V[k] ELSE Sought(V[f])] OBVIOUS
  <2>4. \A k \in 0 .. f : V[k] = IF k = 0 THEN n ELSE Sought(V[k - 1]) BY <2>2
  <2>5. \A k \in 0 .. f + 1 : W[k] = IF k = 0 THEN n ELSE Sought(W[k - 1])
    <3> SUFFICES ASSUME NEW k \in 0 .. f + 1
                 PROVE  W[k] = IF k = 0 THEN n ELSE Sought(W[k - 1])
      OBVIOUS
    <3>1. CASE k = 0 BY <2>1, <2>3, <2>4, <3>1
    <3>2. CASE k # 0 /\ k <= f
      <4>1. W[k] = V[k] /\ W[k - 1] = V[k - 1] BY <2>1, <2>3, <3>2
      <4> QED BY <4>1, <2>1, <2>4, <3>2
    <3>3. CASE k = f + 1
      <4>1. W[k] = Sought(V[f]) /\ W[k - 1] = V[f] BY <2>1, <2>3, <3>3
      <4> QED BY <4>1, <2>1, <3>3
    <3> QED BY <3>1, <3>2, <3>3, <2>1
  <2>6. Goes(W, f + 1) BY <2>3, <2>5
  <2> QED BY <2>1, <2>6
<1>3. \E V : Goes(V, NSlots)
  <2>1. G \in SUBSET Nat OBVIOUS
  <2>2. NSlots \in G
    <3> HIDE DEF G
    <3> QED BY <1>1, <1>2, <2>1, UpToNSlots
  <2> QED BY <2>2
<1>4. Goes(CHOOSE V : Goes(V, NSlots), NSlots)
  <2> HIDE DEF Goes
  <2> QED BY <1>3
<1>5. SeekToValid(n) = (CHOOSE V : Goes(V, NSlots))[NSlots]
  BY DEF SeekToValid, Sought
<1> QED BY <1>4, <1>5

\* The iterator gives the first vertex from n on that is not of this iteration.
LEMMA SeekFinds ==
  ASSUME NEW S \in SUBSET Slots, NEW r \in Rank, Threaded(locals.next, locals.head, S, r),
         NEW n \in S \cup {NULL}
  PROVE  /\ SeekToValid(n) \in S \cup {NULL}
         /\ SeekToValid(n) # NULL => ~vert[SeekToValid(n)].fresh
         /\ \A m \in S : n # NULL /\ r[n] <= r[m] /\ ~vert[m].fresh =>
              SeekToValid(n) # NULL /\ r[SeekToValid(n)] <= r[m]
<1>0. /\ NULL \notin Slots /\ NSlots \in Nat /\ IsFiniteSet(Slots) /\ Cardinality(Slots) = NSlots
      /\ \A s \in Slots : r[s] \in Int
  BY NullIsNoSlot, SlotsAreFinite DEF Rank
<1>1. PICK V : /\ V = [k \in 0 .. NSlots |-> IF k = 0 THEN n ELSE Sought(V[k - 1])]
               /\ SeekToValid(n) = V[NSlots]
  BY SeekSteps
<1>2. V[0] = n /\ \A k \in 0 .. NSlots - 1 : V[k + 1] = Sought(V[k])
  <2>1. \A k \in 0 .. NSlots : V[k] = IF k = 0 THEN n ELSE Sought(V[k - 1]) BY <1>1
  <2> QED BY <2>1, <1>0
<1> DEFINE Before(x) == {m \in S : r[m] < r[x]}
           Good(k) ==
             /\ V[k] \in S \cup {NULL}
             /\ V[k] # NULL /\ vert[V[k]].fresh => Cardinality(Before(V[k])) >= k
             /\ \A m \in S : n # NULL /\ r[n] <= r[m] /\ ~vert[m].fresh =>
                  V[k] # NULL /\ r[V[k]] <= r[m]
           G == {k \in Nat : Good(k)}
<1>3. \A x \in S : IsFiniteSet(Before(x)) /\ Cardinality(Before(x)) \in Nat
                   /\ Cardinality(Before(x)) < NSlots
  <2> SUFFICES ASSUME NEW x \in S
               PROVE  IsFiniteSet(Before(x)) /\ Cardinality(Before(x)) \in Nat
                      /\ Cardinality(Before(x)) < NSlots
    OBVIOUS
  <2>1. Before(x) \subseteq Slots \ {x} BY <1>0
  <2>2. IsFiniteSet(Slots \ {x}) /\ Cardinality(Slots \ {x}) = NSlots - 1
    BY <1>0, FS_RemoveElement
  <2>3. IsFiniteSet(Before(x)) /\ Cardinality(Before(x)) <= NSlots - 1
    BY <2>1, <2>2, FS_Subset
  <2>4. Cardinality(Before(x)) \in Nat BY <2>3, FS_CardinalityType
  <2> HIDE DEF Before
  <2> QED BY <2>3, <2>4, <1>0
<1>4. 0 \in G
  <2>1. V[0] # NULL => V[0] \in S BY <1>2
  <2>2. V[0] # NULL => Cardinality(Before(V[0])) >= 0
    <3> HIDE DEF Before
    <3> QED BY <2>1, <1>3
  <2> HIDE DEF Before
  <2> QED BY <1>2, <2>2
<1>5. ASSUME NEW k \in 0 .. NSlots - 1, k \in G PROVE k + 1 \in G
  <2>1. V[k + 1] = Sought(V[k]) /\ k \in Nat BY <1>2, <1>0
  <2>2. CASE V[k] = NULL \/ ~vert[V[k]].fresh
    <3>1. V[k + 1] = V[k] BY <2>1, <2>2 DEF Sought
    <3>2. Good(k) BY <1>5
    <3> HIDE DEF Before
    <3>3. Good(k + 1) BY <2>1, <2>2, <3>1, <3>2
    <3> QED BY <2>1, <3>3
  <2>3. CASE V[k] # NULL /\ vert[V[k]].fresh
    <3>1. PICK x : x = V[k] OBVIOUS
    <3>2. PICK y : y = locals.next[x] OBVIOUS
    <3>3. x \in S /\ vert[x].fresh /\ V[k + 1] = y BY <1>5, <2>1, <2>3, <3>1, <3>2 DEF Sought
    <3>4. y \in S \cup {NULL} BY <3>2, <3>3 DEF Threaded
    <3>5. Cardinality(Before(x)) >= k
      <4> HIDE DEF Before
      <4> QED BY <1>5, <2>3, <3>1
    <3>6. y # NULL => Cardinality(Before(y)) >= k + 1
      <4> SUFFICES ASSUME y # NULL PROVE Cardinality(Before(y)) >= k + 1 OBVIOUS
      <4>1. y \in S /\ r[x] < r[y] BY <3>2, <3>3, <3>4 DEF Threaded
      <4>2. Before(x) \cup {x} \subseteq Before(y) BY <4>1, <3>3, <1>0
      <4>3. x \notin Before(x) BY <3>3, <1>0
      <4>4. IsFiniteSet(Before(x)) /\ Cardinality(Before(x)) \in Nat /\ IsFiniteSet(Before(y))
            /\ Cardinality(Before(y)) \in Nat
        BY <1>3, <3>3, <4>1
      <4> HIDE DEF Before
      <4>5. Cardinality(Before(x) \cup {x}) = Cardinality(Before(x)) + 1
        BY <4>3, <4>4, FS_AddElement
      <4>6. Cardinality(Before(x) \cup {x}) <= Cardinality(Before(y))
        BY <4>2, <4>4, FS_Subset
      <4> QED BY <4>4, <4>5, <4>6, <3>5, <2>1
    <3>7. \A m \in S : n # NULL /\ r[n] <= r[m] /\ ~vert[m].fresh => y # NULL /\ r[y] <= r[m]
      <4> SUFFICES ASSUME NEW m \in S, n # NULL, r[n] <= r[m], ~vert[m].fresh
                   PROVE  y # NULL /\ r[y] <= r[m]
        OBVIOUS
      <4>1. r[x] <= r[m] BY <1>5, <3>1
      <4>2. x # m /\ r[x] # r[m] BY <3>3 DEF Threaded
      <4>3. r[x] < r[m] BY <4>1, <4>2, <3>3, <1>0
      <4>4. y # NULL
        <5> SUFFICES ASSUME y = NULL PROVE FALSE OBVIOUS
        <5>1. r[m] <= r[x] BY <3>2, <3>3 DEF Threaded
        <5> QED BY <5>1, <4>3, <3>3, <1>0
      <4> QED BY <4>3, <4>4, <3>2, <3>3 DEF Threaded
    <3>8. Good(k + 1)
      <4> HIDE DEF Before
      <4> QED BY <3>3, <3>4, <3>6, <3>7
    <3> HIDE DEF Good
    <3> QED BY <2>1, <3>8
  <2> QED BY <2>2, <2>3
<1>6. Good(NSlots)
  <2>1. G \in SUBSET Nat OBVIOUS
  <2>2. NSlots \in G
    <3> HIDE DEF G
    <3> QED BY <1>4, <1>5, <2>1, UpToNSlots
  <2> HIDE DEF Good
  <2> QED BY <2>2
<1>7. V[NSlots] # NULL => ~vert[V[NSlots]].fresh
  <2> SUFFICES ASSUME V[NSlots] # NULL, vert[V[NSlots]].fresh PROVE FALSE OBVIOUS
  <2>1. V[NSlots] \in S /\ Cardinality(Before(V[NSlots])) >= NSlots BY <1>6
  <2> HIDE DEF Before
  <2> QED BY <2>1, <1>0, <1>3
<1> QED BY <1>1, <1>6, <1>7

\* The slot behind a chain, and one step of Chain
Following(next, head, c) == IF c = <<>> THEN head ELSE next[c[Len(c)]]
Grown(next, head, c, k) ==
  IF Following(next, head, c) = NULL \/ (c # <<>> /\ Len(c) < k - 1) THEN c
  ELSE Append(c, Following(next, head, c))

\* Chain goes step by step.
LEMMA ChainSteps ==
  ASSUME NEW next, NEW head
  PROVE  \E V : /\ V = [k \in 0 .. NSlots |->
                          IF k = 0 THEN <<>> ELSE Grown(next, head, V[k - 1], k)]
                /\ Chain(next, head) = V[NSlots]
<1> DEFINE Goes(V, f) ==
             V = [k \in 0 .. f |-> IF k = 0 THEN <<>> ELSE Grown(next, head, V[k - 1], k)]
           G == {f \in Nat : \E V : Goes(V, f)}
<1>1. 0 \in G
  <2>1. Goes([k \in 0 .. 0 |-> <<>>], 0) OBVIOUS
  <2> QED BY <2>1
<1>2. ASSUME NEW f \in 0 .. NSlots - 1, f \in G PROVE f + 1 \in G
  <2>1. f \in Nat BY <1>2
  <2>2. PICK V : Goes(V, f) BY <1>2
  <2>3. PICK W : W = [k \in 0 .. f + 1 |->
                        IF k <= f THEN V[k] ELSE Grown(next, head, V[f], k)]
    OBVIOUS
  <2>4. \A k \in 0 .. f : V[k] = IF k = 0 THEN <<>> ELSE Grown(next, head, V[k - 1], k) BY <2>2
  <2>5. \A k \in 0 .. f + 1 : W[k] = IF k = 0 THEN <<>> ELSE Grown(next, head, W[k - 1], k)
    <3> SUFFICES ASSUME NEW k \in 0 .. f + 1
                 PROVE  W[k] = IF k = 0 THEN <<>> ELSE Grown(next, head, W[k - 1], k)
      OBVIOUS
    <3>1. CASE k = 0 BY <2>1, <2>3, <2>4, <3>1
    <3>2. CASE k # 0 /\ k <= f
      <4>1. W[k] = V[k] /\ W[k - 1] = V[k - 1] BY <2>1, <2>3, <3>2
      <4> QED BY <4>1, <2>1, <2>4, <3>2
    <3>3. CASE k = f + 1
      <4>1. W[k] = Grown(next, head, V[f], k) /\ W[k - 1] = V[f] BY <2>1, <2>3, <3>3
      <4> QED BY <4>1, <2>1, <3>3
    <3> QED BY <3>1, <3>2, <3>3, <2>1
  <2>6. Goes(W, f + 1) BY <2>3, <2>5
  <2> QED BY <2>1, <2>6
<1>3. \E V : Goes(V, NSlots)
  <2>1. G \in SUBSET Nat OBVIOUS
  <2>2. NSlots \in G
    <3> HIDE DEF G
    <3> QED BY <1>1, <1>2, <2>1, UpToNSlots
  <2> QED BY <2>2
<1>4. Goes(CHOOSE V : Goes(V, NSlots), NSlots)
  <2> HIDE DEF Goes
  <2> QED BY <1>3
<1>5. Chain(next, head) = (CHOOSE V : Goes(V, NSlots))[NSlots]
  BY DEF Chain, Grown, Following
<1> QED BY <1>4, <1>5

\* A beginning of the slots of S, in the order of r
Begins(c, next, head, S, r) ==
  /\ c \in Seq(S)
  /\ c # <<>> => c[1] = head
  /\ \A i \in 1 .. Len(c) : i < Len(c) => c[i + 1] = next[c[i]]
  /\ \A i, j \in 1 .. Len(c) : i < j => r[c[i]] < r[c[j]]
  /\ c # <<>> => \A m \in S : r[m] <= r[c[Len(c)]] => \E i \in 1 .. Len(c) : c[i] = m

\* A beginning and the slot behind it are a longer one.
LEMMA BeginsLonger ==
  ASSUME NEW next, NEW head, NEW S \in SUBSET Slots, NEW r \in Rank, Threaded(next, head, S, r),
         NEW c, Begins(c, next, head, S, r), NEW n, n = Following(next, head, c), n # NULL
  PROVE  n \in S /\ Begins(Append(c, n), next, head, S, r)
         /\ \A i \in 1 .. Len(c) : r[c[i]] < r[n]
<1>0. \A s \in S : r[s] \in Int BY DEF Rank
<1>1. c \in Seq(S) /\ Len(c) \in Nat /\ (c = <<>> <=> Len(c) = 0)
      /\ \A i \in 1 .. Len(c) : c[i] \in S
  BY DEF Begins
<1>2. CASE c = <<>>
  <2>1. n = head /\ n \in S BY <1>2 DEF Following, Threaded
  <2> PICK d : d = Append(c, n) OBVIOUS
  <2>2. d \in Seq(S) /\ Len(d) = 1 /\ d[1] = n BY <1>2, <2>1
  <2>3. \A m \in S : r[m] <= r[n] => m = n BY <2>1, <1>0 DEF Threaded
  <2>4. Begins(d, next, head, S, r) BY <2>1, <2>2, <2>3 DEF Begins
  <2> QED BY <2>1, <2>4, <1>2, <1>1
<1>3. CASE c # <<>>
  <2> PICK k : k = Len(c) OBVIOUS
  <2>0. k \in Nat /\ k > 0 BY <1>1, <1>3
  <2> PICK e : e = c[k] OBVIOUS
  <2>1. e \in S /\ n = next[e] BY <1>1, <1>3, <2>0 DEF Following
  <2>2. n \in S /\ r[e] < r[n] /\ \A m \in S : r[e] < r[m] => r[n] <= r[m]
    BY <2>1 DEF Threaded
  <2> PICK d : d = Append(c, n) OBVIOUS
  <2>3. /\ d \in Seq(S) /\ Len(d) = k + 1 /\ d[k + 1] = n
        /\ \A i \in 1 .. k : d[i] = c[i]
    BY <1>1, <2>2
  <2>4. \A i \in 1 .. k : r[c[i]] < r[n]
    <3> SUFFICES ASSUME NEW i \in 1 .. k PROVE r[c[i]] < r[n] OBVIOUS
    <3>1. i < k => r[c[i]] < r[e] BY <2>0 DEF Begins
    <3>2. i = k => c[i] = e OBVIOUS
    <3>3. c[i] \in S BY <1>1
    <3> QED BY <3>1, <3>2, <3>3, <2>0, <2>1, <2>2, <1>0
  <2>5. d # <<>> /\ d[1] = head
    BY <1>3, <2>0, <2>3 DEF Begins
  <2>6. \A i \in 1 .. k + 1 : i < k + 1 => d[i + 1] = next[d[i]]
    <3> SUFFICES ASSUME NEW i \in 1 .. k + 1, i < k + 1 PROVE d[i + 1] = next[d[i]]
      OBVIOUS
    <3>1. CASE i = k BY <3>1, <2>0, <2>1, <2>3
    <3>2. CASE i # k
      <4>1. i \in 1 .. k /\ i + 1 \in 1 .. k /\ i < k BY <3>2, <2>0
      <4>2. c[i + 1] = next[c[i]] BY <4>1 DEF Begins
      <4> QED BY <4>1, <4>2, <2>3
    <3> QED BY <3>1, <3>2
  <2>7. \A i, j \in 1 .. k + 1 : i < j => r[d[i]] < r[d[j]]
    <3> SUFFICES ASSUME NEW i \in 1 .. k + 1, NEW j \in 1 .. k + 1, i < j
                 PROVE  r[d[i]] < r[d[j]]
      OBVIOUS
    <3>1. CASE j = k + 1
      <4>1. i \in 1 .. k BY <3>1, <2>0
      <4> QED BY <4>1, <3>1, <2>3, <2>4
    <3>2. CASE j # k + 1
      <4>1. i \in 1 .. k /\ j \in 1 .. k BY <3>2, <2>0
      <4> QED BY <4>1, <2>3 DEF Begins
    <3> QED BY <3>1, <3>2
  <2>8. \A m \in S : r[m] <= r[n] => \E i \in 1 .. k + 1 : d[i] = m
    <3> SUFFICES ASSUME NEW m \in S, r[m] <= r[n] PROVE \E i \in 1 .. k + 1 : d[i] = m
      OBVIOUS
    <3>1. CASE r[m] <= r[e]
      <4>1. PICK i \in 1 .. k : c[i] = m BY <3>1, <1>3 DEF Begins
      <4>2. d[i] = m /\ i \in 1 .. k + 1 BY <4>1, <2>0, <2>3
      <4> QED BY <4>2
    <3>2. CASE ~(r[m] <= r[e])
      <4>1. r[n] <= r[m] BY <3>2, <2>1, <2>2, <1>0
      <4>2. m = n BY <4>1, <2>2, <1>0 DEF Threaded
      <4>3. d[k + 1] = m /\ k + 1 \in 1 .. k + 1 BY <4>2, <2>0, <2>3
      <4> QED BY <4>3
    <3> QED BY <3>1, <3>2
  <2>9. Begins(d, next, head, S, r) BY <2>3, <2>5, <2>6, <2>7, <2>8 DEF Begins
  <2> QED BY <2>2, <2>4, <2>9
<1> QED BY <1>2, <1>3

\* Of more places than there are values, two hold the same.
LEMMA TwoHoldTheSame ==
  ASSUME NEW c, NEW k \in Nat, NEW T, IsFiniteSet(T), Cardinality(T) < k, c \in [1 .. k -> T]
  PROVE  \E i, j \in 1 .. k : i < j /\ c[i] = c[j]
<1>1. IsFiniteSet(1 .. k) /\ Cardinality(1 .. k) = k BY FS_Interval
<1>2. PICK i, j \in 1 .. k : i # j /\ c[i] = c[j] BY <1>1, FS_PigeonHole
<1>3. i < j \/ j < i BY <1>2
<1> QED BY <1>2, <1>3

\* Chain gives all of a thread.
LEMMA ChainIsThread ==
  ASSUME NEW next, NEW head, NEW S \in SUBSET Slots, NEW r \in Rank, Threaded(next, head, S, r)
  PROVE  /\ Begins(Chain(next, head), next, head, S, r)
         /\ Following(next, head, Chain(next, head)) = NULL
<1>0. /\ NULL \notin Slots /\ NSlots \in Nat /\ IsFiniteSet(Slots) /\ Cardinality(Slots) = NSlots
      /\ \A s \in Slots : r[s] \in Int
  BY NullIsNoSlot, SlotsAreFinite DEF Rank
<1>1. PICK V : /\ V = [k \in 0 .. NSlots |->
                          IF k = 0 THEN <<>> ELSE Grown(next, head, V[k - 1], k)]
               /\ Chain(next, head) = V[NSlots]
  BY ChainSteps
<1>2. V[0] = <<>> /\ \A k \in 0 .. NSlots - 1 : V[k + 1] = Grown(next, head, V[k], k + 1)
  <2>1. \A k \in 0 .. NSlots : V[k] = IF k = 0 THEN <<>> ELSE Grown(next, head, V[k - 1], k)
    BY <1>1
  <2> QED BY <2>1, <1>0
<1> DEFINE Good(k) ==
             /\ Begins(V[k], next, head, S, r)
             /\ Len(V[k]) <= k
             /\ Len(V[k]) < k => Following(next, head, V[k]) = NULL
           G == {k \in Nat : Good(k)}
<1>3. 0 \in G
  <2>1. Begins(V[0], next, head, S, r) BY <1>2 DEF Begins
  <2>2. Len(V[0]) = 0 BY <1>2
  <2> QED BY <2>1, <2>2
<1>4. ASSUME NEW k \in 0 .. NSlots - 1, k \in G PROVE k + 1 \in G
  <2> PICK c : c = V[k] OBVIOUS
  <2>1. /\ Begins(c, next, head, S, r) /\ Len(c) <= k /\ k \in Nat
        /\ Len(c) < k => Following(next, head, c) = NULL
    BY <1>4, <1>0
  <2>2. V[k + 1] = Grown(next, head, c, k + 1) BY <1>2
  <2>3. c \in Seq(S) /\ Len(c) \in Nat BY <2>1 DEF Begins
  <2>4. CASE Following(next, head, c) = NULL
    <3>1. V[k + 1] = c BY <2>2, <2>4 DEF Grown
    <3> QED BY <3>1, <2>1, <2>3, <2>4
  <2>5. CASE Following(next, head, c) # NULL
    <3> PICK n : n = Following(next, head, c) OBVIOUS
    <3>1. Len(c) = k BY <2>1, <2>3, <2>5
    <3>2. V[k + 1] = Append(c, n) BY <2>1, <2>2, <2>5, <3>1 DEF Grown
    <3>3. n \in S /\ Begins(Append(c, n), next, head, S, r)
      BY <2>1, <2>5, BeginsLonger
    <3>4. Len(Append(c, n)) = k + 1 BY <2>3, <3>1, <3>3
    <3>5. Good(k + 1) BY <2>1, <3>2, <3>3, <3>4
    <3> HIDE DEF Good
    <3> QED BY <2>1, <3>5
  <2> QED BY <2>4, <2>5
<1>5. Good(NSlots)
  <2>1. G \in SUBSET Nat OBVIOUS
  <2>2. NSlots \in G
    <3> HIDE DEF G
    <3> QED BY <1>3, <1>4, <2>1, UpToNSlots
  <2> HIDE DEF Good
  <2> QED BY <2>2
<1> PICK c : c = Chain(next, head) OBVIOUS
<1>6. Begins(c, next, head, S, r) /\ Len(c) \in Nat /\ Len(c) <= NSlots
      /\ (Len(c) < NSlots => Following(next, head, c) = NULL)
      /\ c \in Seq(S)
  BY <1>1, <1>5, <1>0 DEF Begins
<1>7. Following(next, head, c) = NULL
  <2> SUFFICES ASSUME Following(next, head, c) # NULL PROVE FALSE OBVIOUS
  <2>1. Len(c) = NSlots BY <1>0, <1>6
  <2> PICK n : n = Following(next, head, c) OBVIOUS
  <2>2. n \in S /\ \A i \in 1 .. NSlots : r[c[i]] < r[n] BY <1>6, <2>1, BeginsLonger
  <2>3. \A i \in 1 .. NSlots : c[i] \in Slots \ {n} BY <1>0, <1>6, <2>1, <2>2
  <2>4. c \in [1 .. NSlots -> Slots \ {n}] BY <1>6, <2>1, <2>3
  <2>5. IsFiniteSet(Slots \ {n}) /\ Cardinality(Slots \ {n}) = NSlots - 1
    BY <1>0, <2>2, FS_RemoveElement
  <2>7. Cardinality(Slots \ {n}) < NSlots BY <2>5, <1>0
  <2>8. \E i, j \in 1 .. NSlots : i < j /\ c[i] = c[j]
    <3> HIDE DEF Good, G
    <3> QED BY <1>0, <2>4, <2>5, <2>7, TwoHoldTheSame
  <2>11. PICK i, j \in 1 .. NSlots : i < j /\ c[i] = c[j] BY <2>8
  <2>9. r[c[i]] < r[c[j]] BY <2>11, <1>6, <2>1 DEF Begins
  <2>10. c[i] \in Slots /\ r[c[i]] \in Int BY <2>3, <1>0
  <2> QED BY <2>9, <2>10, <2>11
<1> QED BY <1>6, <1>7

\* The slots of a chain are those of the thread, each once.
LEMMA ChainHolds ==
  ASSUME NEW next, NEW head, NEW S \in SUBSET Slots, NEW r \in Rank, Threaded(next, head, S, r)
  PROVE  /\ Members(next, head) = S
         /\ Chain(next, head) \in Seq(S)
         /\ Len(Chain(next, head)) = Cardinality(S)
<1> PICK c : c = Chain(next, head) OBVIOUS
<1>1. Begins(c, next, head, S, r) /\ Following(next, head, c) = NULL BY ChainIsThread
<1>2. c \in Seq(S) /\ Len(c) \in Nat /\ \A i \in 1 .. Len(c) : c[i] \in S
  BY <1>1 DEF Begins
<1>3. \A m \in S : \E i \in 1 .. Len(c) : c[i] = m
  <2>1. CASE c = <<>>
    <3>1. S = {} BY <1>1, <2>1 DEF Following, Threaded
    <3> QED BY <3>1
  <2>2. CASE c # <<>>
    <3>1. c[Len(c)] \in S /\ next[c[Len(c)]] = NULL BY <1>1, <1>2, <2>2 DEF Following
    <3>2. \A m \in S : r[m] <= r[c[Len(c)]] BY <3>1 DEF Threaded
    <3> QED BY <1>1, <2>2, <3>2 DEF Begins
  <2> QED BY <2>1, <2>2
<1>4. DOMAIN c = 1 .. Len(c) BY <1>2
<1>5. Members(next, head) = S BY <1>2, <1>3, <1>4 DEF Members
<1>6. IsFiniteSet(S) /\ Cardinality(S) \in Nat BY SlotsAreFinite, FS_Subset, FS_CardinalityType
<1>7. IsFiniteSet(1 .. Len(c)) /\ Cardinality(1 .. Len(c)) = Len(c)
  <2>1. \A n \in Nat : IsFiniteSet(1 .. n) /\ Cardinality(1 .. n) = n BY FS_Interval
  <2>2. Len(c) \in Nat BY <1>2
  <2> QED BY <2>1, <2>2
<1>8. ~(Cardinality(S) < Len(c))
  <2> SUFFICES ASSUME Cardinality(S) < Cardinality(1 .. Len(c)) PROVE FALSE BY <1>7
  <2>1. c \in [1 .. Len(c) -> S] BY <1>2
  <2>2. PICK i, j \in 1 .. Len(c) : i < j /\ c[i] = c[j]
    BY <2>1, <1>2, <1>6, <1>7, TwoHoldTheSame
  <2>4. r[c[i]] < r[c[j]] BY <2>2, <1>1 DEF Begins
  <2>5. r[c[i]] \in Int BY <1>2 DEF Rank
  <2> QED BY <2>2, <2>4, <2>5
<1>9. ~(Len(c) < Cardinality(S))
  <2> SUFFICES ASSUME Cardinality(1 .. Len(c)) < Cardinality(S) PROVE FALSE BY <1>7
  <2>0. PICK g : g = [m \in S |-> CHOOSE i \in 1 .. Len(c) : c[i] = m] OBVIOUS
  <2>1. \A m \in S : g[m] \in 1 .. Len(c) /\ c[g[m]] = m BY <2>0, <1>3
  <2>2. g \in [S -> 1 .. Len(c)] BY <2>0, <2>1
  <2>3. PICK m, n \in S : m # n /\ g[m] = g[n]
    BY <2>2, <1>6, <1>7, FS_PigeonHole
  <2> QED BY <2>1, <2>3
<1> QED BY <1>2, <1>5, <1>6, <1>8, <1>9

\* What is linked along a rank is a list in the sense of the properties.
LEMMA LinkedIsList ==
  ASSUME NEW l, NEW S \in SUBSET Slots, Linked(l, S)
  PROVE  IsListOf(l, S) /\ Members(l.next, l.head) = S
<1> PICK r \in Rank : Sorted(l, S, r) BY DEF Linked
<1>0. NULL \notin Slots BY NullIsNoSlot
<1>1. Threaded(l.next, l.head, S, r) BY DEF Sorted
<1>10. PICK c : c = Chain(l.next, l.head) OBVIOUS
<1>2. Members(l.next, l.head) = S /\ c \in Seq(S) /\ Len(c) = Cardinality(S)
  BY <1>1, <1>10, ChainHolds
<1>3. Begins(c, l.next, l.head, S, r) /\ Following(l.next, l.head, c) = NULL
  BY <1>1, <1>10, ChainIsThread
<1>4. DOMAIN c = 1 .. Len(c) /\ Len(c) \in Nat /\ \A i \in 1 .. Len(c) : c[i] \in S BY <1>2
<1>5. l.head # NULL => l.prev[l.head] = NULL
  BY <1>1 DEF Threaded, Sorted, Backed
<1>6. \A i \in DOMAIN c : i < Len(c) => l.prev[c[i + 1]] = c[i]
  <2> SUFFICES ASSUME NEW i \in 1 .. Len(c), i < Len(c) PROVE l.prev[c[i + 1]] = c[i]
    BY <1>4
  <2>1. c[i + 1] = l.next[c[i]] BY <1>3 DEF Begins
  <2>2. c[i] \in S /\ c[i + 1] \in S BY <1>4
  <2>3. l.next[c[i]] # NULL BY <2>1, <2>2, <1>0
  <2> QED BY <2>1, <2>2, <2>3 DEF Sorted, Backed
<1>7. c # <<>> => l.next[c[Len(c)]] = NULL BY <1>3 DEF Following
<1>8. /\ Len(c) = Cardinality(S) /\ Members(l.next, l.head) = S
      /\ l.head # NULL => l.prev[l.head] = NULL
      /\ \A i \in DOMAIN c : i < Len(c) => l.prev[c[i + 1]] = c[i]
      /\ c # <<>> => l.next[c[Len(c)]] = NULL
  BY <1>2, <1>5, <1>6, <1>7
<1>9. IsListOf(l, S) <=>
        /\ Len(c) = Cardinality(S) /\ Members(l.next, l.head) = S
        /\ l.head # NULL => l.prev[l.head] = NULL
        /\ \A i \in DOMAIN c : i < Len(c) => l.prev[c[i + 1]] = c[i]
        /\ c # <<>> => l.next[c[Len(c)]] = NULL
  BY <1>10 DEF IsListOf
<1> QED BY <1>2, <1>8, <1>9
-----------------------------------------------------------------------------
(* Slots that are taken and given back *)

\* Links with a head are a list, and a list's links are links.
LEMMA HeadsAndLinks ==
  /\ \A links \in LinkType, h \in Pointer : WithHead(links, h) \in ListType
  /\ \A links, h : /\ WithHead(links, h).next = links.next /\ WithHead(links, h).prev = links.prev
                   /\ WithHead(links, h).head = h
  /\ \A l \in ListType : /\ Links(l) \in LinkType /\ l.head \in Pointer
                         /\ WithHead(l, l.head) = l
  /\ \A l : Links(l).next = l.next /\ Links(l).prev = l.prev
<1>1. \A links \in LinkType, h \in Pointer : WithHead(links, h) \in ListType
  BY DEF WithHead, LinkType, ListType
<1>2. \A links, h : /\ WithHead(links, h).next = links.next /\ WithHead(links, h).prev = links.prev
                    /\ WithHead(links, h).head = h
  BY DEF WithHead
<1>3. \A l \in ListType : Links(l) \in LinkType /\ l.head \in Pointer
  BY DEF Links, LinkType, ListType
<1>4. \A l \in ListType : WithHead(l, l.head) = l
  BY DEF WithHead, ListType
<1>5. \A l : Links(l).next = l.next /\ Links(l).prev = l.prev
  BY DEF Links
<1> QED BY <1>1, <1>2, <1>3, <1>4, <1>5

\* Changing one link keeps the type of links.
LEMMA OneLink ==
  ASSUME NEW f \in [Slots -> Pointer], NEW n, NEW v \in Pointer
  PROVE  [f EXCEPT ![n] = v] \in [Slots -> Pointer]
  OBVIOUS

\* A slot taken from the pool leaves the lists of free slots and of neighbors right.
LEMMA TakeKeeps ==
  ASSUME TypeInv, PoolInv, NeighborsInv, pool_head # NULL, Take(pool_head),
         local_neighbors_head' = local_neighbors_head,
         NEW what \in {"local", "mirror"}, cache_map' = [cache_map EXCEPT ![pool_head] = what]
  PROVE  /\ pool_head \in Slots /\ cache_map[pool_head] = "free"
         /\ cache_map' \in [Slots -> {"free", "local", "mirror"}]
         /\ neighbors' \in LinkType /\ pool_head' \in Pointer
         /\ PoolInv' /\ NeighborsInv'
<1> PICK n : n = pool_head OBVIOUS
<1>0. NULL \notin Slots /\ NULL \in Pointer BY NullIsNoSlot
<1>1. Linked(WithHead(neighbors, pool_head), Holding("free")) /\ Holding("free") \in SUBSET Slots
  BY DEF PoolInv, Holding
<1>2. n \in Holding("free") /\ neighbors.next[n] \in Holding("free") \cup {NULL}
  <2> PICK r \in Rank : Sorted(WithHead(neighbors, n), Holding("free"), r) BY <1>1 DEF Linked
  <2>1. Threaded(neighbors.next, n, Holding("free"), r) BY HeadsAndLinks DEF Sorted
  <2> QED BY <2>1 DEF Threaded
<1>3. n \in Slots /\ cache_map[n] = "free" BY <1>2 DEF Holding
<1>4. /\ neighbors.next \in [Slots -> Pointer] /\ neighbors.prev \in [Slots -> Pointer]
      /\ cache_map \in [Slots -> {"free", "local", "mirror"}]
  BY DEF TypeInv, LinkType
<1>5. /\ neighbors'.next = [neighbors.next EXCEPT ![n] = NULL]
      /\ neighbors'.prev = [s \in Slots |-> IF s \in {n, neighbors.next[n]} THEN NULL
                                            ELSE neighbors.prev[s]]
      /\ neighbors' = [next |-> neighbors'.next, prev |-> neighbors'.prev]
      /\ pool_head' = neighbors.next[n]
  BY DEF Take
<1>6. neighbors' \in LinkType /\ pool_head' \in Pointer
  <2>1. neighbors'.next \in [Slots -> Pointer]
    <3>1. [neighbors.next EXCEPT ![n] = NULL] \in [Slots -> Pointer] BY <1>0, <1>4, OneLink
    <3> QED BY <1>5, <3>1
  <2>3. neighbors'.prev \in [Slots -> Pointer]
    <3>1. \A s \in Slots : neighbors.prev[s] \in Pointer BY <1>4
    <3> QED BY <1>0, <3>1, <1>5
  <2>2. pool_head' \in Pointer BY <1>3, <1>4, <1>5
  <2> QED BY <2>1, <2>2, <2>3, <1>5 DEF LinkType
<1>7. cache_map' \in [Slots -> {"free", "local", "mirror"}] BY <1>4
<1>8. \A s \in Slots : cache_map'[s] = IF s = n THEN what ELSE cache_map[s] BY <1>4
<1>9. \A s \in Slots \ {n} : /\ neighbors'.next[s] = neighbors.next[s]
                             /\ neighbors'.prev[s] = IF s = pool_head' THEN NULL
                                                     ELSE neighbors.prev[s]
  BY <1>4, <1>5
<1>10. neighbors'.next[n] = NULL /\ neighbors'.prev[n] = NULL
  BY <1>3, <1>4, <1>5
<1>11. PoolInv'
  <2>1. Holding("free")' = Holding("free") \ {n} BY <1>8 DEF Holding
  <2>2. Linked(WithHead(neighbors', pool_head'), Holding("free") \ {n})
    <3> PICK l : l = WithHead(neighbors, n) OBVIOUS
    <3> PICK m : m = WithHead(neighbors', pool_head') OBVIOUS
    <3>1. /\ l.next = neighbors.next /\ l.prev = neighbors.prev /\ l.head = n
          /\ m.next = neighbors'.next /\ m.prev = neighbors'.prev /\ m.head = pool_head'
      BY HeadsAndLinks
    <3>2. Linked(l, Holding("free")) BY <1>1
    <3>3. m.head = l.next[l.head] /\ l.head # NULL BY <3>1, <1>5
    <3>4. \A s \in Holding("free") \ {l.head} :
            m.next[s] = l.next[s] /\ m.prev[s] = IF s = m.head THEN NULL ELSE l.prev[s]
      BY <3>1, <1>1, <1>9
    <3>5. Linked(m, Holding("free") \ {l.head}) BY <1>1, <3>2, <3>3, <3>4, LinkedPop
    <3> QED BY <3>1, <3>5
  <2> QED BY <2>1, <2>2 DEF PoolInv
<1>12. NeighborsInv'
  <2>1. PICK N \in SUBSET Holding("mirror") :
          /\ Linked(NeighborList, N)
          /\ \A s \in Slots \ N : cache_map[s] # "free" =>
               neighbors.next[s] = NULL /\ neighbors.prev[s] = NULL
    BY DEF NeighborsInv
  <2>2. N \in SUBSET Holding("mirror")' BY <1>3, <1>8 DEF Holding
  <2>3. \A s \in Slots : cache_map[s] # "free" =>
          s # n /\ neighbors'.next[s] = neighbors.next[s] /\ neighbors'.prev[s] = neighbors.prev[s]
    BY <1>2, <1>3, <1>5, <1>9, <1>0 DEF Holding
  <2>4. Linked(NeighborList', N)
    <3>1. /\ NeighborList.next = neighbors.next /\ NeighborList.prev = neighbors.prev
          /\ NeighborList.head = local_neighbors_head
      BY HeadsAndLinks DEF NeighborList
    <3>2. /\ NeighborList'.next = neighbors'.next /\ NeighborList'.prev = neighbors'.prev
          /\ NeighborList'.head = local_neighbors_head
      BY HeadsAndLinks DEF NeighborList
    <3>3. \A s \in N : s \in Slots /\ cache_map[s] # "free" BY DEF Holding
    <3>4. \A s \in N : NeighborList'.next[s] = NeighborList.next[s]
                       /\ NeighborList'.prev[s] = NeighborList.prev[s]
      BY <2>3, <3>1, <3>2, <3>3
    <3>5. NeighborList'.head = NeighborList.head BY <3>1, <3>2
    <3> QED BY <2>1, <3>4, <3>5, LinkedFrame
  <2>5. \A s \in Slots \ N : cache_map'[s] # "free" =>
          neighbors'.next[s] = NULL /\ neighbors'.prev[s] = NULL
    BY <2>1, <2>3, <1>8, <1>10
  <2> QED BY <2>2, <2>4, <2>5 DEF NeighborsInv
<1>13. pool_head \in Slots /\ cache_map[pool_head] = "free" BY <1>3
<1> QED BY <1>6, <1>7, <1>11, <1>12, <1>13

\* A slot given back goes off the list of neighbors and onto the pool.
LEMMA GiveKeeps ==
  ASSUME TypeInv, PoolInv, NeighborsInv, NEW n \in Slots, cache_map[n] # "free", Give(n),
         cache_map' = [cache_map EXCEPT ![n] = "free"]
  PROVE  /\ cache_map' \in [Slots -> {"free", "local", "mirror"}]
         /\ neighbors' \in LinkType /\ pool_head' \in Pointer /\ local_neighbors_head' \in Pointer
         /\ RemoveIsRight(NeighborList, n)
         /\ PoolInv' /\ NeighborsInv'
<1>0. /\ cache_map \in [Slots -> {"free", "local", "mirror"}] /\ neighbors \in LinkType
      /\ pool_head \in Pointer /\ local_neighbors_head \in Pointer
  BY DEF TypeInv
<1>1. cache_map' \in [Slots -> {"free", "local", "mirror"}]
      /\ \A s \in Slots : cache_map'[s] = IF s = n THEN "free" ELSE cache_map[s]
  BY <1>0
<1>2. PICK N \in SUBSET Holding("mirror") :
        /\ Linked(NeighborList, N)
        /\ \A s \in Slots \ N : cache_map[s] # "free" =>
             neighbors.next[s] = NULL /\ neighbors.prev[s] = NULL
  BY DEF NeighborsInv
<1>3. N \in SUBSET Slots /\ \A s \in N : cache_map[s] # "free" BY DEF Holding
<1>4. /\ NeighborList \in ListType /\ NeighborList.next = neighbors.next
      /\ NeighborList.prev = neighbors.prev /\ NeighborList.head = local_neighbors_head
  BY <1>0, HeadsAndLinks DEF NeighborList
<1>5. PICK off : off = RemoveIfIn(NeighborList, n) OBVIOUS
<1>6. /\ off \in ListType /\ Linked(off, N \ {n}) /\ RemoveIsRight(NeighborList, n)
      /\ off.next[n] = NULL /\ off.prev[n] = NULL
      /\ \A s \in Slots \ N : off.next[s] = neighbors.next[s] /\ off.prev[s] = neighbors.prev[s]
  <2>0. PICK l : l = NeighborList OBVIOUS
  <2>1. n \notin N => l.next[n] = NULL /\ l.prev[n] = NULL
    BY <1>2, <1>4, <2>0
  <2>2. l \in ListType /\ Linked(l, N) BY <1>2, <1>4, <2>0
  <2>3. /\ RemoveIfIn(l, n) \in ListType
        /\ Linked(RemoveIfIn(l, n), N \ {n})
        /\ RemoveIsRight(l, n)
        /\ RemoveIfIn(l, n).next[n] = NULL /\ RemoveIfIn(l, n).prev[n] = NULL
        /\ \A s \in Slots \ N : RemoveIfIn(l, n).next[s] = l.next[s]
                                /\ RemoveIfIn(l, n).prev[s] = l.prev[s]
    BY <1>3, <2>1, <2>2, LinkedRemove
  <2> QED BY <1>4, <1>5, <2>0, <2>3
\* the pool, with the links the list of neighbors left
<1>7. PICK below : below = WithHead(off, pool_head) OBVIOUS
<1>8. /\ below \in ListType /\ below.next = off.next /\ below.prev = off.prev
      /\ below.head = pool_head
  <2>1. off.next \in [Slots -> Pointer] /\ off.prev \in [Slots -> Pointer]
    BY <1>6 DEF ListType
  <2> QED BY <1>0, <1>7, <2>1 DEF WithHead, ListType
<1>9. Linked(below, Holding("free"))
  <2>1. Linked(WithHead(neighbors, pool_head), Holding("free")) BY DEF PoolInv
  <2>2. \A s \in Holding("free") : below.next[s] = neighbors.next[s] /\ below.prev[s] = neighbors.prev[s]
    <3>1. \A s \in Holding("free") : s \in Slots \ N BY <1>3 DEF Holding
    <3> QED BY <3>1, <1>6, <1>8
  <2>3. /\ WithHead(neighbors, pool_head).next = neighbors.next
        /\ WithHead(neighbors, pool_head).prev = neighbors.prev
        /\ WithHead(neighbors, pool_head).head = pool_head
    BY HeadsAndLinks
  <2> QED BY <1>8, <2>1, <2>2, <2>3, LinkedFrame
<1>10. PICK pool : pool = Prepend(below, n) OBVIOUS
<1>11. /\ pool \in ListType /\ pool.head = n /\ Linked(pool, Holding("free") \cup {n})
       /\ \A s \in Slots \ (Holding("free") \cup {n}) :
            pool.next[s] = off.next[s] /\ pool.prev[s] = off.prev[s]
  <2>1. Holding("free") \in SUBSET Slots /\ n \in Slots \ Holding("free") BY DEF Holding
  <2> QED BY <1>8, <1>9, <1>10, <2>1, LinkedPrepend
<1>12. local_neighbors_head' = off.head /\ neighbors' = Links(pool) /\ pool_head' = pool.head
  BY <1>5, <1>7, <1>10 DEF Give
<1>13. neighbors' \in LinkType /\ pool_head' \in Pointer /\ local_neighbors_head' \in Pointer
       /\ neighbors'.next = pool.next /\ neighbors'.prev = pool.prev
  BY <1>6, <1>11, <1>12, HeadsAndLinks
<1>14. PoolInv'
  <2>1. Holding("free")' = Holding("free") \cup {n} BY <1>1 DEF Holding
  <2>2. WithHead(neighbors', pool_head') = pool
    BY <1>11, <1>12 DEF WithHead, Links, ListType
  <2> QED BY <1>11, <2>1, <2>2 DEF PoolInv
<1>15. NeighborsInv'
  <2>1. N \ {n} \in SUBSET Holding("mirror")' BY <1>1 DEF Holding
  <2>2. \A s \in Slots : s # n /\ cache_map[s] # "free" =>
          neighbors'.next[s] = off.next[s] /\ neighbors'.prev[s] = off.prev[s]
    <3>1. \A s \in Slots : s # n /\ cache_map[s] # "free" => s \in Slots \ (Holding("free") \cup {n})
      BY DEF Holding
    <3> QED BY <3>1, <1>11, <1>13
  <2>3. Linked(NeighborList', N \ {n})
    <3>1. /\ NeighborList'.next = neighbors'.next /\ NeighborList'.prev = neighbors'.prev
          /\ NeighborList'.head = off.head
      BY <1>12, HeadsAndLinks DEF NeighborList
    <3>2. \A s \in N \ {n} : NeighborList'.next[s] = off.next[s] /\ NeighborList'.prev[s] = off.prev[s]
      BY <1>3, <2>2, <3>1
    <3> QED BY <1>6, <3>1, <3>2, LinkedFrame
  <2>4. \A s \in Slots \ (N \ {n}) : cache_map'[s] # "free" =>
          neighbors'.next[s] = NULL /\ neighbors'.prev[s] = NULL
    <3> SUFFICES ASSUME NEW s \in Slots \ (N \ {n}), cache_map'[s] # "free"
                 PROVE  neighbors'.next[s] = NULL /\ neighbors'.prev[s] = NULL
      OBVIOUS
    <3>1. s # n /\ cache_map[s] # "free" /\ s \in Slots \ N BY <1>1
    <3> QED BY <3>1, <1>2, <1>6, <2>2
  <2> QED BY <2>1, <2>3, <2>4 DEF NeighborsInv
<1> QED BY <1>1, <1>6, <1>13, <1>14, <1>15

\* Neither changes while slots and links stay as they are.
LEMMA NodesSame ==
  ASSUME PoolInv, NeighborsInv, cache_map' = cache_map, neighbors' = neighbors,
         pool_head' = pool_head, local_neighbors_head' = local_neighbors_head
  PROVE  PoolInv' /\ NeighborsInv'
<1>1. \A w : Holding(w)' = Holding(w) BY DEF Holding
<1>2. PoolInv' BY <1>1 DEF PoolInv
<1>3. NeighborsInv' BY <1>1 DEF NeighborsInv, NeighborList
<1> QED BY <1>2, <1>3

\* A mirror is put on the list of neighbors or off it.
LEMMA ListNeighborKeeps ==
  ASSUME TypeInv, PoolInv, NeighborsInv, NEW n \in Slots, ListNeighbor(n)
  PROVE  /\ neighbors' \in LinkType /\ local_neighbors_head' \in Pointer
         /\ RemoveIsRight(NeighborList, n)
         /\ PoolInv' /\ NeighborsInv'
<1>0. /\ neighbors \in LinkType /\ local_neighbors_head \in Pointer /\ cache_map[n] = "mirror"
      /\ cache_map' = cache_map /\ pool_head' = pool_head
  BY DEF TypeInv, ListNeighbor
<1>1. PICK N \in SUBSET Holding("mirror") :
        /\ Linked(NeighborList, N)
        /\ \A s \in Slots \ N : cache_map[s] # "free" =>
             neighbors.next[s] = NULL /\ neighbors.prev[s] = NULL
  BY DEF NeighborsInv
<1>2. N \in SUBSET Slots /\ \A s \in N : cache_map[s] # "free" BY DEF Holding
<1>3. PICK l : l = NeighborList OBVIOUS
<1>4. /\ l \in ListType /\ l.next = neighbors.next /\ l.prev = neighbors.prev
      /\ l.head = local_neighbors_head /\ Linked(l, N)
  BY <1>0, <1>1, <1>3, HeadsAndLinks DEF NeighborList
<1>5. /\ RemoveIfIn(l, n) \in ListType /\ Linked(RemoveIfIn(l, n), N \ {n}) /\ RemoveIsRight(l, n)
      /\ RemoveIfIn(l, n).next[n] = NULL /\ RemoveIfIn(l, n).prev[n] = NULL
      /\ \A s \in Slots \ N : RemoveIfIn(l, n).next[s] = l.next[s]
                              /\ RemoveIfIn(l, n).prev[s] = l.prev[s]
      /\ Contains(l, n) <=> n \in N
  <2>1. n \notin N => l.next[n] = NULL /\ l.prev[n] = NULL BY <1>0, <1>1, <1>4
  <2>2. /\ RemoveIfIn(l, n) \in ListType /\ Linked(RemoveIfIn(l, n), N \ {n})
        /\ RemoveIsRight(l, n)
        /\ RemoveIfIn(l, n).next[n] = NULL /\ RemoveIfIn(l, n).prev[n] = NULL
        /\ \A s \in Slots \ N : RemoveIfIn(l, n).next[s] = l.next[s]
                                /\ RemoveIfIn(l, n).prev[s] = l.prev[s]
    BY <1>2, <1>4, <2>1, LinkedRemove
  <2>3. Contains(l, n) <=> n \in N BY <1>2, <1>4, <2>1, LinkedRemove, Zenon
  <2> QED BY <2>2, <2>3
<1>6. PICK m : m = IF Contains(l, n) THEN RemoveIfIn(l, n) ELSE Prepend(l, n) OBVIOUS
<1>7. neighbors' = Links(m) /\ local_neighbors_head' = m.head
  BY <1>3, <1>6 DEF ListNeighbor
\* what is then in the list
<1>8. PICK M \in SUBSET Slots : M = IF n \in N THEN N \ {n} ELSE N \cup {n}
  BY <1>2
<1>9. /\ m \in ListType /\ Linked(m, M)
      /\ \A s \in Slots \ (N \cup {n}) : m.next[s] = l.next[s] /\ m.prev[s] = l.prev[s]
      /\ n \in N => m.next[n] = NULL /\ m.prev[n] = NULL
  <2>1. CASE n \in N BY <2>1, <1>5, <1>6, <1>8
  <2>2. CASE n \notin N
    <3>1. /\ Prepend(l, n) \in ListType /\ Linked(Prepend(l, n), N \cup {n})
          /\ \A s \in Slots \ (N \cup {n}) :
               Prepend(l, n).next[s] = l.next[s] /\ Prepend(l, n).prev[s] = l.prev[s]
      BY <1>2, <1>4, <2>2, LinkedPrepend
    <3> QED BY <3>1, <2>2, <1>5, <1>6, <1>8
  <2> QED BY <2>1, <2>2
<1>10. /\ neighbors' \in LinkType /\ local_neighbors_head' \in Pointer
       /\ neighbors'.next = m.next /\ neighbors'.prev = m.prev
  BY <1>7, <1>9, HeadsAndLinks
<1>11. PoolInv'
  <2>1. Holding("free")' = Holding("free") BY <1>0 DEF Holding
  <2>2. Linked(WithHead(neighbors, pool_head), Holding("free")) BY DEF PoolInv
  <2>3. \A s \in Holding("free") : neighbors'.next[s] = neighbors.next[s]
                                   /\ neighbors'.prev[s] = neighbors.prev[s]
    <3>1. \A s \in Holding("free") : s \in Slots \ (N \cup {n}) BY <1>0, <1>2 DEF Holding
    <3> QED BY <3>1, <1>4, <1>9, <1>10
  <2>4. Linked(WithHead(neighbors', pool_head), Holding("free"))
    <3>1. \A links, h : /\ WithHead(links, h).next = links.next
                        /\ WithHead(links, h).prev = links.prev /\ WithHead(links, h).head = h
      BY HeadsAndLinks
    <3> QED BY <2>2, <2>3, <3>1, LinkedFrame
  <2> QED BY <1>0, <2>1, <2>4 DEF PoolInv
<1>12. NeighborsInv'
  <2>1. M \in SUBSET Holding("mirror")' BY <1>0, <1>8 DEF Holding
  <2>2. NeighborList' = m BY <1>7, <1>9 DEF NeighborList, WithHead, Links, ListType
  <2>3. \A s \in Slots \ M : cache_map'[s] # "free" =>
          neighbors'.next[s] = NULL /\ neighbors'.prev[s] = NULL
    <3> SUFFICES ASSUME NEW s \in Slots \ M, cache_map[s] # "free"
                 PROVE  neighbors'.next[s] = NULL /\ neighbors'.prev[s] = NULL
      BY <1>0
    <3>1. CASE s = n BY <3>1, <1>8, <1>9, <1>10
    <3>2. CASE s # n
      <4>1. s \in Slots \ (N \cup {n}) BY <3>2, <1>8
      <4>2. neighbors.next[s] = NULL /\ neighbors.prev[s] = NULL BY <4>1, <1>1
      <4> QED BY <4>1, <4>2, <1>4, <1>9, <1>10
    <3> QED BY <3>1, <3>2
  <2>4. Linked(NeighborList', M) BY <1>9, <2>2
  <2> QED BY <2>1, <2>3, <2>4 DEF NeighborsInv
<1> QED BY <1>3, <1>5, <1>10, <1>11, <1>12

-----------------------------------------------------------------------------
(* Partition lists *)

\* The lists of one kind: the slots T[q] for each partition q
Hung(links, heads, T) == \A q \in Parts : Linked(WithHead(links, heads[q]), T[q])
Family == {T \in [Parts -> SUBSET Slots] : \A p, q \in Parts : p # q => T[p] \cap T[q] = {}}

\* What changes: a head, or who is listed
HeadSet(heads2, heads, p, h) == \A q \in Parts : heads2[q] = IF q = p THEN h ELSE heads[q]
Without(T2, T, p, n) == \A q \in Parts : T2[q] = IF q = p THEN T[p] \ {n} ELSE T[q]
With(T2, T, p, n) == \A q \in Parts : T2[q] = IF q = p THEN T[p] \cup {n} ELSE T[q]
Moved(T2, T, n, q) ==
  \A o \in Parts : T2[o] = (T[o] \ {n}) \cup (IF o = q THEN {n} ELSE {})
All(T) == UNION {T[o] : o \in Parts}
Apart(links2, links, S) ==
  \A s \in Slots \ S : links2.next[s] = links.next[s] /\ links2.prev[s] = links.prev[s]
Unlisted(T, n) == \A q \in Parts : n \notin T[q]

\* They stay when other slots' links change.
LEMMA HungFrame ==
  ASSUME NEW links, NEW heads, NEW T \in Family, Hung(links, heads, T), NEW links2,
         \A q \in Parts : \A s \in T[q] : links2.next[s] = links.next[s] /\ links2.prev[s] = links.prev[s]
  PROVE  Hung(links2, heads, T)
<1> SUFFICES ASSUME NEW q \in Parts PROVE Linked(WithHead(links2, heads[q]), T[q])
  BY DEF Hung
<1>1. Linked(WithHead(links, heads[q]), T[q]) BY DEF Hung
<1>2. \A x, h : WithHead(x, h).next = x.next /\ WithHead(x, h).prev = x.prev /\ WithHead(x, h).head = h
  BY HeadsAndLinks
<1> QED BY <1>1, <1>2, LinkedFrame

\* A slot is taken out of the list of its partition.
LEMMA HungRemove ==
  ASSUME NEW links \in LinkType, NEW heads \in [Parts -> Pointer], NEW T \in Family,
         Hung(links, heads, T), NEW p \in Parts, NEW n \in T[p],
         NEW heads2, HeadSet(heads2, heads, p, RemoveFrom(links, heads, n, p).head),
         NEW T2 \in [Parts -> SUBSET Slots], Without(T2, T, p, n)
  PROVE  /\ Links(RemoveFrom(links, heads, n, p)) \in LinkType /\ RemoveFrom(links, heads, n, p).head \in Pointer /\ T2 \in Family
         /\ Hung(Links(RemoveFrom(links, heads, n, p)), heads2, T2)
         /\ HeadIsRight(WithHead(links, heads[p]), n)
         /\ Apart(Links(RemoveFrom(links, heads, n, p)), links, T[p])
<1> PICK out : out = RemoveFrom(links, heads, n, p) OBVIOUS
<1>0. T \in [Parts -> SUBSET Slots] /\ (\A q \in Parts : T[q] \in SUBSET Slots) /\ heads[p] \in Pointer
      /\ \A q \in Parts : q # p => T[p] \cap T[q] = {}
  BY DEF Family
<1>1. \A x, h : WithHead(x, h).next = x.next /\ WithHead(x, h).prev = x.prev /\ WithHead(x, h).head = h
  BY HeadsAndLinks
<1>2. PICK l : l = WithHead(links, heads[p]) OBVIOUS
<1>3. l \in ListType /\ l.next = links.next /\ l.prev = links.prev /\ Linked(l, T[p])
  <2>1. Linked(WithHead(links, heads[p]), T[p]) BY DEF Hung
  <2>2. WithHead(links, heads[p]) \in ListType BY <1>0, HeadsAndLinks
  <2> QED BY <2>1, <2>2, <1>1, <1>2
<1>4. out = Unlink(l, n) BY <1>2 DEF RemoveFrom
<1>5. /\ out \in ListType /\ Linked(out, T[p] \ {n}) /\ HeadIsRight(l, n)
      /\ \A s \in Slots \ T[p] : out.next[s] = l.next[s] /\ out.prev[s] = l.prev[s]
  <2>0. PICK S \in SUBSET Slots : S = T[p] BY <1>0
  <2>1. l \in ListType /\ Linked(l, S) /\ n \in S BY <1>3, <2>0
  <2>2. /\ Unlink(l, n) \in ListType /\ Linked(Unlink(l, n), S \ {n}) /\ HeadIsRight(l, n)
        /\ \A s \in Slots \ S : Unlink(l, n).next[s] = l.next[s] /\ Unlink(l, n).prev[s] = l.prev[s]
    BY <2>1, LinkedUnlink
  <2> QED BY <1>4, <2>0, <2>2
<1>6. Links(out) \in LinkType /\ out.head \in Pointer /\ WithHead(Links(out), out.head) = out
      /\ Links(out).next = out.next /\ Links(out).prev = out.prev
  <2>1. WithHead(Links(out), out.head) = out BY <1>5 DEF WithHead, Links, ListType
  <2> QED BY <2>1, <1>5, HeadsAndLinks
<1>7. \A q \in Parts : heads2[q] = IF q = p THEN out.head ELSE heads[q]
  BY DEF HeadSet
<1>8. \A q \in Parts : T2[q] = IF q = p THEN T[p] \ {n} ELSE T[q]
  BY DEF Without
<1>10. T2 \in Family
  <2>1. \A a, b \in Parts : a # b => T2[a] \cap T2[b] = {} BY <1>0, <1>8 DEF Family
  <2> QED BY <2>1 DEF Family
<1>11. Hung(Links(out), heads2, T2)
  <2> SUFFICES ASSUME NEW q \in Parts
               PROVE  Linked(WithHead(Links(out), heads2[q]), T2[q])
    BY DEF Hung
  <2>1. CASE q = p
    <3>1. heads2[q] = out.head BY <2>1, <1>7
    <3> QED BY <3>1, <2>1, <1>5, <1>6, <1>8
  <2>2. CASE q # p
    <3>1. heads2[q] = heads[q] /\ T2[q] = T[q] BY <2>2, <1>7, <1>8
    <3>2. Linked(WithHead(links, heads[q]), T[q]) BY DEF Hung
    <3>3. \A s \in T[q] : Links(out).next[s] = links.next[s] /\ Links(out).prev[s] = links.prev[s]
      <4>1. \A s \in T[q] : s \in Slots \ T[p] BY <2>2, <1>0
      <4> QED BY <4>1, <1>3, <1>5, <1>6
    <3>4. Linked(WithHead(Links(out), heads[q]), T[q]) BY <1>1, <3>2, <3>3, LinkedFrame
    <3> QED BY <3>1, <3>4
  <2> QED BY <2>1, <2>2
<1>12. Apart(Links(out), links, T[p]) BY <1>3, <1>5, <1>6 DEF Apart
<1> QED BY <1>12, <1>2, <1>3, <1>5, <1>6, <1>7, <1>10, <1>11

\* A slot of no partition's list is put in front of the list of one.
LEMMA HungInsert ==
  ASSUME NEW links \in LinkType, NEW heads \in [Parts -> Pointer], NEW T \in Family,
         Hung(links, heads, T), NEW p \in Parts, NEW n \in Slots, Unlisted(T, n),
         NEW heads2, HeadSet(heads2, heads, p, PrependTo(links, heads, n, p).head),
         NEW T2 \in [Parts -> SUBSET Slots], With(T2, T, p, n)
  PROVE  /\ Links(PrependTo(links, heads, n, p)) \in LinkType /\ PrependTo(links, heads, n, p).head \in Pointer /\ T2 \in Family
         /\ Hung(Links(PrependTo(links, heads, n, p)), heads2, T2)
         /\ Apart(Links(PrependTo(links, heads, n, p)), links, T[p] \cup {n})
<1> PICK into : into = PrependTo(links, heads, n, p) OBVIOUS
<1>0. T \in [Parts -> SUBSET Slots] /\ (\A q \in Parts : T[q] \in SUBSET Slots) /\ heads[p] \in Pointer
      /\ \A q \in Parts : q # p => T[p] \cap T[q] = {}
  BY DEF Family
<1>1. \A x, h : WithHead(x, h).next = x.next /\ WithHead(x, h).prev = x.prev /\ WithHead(x, h).head = h
  BY HeadsAndLinks
<1>2. PICK l : l = WithHead(links, heads[p]) OBVIOUS
<1>3. l \in ListType /\ l.next = links.next /\ l.prev = links.prev /\ Linked(l, T[p])
  <2>1. Linked(WithHead(links, heads[p]), T[p]) BY DEF Hung
  <2>2. WithHead(links, heads[p]) \in ListType BY <1>0, HeadsAndLinks
  <2> QED BY <2>1, <2>2, <1>1, <1>2
<1>4. into = Prepend(l, n) BY <1>2 DEF PrependTo
<1>5. /\ into \in ListType /\ Linked(into, T[p] \cup {n})
      /\ \A s \in Slots \ (T[p] \cup {n}) : into.next[s] = l.next[s] /\ into.prev[s] = l.prev[s]
  <2>0. PICK S \in SUBSET Slots : S = T[p] BY <1>0
  <2>1. l \in ListType /\ Linked(l, S) /\ n \in Slots \ S BY <1>3, <2>0 DEF Unlisted
  <2>2. /\ Prepend(l, n) \in ListType /\ Linked(Prepend(l, n), S \cup {n})
        /\ \A s \in Slots \ (S \cup {n}) :
             Prepend(l, n).next[s] = l.next[s] /\ Prepend(l, n).prev[s] = l.prev[s]
    BY <2>1, LinkedPrepend
  <2> QED BY <1>4, <2>0, <2>2
<1>6. Links(into) \in LinkType /\ into.head \in Pointer /\ WithHead(Links(into), into.head) = into
      /\ Links(into).next = into.next /\ Links(into).prev = into.prev
  <2>1. WithHead(Links(into), into.head) = into BY <1>5 DEF WithHead, Links, ListType
  <2> QED BY <2>1, <1>5, HeadsAndLinks
<1>7. \A q \in Parts : heads2[q] = IF q = p THEN into.head ELSE heads[q]
  BY DEF HeadSet
<1>8. \A q \in Parts : T2[q] = IF q = p THEN T[p] \cup {n} ELSE T[q]
  BY DEF With
<1>10. T2 \in Family
  <2>1. \A a, b \in Parts : a # b => T2[a] \cap T2[b] = {} BY <1>0, <1>8 DEF Family, Unlisted
  <2> QED BY <2>1 DEF Family
<1>11. Hung(Links(into), heads2, T2)
  <2> SUFFICES ASSUME NEW q \in Parts
               PROVE  Linked(WithHead(Links(into), heads2[q]), T2[q])
    BY DEF Hung
  <2>1. CASE q = p
    <3>1. heads2[q] = into.head BY <2>1, <1>7
    <3> QED BY <3>1, <2>1, <1>5, <1>6, <1>8
  <2>2. CASE q # p
    <3>1. heads2[q] = heads[q] /\ T2[q] = T[q] BY <2>2, <1>7, <1>8
    <3>2. Linked(WithHead(links, heads[q]), T[q]) BY DEF Hung
    <3>3. \A s \in T[q] : Links(into).next[s] = links.next[s] /\ Links(into).prev[s] = links.prev[s]
      <4>1. \A s \in T[q] : s \in Slots \ (T[p] \cup {n}) BY <2>2, <1>0 DEF Unlisted
      <4> QED BY <4>1, <1>3, <1>5, <1>6
    <3>4. Linked(WithHead(Links(into), heads[q]), T[q]) BY <1>1, <3>2, <3>3, LinkedFrame
    <3> QED BY <3>1, <3>4
  <2> QED BY <2>1, <2>2
<1>12. Apart(Links(into), links, T[p] \cup {n}) BY <1>3, <1>5, <1>6 DEF Apart
<1> QED BY <1>12, <1>3, <1>5, <1>6, <1>7, <1>10, <1>11

\* A slot moves from the list of one partition to that of another: the lists end up
\* holding T2, the assert holds, and slots of no list keep their links.
LEMMA HungRehung ==
  ASSUME NEW links \in LinkType, NEW heads \in [Parts -> Pointer], NEW T \in Family,
         Hung(links, heads, T), NEW p \in Parts, NEW q \in Parts, NEW n \in T[p],
         NEW x, x = Rehung(links, heads, n, p, q), NEW T2 \in Family,
         Moved(T2, T, n, q)
  PROVE  /\ x.links \in LinkType /\ x.heads \in [Parts -> Pointer]
         /\ Hung(x.links, x.heads, T2)
         /\ RehangIsRight(links, heads, n, p, q)
         /\ Apart(x.links, links, All(T))
<1>0. (\A o \in Parts : T[o] \in SUBSET Slots) /\ n \in Slots
      /\ \A a, b \in Parts : a # b => T[a] \cap T[b] = {}
  BY DEF Family
<1>3. \A o \in Parts : T2[o] = (T[o] \ {n}) \cup (IF o = q THEN {n} ELSE {})
  BY DEF Moved
<1>1. CASE p = q
  <2>1. x.links = links /\ x.heads = heads BY <1>1 DEF Rehung
  <2>2. \A o \in Parts : T2[o] = T[o]
    <3> SUFFICES ASSUME NEW o \in Parts PROVE T2[o] = T[o] OBVIOUS
    <3>1. CASE o = p BY <1>1, <1>3, <3>1
    <3>2. CASE o # p
      <4>1. n \notin T[o] BY <1>0, <3>2
      <4>2. T2[o] = T[o] \ {n} BY <1>1, <1>3, <3>2
      <4> QED BY <4>1, <4>2
    <3> QED BY <3>1, <3>2
  <2>3. Hung(links, heads, T2)
    <3> SUFFICES ASSUME NEW o \in Parts PROVE Linked(WithHead(links, heads[o]), T2[o])
      BY DEF Hung
    <3>1. Linked(WithHead(links, heads[o]), T[o]) BY DEF Hung
    <3> QED BY <2>2, <3>1
  <2>4. RehangIsRight(links, heads, n, p, q) BY <1>1 DEF RehangIsRight
  <2>5. Apart(x.links, links, All(T)) BY <2>1 DEF Apart
  <2> QED BY <2>1, <2>3, <2>4, <2>5
<1>2. CASE p # q
  <2>1. PICK out : out = RemoveFrom(links, heads, n, p) OBVIOUS
  <2>2. PICK mid : mid = Links(out) OBVIOUS
  <2>3. PICK heads2 : heads2 = [heads EXCEPT ![p] = out.head] OBVIOUS
  <2>4. PICK T1 \in [Parts -> SUBSET Slots] :
          \A o \in Parts : T1[o] = IF o = p THEN T[p] \ {n} ELSE T[o]
    <3>1. [o \in Parts |-> IF o = p THEN T[p] \ {n} ELSE T[o]] \in [Parts -> SUBSET Slots] BY <1>0
    <3> QED BY <3>1
  <2>5. /\ mid \in LinkType /\ heads2 \in [Parts -> Pointer] /\ T1 \in Family
        /\ Hung(mid, heads2, T1) /\ HeadIsRight(WithHead(links, heads[p]), n)
        /\ Apart(mid, links, T[p])
    <3>1. HeadSet(heads2, heads, p, RemoveFrom(links, heads, n, p).head)
      BY <2>1, <2>3 DEF HeadSet
    <3>4. Without(T1, T, p, n) BY <2>4 DEF Without
    <3>2. /\ Links(RemoveFrom(links, heads, n, p)) \in LinkType
          /\ RemoveFrom(links, heads, n, p).head \in Pointer /\ T1 \in Family
          /\ Hung(Links(RemoveFrom(links, heads, n, p)), heads2, T1)
          /\ HeadIsRight(WithHead(links, heads[p]), n)
          /\ Apart(Links(RemoveFrom(links, heads, n, p)), links, T[p])
      BY <3>1, <3>4, HungRemove
    <3>3. heads2 \in [Parts -> Pointer] BY <2>1, <2>3, <3>2
    <3> QED BY <2>1, <2>2, <3>2, <3>3
  <2>6. \A o \in Parts : T1[o] = T[o] \ {n}
    <3>1. \A o \in Parts : o # p => n \notin T[o] BY <1>0
    <3> QED BY <2>4, <3>1
  <2>7. PICK into : into = PrependTo(mid, heads2, n, q) OBVIOUS
  <2>8. PICK heads3 : heads3 = [heads2 EXCEPT ![q] = into.head] OBVIOUS
  <2>9. /\ Links(into) \in LinkType /\ heads3 \in [Parts -> Pointer]
        /\ Hung(Links(into), heads3, T2)
        /\ Apart(Links(into), mid, T1[q] \cup {n})
    <3>0. n \in Slots BY <1>0
    <3>1. Unlisted(T1, n) BY <2>6 DEF Unlisted
    <3>2. T2 \in [Parts -> SUBSET Slots] BY DEF Family
    <3>3. With(T2, T1, q, n) BY <1>3, <2>6 DEF With
    <3>4. HeadSet(heads3, heads2, q, PrependTo(mid, heads2, n, q).head)
      BY <2>5, <2>7, <2>8 DEF HeadSet
    <3>5. /\ Links(PrependTo(mid, heads2, n, q)) \in LinkType
          /\ PrependTo(mid, heads2, n, q).head \in Pointer
          /\ Hung(Links(PrependTo(mid, heads2, n, q)), heads3, T2)
          /\ Apart(Links(PrependTo(mid, heads2, n, q)), mid, T1[q] \cup {n})
      BY <3>0, <3>1, <3>2, <3>3, <3>4, <2>5, HungInsert
    <3>6. heads3 \in [Parts -> Pointer] BY <2>5, <2>7, <2>8, <3>5
    <3> QED BY <2>7, <3>5, <3>6
  <2>10. x.links = Links(into) /\ x.heads = heads3
    BY <1>2, <2>1, <2>2, <2>3, <2>7, <2>8 DEF Rehung
  <2>12. Hung(x.links, x.heads, T2) BY <2>9, <2>10
  <2>13. RehangIsRight(links, heads, n, p, q) BY <2>5 DEF RehangIsRight
  <2>14. Apart(x.links, links, All(T))
    <3> SUFFICES ASSUME NEW s \in Slots, \A o \in Parts : s \notin T[o]
                 PROVE  x.links.next[s] = links.next[s] /\ x.links.prev[s] = links.prev[s]
      BY DEF Apart, All
    <3>1. s # n /\ s \notin T[p] /\ s \notin T1[q] BY <2>6
    <3>2. Links(into).next[s] = mid.next[s] /\ Links(into).prev[s] = mid.prev[s] BY <3>1, <2>9 DEF Apart
    <3>3. mid.next[s] = links.next[s] /\ mid.prev[s] = links.prev[s] BY <3>1, <2>5 DEF Apart
    <3> QED BY <3>2, <3>3, <2>10
  <2> QED BY <2>9, <2>10, <2>12, <2>13, <2>14
<1> QED BY <1>1, <1>2

\* A thread stays when other slots' links change.
LEMMA ThreadedFrame ==
  ASSUME NEW next, NEW head, NEW S, NEW r, Threaded(next, head, S, r),
         NEW next2, \A s \in S : next2[s] = next[s]
  PROVE  Threaded(next2, head, S, r)
BY DEF Threaded

\* Lists stay when the slots whose links change are not in them.
LEMMA HungApart ==
  ASSUME NEW links, NEW heads, NEW T \in Family, Hung(links, heads, T), NEW links2, NEW U,
         Apart(links2, links, U), \A q \in Parts : T[q] \cap U = {}
  PROVE  Hung(links2, heads, T)
<1>1. \A q \in Parts : \A s \in T[q] : s \in Slots \ U BY DEF Family
<1>2. \A q \in Parts : \A s \in T[q] : links2.next[s] = links.next[s] /\ links2.prev[s] = links.prev[s]
  BY <1>1 DEF Apart
<1> QED BY <1>2, HungFrame

LocalsBy == [q \in Parts |-> LocalsIn(q)]
MirrorsBy == [q \in Parts |-> MirrorsIn(q)]

\* Nothing is waiting, in an own vertices' list and in a mirrors' list at once.
LEMMA Families ==
  /\ LocalsBy \in Family /\ MirrorsBy \in Family /\ Waiting \in SUBSET Slots
  /\ \A q \in Parts : LocalsBy[q] = LocalsIn(q) /\ MirrorsBy[q] = MirrorsIn(q)
  /\ \A q \in Parts : LocalsIn(q) \cap Waiting = {} /\ MirrorsIn(q) \cap Waiting = {}
  /\ \A p, q \in Parts : LocalsIn(p) \cap MirrorsIn(q) = {}
<1>1. \A q \in Parts : LocalsIn(q) \in SUBSET Slots /\ MirrorsIn(q) \in SUBSET Slots
  BY DEF LocalsIn, MirrorsIn
<1>2. \A q \in Parts : LocalsBy[q] = LocalsIn(q) /\ MirrorsBy[q] = MirrorsIn(q)
  BY DEF LocalsBy, MirrorsBy
<1>3. LocalsBy \in [Parts -> SUBSET Slots] /\ MirrorsBy \in [Parts -> SUBSET Slots]
  BY <1>1 DEF LocalsBy, MirrorsBy
<1>4. \A p, q \in Parts : p # q => LocalsIn(p) \cap LocalsIn(q) = {} BY DEF LocalsIn
<1>5. \A p, q \in Parts : p # q => MirrorsIn(p) \cap MirrorsIn(q) = {} BY DEF MirrorsIn
<1>6. LocalsBy \in Family /\ MirrorsBy \in Family
  BY <1>2, <1>3, <1>4, <1>5 DEF Family
<1>7. \A q \in Parts : LocalsIn(q) \cap Waiting = {} /\ MirrorsIn(q) \cap Waiting = {}
  BY DEF LocalsIn, MirrorsIn, Waiting
<1>8. \A p, q \in Parts : LocalsIn(p) \cap MirrorsIn(q) = {} BY DEF LocalsIn, MirrorsIn
<1>9. Waiting \in SUBSET Slots BY DEF Waiting
<1> QED BY <1>2, <1>6, <1>7, <1>8, <1>9

\* The same in the state that follows
LEMMA FamiliesNext ==
  /\ LocalsBy' \in Family /\ MirrorsBy' \in Family
  /\ \A q \in Parts : LocalsBy'[q] = LocalsIn(q)' /\ MirrorsBy'[q] = MirrorsIn(q)'
<1>1. \A q \in Parts : LocalsIn(q)' \in SUBSET Slots /\ MirrorsIn(q)' \in SUBSET Slots
  BY DEF LocalsIn, MirrorsIn
<1>2. \A q \in Parts : LocalsBy'[q] = LocalsIn(q)' /\ MirrorsBy'[q] = MirrorsIn(q)'
  BY DEF LocalsBy, MirrorsBy
<1>3. LocalsBy' \in [Parts -> SUBSET Slots] /\ MirrorsBy' \in [Parts -> SUBSET Slots]
  BY <1>1 DEF LocalsBy, MirrorsBy
<1>4. \A p, q \in Parts : p # q => LocalsIn(p)' \cap LocalsIn(q)' = {} BY DEF LocalsIn
<1>5. \A p, q \in Parts : p # q => MirrorsIn(p)' \cap MirrorsIn(q)' = {} BY DEF MirrorsIn
<1>6. LocalsBy' \in Family /\ MirrorsBy' \in Family
  BY <1>2, <1>3, <1>4, <1>5 DEF Family
<1> QED BY <1>2, <1>6

\* PartsInv by families
LEMMA PartsHang ==
  ASSUME PartsInv
  PROVE  /\ Hung(in_partition, local_lists, LocalsBy)
         /\ Hung(in_partition, mirror_lists, MirrorsBy)
<1>1. \A p \in Parts : /\ Linked(WithHead(in_partition, local_lists[p]), LocalsIn(p))
                       /\ Linked(WithHead(in_partition, mirror_lists[p]), MirrorsIn(p))
  BY DEF PartsInv
<1>2. \A q \in Parts : LocalsBy[q] = LocalsIn(q) /\ MirrorsBy[q] = MirrorsIn(q)
  BY Families
<1> QED BY <1>1, <1>2 DEF Hung

\* ... and back
LEMMA HangNext ==
  ASSUME Hung(in_partition', local_lists', LocalsBy'), Hung(in_partition', mirror_lists', MirrorsBy'),
         NEW r \in Rank, Threaded(in_partition'.next, recently_created', Waiting', r)
  PROVE  PartsInv'
<1>1. \A q \in Parts : LocalsBy'[q] = LocalsIn(q)' /\ MirrorsBy'[q] = MirrorsIn(q)'
  BY FamiliesNext
<1>2. \A p \in Parts : /\ Linked(WithHead(in_partition', local_lists'[p]), LocalsIn(p)')
                       /\ Linked(WithHead(in_partition', mirror_lists'[p]), MirrorsIn(p)')
  BY <1>1 DEF Hung
<1> QED BY <1>2 DEF PartsInv

\* The lists stay while nobody's place changes.
LEMMA PartsSame ==
  ASSUME PartsInv, UNCHANGED lists, Waiting' = Waiting,
         \A q \in Parts : LocalsIn(q)' = LocalsIn(q) /\ MirrorsIn(q)' = MirrorsIn(q)
  PROVE  PartsInv'
BY DEF PartsInv, lists

\* The first slot of the pool is free.
LEMMA PoolHead ==
  ASSUME IInv, pool_head # NULL PROVE pool_head \in Slots /\ cache_map[pool_head] = "free"
<1>1. PICK l : l = WithHead(neighbors, pool_head) OBVIOUS
<1>2. l.head = pool_head BY <1>1, HeadsAndLinks
<1>3. Linked(l, Holding("free")) BY <1>1 DEF IInv, PoolInv
<1>4. l.head \in Holding("free") \cup {NULL} BY <1>3 DEF Linked, Sorted, Threaded
<1> QED BY <1>2, <1>4 DEF Holding

\* The lists of a kind are the same when the members are.
LEMMA SameFamilies ==
  /\ (\A q \in Parts : LocalsIn(q)' = LocalsIn(q)) => LocalsBy' = LocalsBy
  /\ (\A q \in Parts : MirrorsIn(q)' = MirrorsIn(q)) => MirrorsBy' = MirrorsBy
BY DEF LocalsBy, MirrorsBy

\* hvr_vertex_create threads the new vertex through recently_created.
LEMMA CreateHangs ==
  ASSUME IInv, NEW part \in Parts, hvr_vertex_create(part) PROVE PartsInv'
<1>0. /\ vert \in [Slots -> VertexType] /\ in_partition \in LinkType
      /\ cache_map \in [Slots -> {"free", "local", "mirror"}] /\ PartsInv
  BY DEF IInv, TypeInv
<1>1. PICK n : n = pool_head OBVIOUS
<1>2. n \in Slots /\ cache_map[n] = "free" BY <1>1, PoolHead DEF hvr_vertex_create
<1>3. /\ cache_map' = [cache_map EXCEPT ![n] = "local"]
      /\ vert' = [vert EXCEPT ![n] = [part |-> part, curr_part |-> NULL, fresh |-> TRUE,
                                      needs_processing |-> TRUE]]
      /\ in_partition' = [next |-> [in_partition.next EXCEPT ![n] = recently_created],
                          prev |-> [in_partition.prev EXCEPT ![n] = NULL]]
      /\ recently_created' = n /\ local_lists' = local_lists /\ mirror_lists' = mirror_lists
      /\ curr' = curr
  BY <1>1 DEF hvr_vertex_create, place
<1>4. \A s \in Slots : /\ cache_map'[s] = IF s = n THEN "local" ELSE cache_map[s]
                       /\ s # n => vert'[s] = vert[s]
  BY <1>0, <1>3
<1>5. vert'[n].curr_part = NULL BY <1>0, <1>2, <1>3
<1>6. in_partition'.next[n] = recently_created /\ Apart(in_partition', in_partition, {n})
  <2>1. in_partition.next \in [Slots -> Pointer] /\ in_partition.prev \in [Slots -> Pointer]
    BY <1>0 DEF LinkType
  <2> QED BY <2>1, <1>2, <1>3 DEF Apart
<1>7. Waiting' = Waiting \cup {n} /\ n \notin Waiting
  BY <1>2, <1>4, <1>5 DEF Waiting
<1>8. \A q \in Parts : LocalsIn(q)' = LocalsIn(q) /\ n \notin LocalsIn(q)
  BY <1>2, <1>3, <1>4, <1>5 DEF LocalsIn, WhereListed
<1>9. \A q \in Parts : MirrorsIn(q)' = MirrorsIn(q) /\ n \notin MirrorsIn(q)
  BY <1>2, <1>4 DEF MirrorsIn
<1>10. Hung(in_partition', local_lists', LocalsBy')
  <2>1. LocalsBy' = LocalsBy BY <1>8, SameFamilies
  <2>2. LocalsBy \in Family /\ \A q \in Parts : LocalsBy[q] \cap {n} = {} BY <1>8, Families
  <2>3. Hung(in_partition, local_lists, LocalsBy) BY <1>0, PartsHang
  <2> QED BY <1>3, <1>6, <2>1, <2>2, <2>3, HungApart
<1>11. Hung(in_partition', mirror_lists', MirrorsBy')
  <2>1. MirrorsBy' = MirrorsBy BY <1>9, SameFamilies
  <2>2. MirrorsBy \in Family /\ \A q \in Parts : MirrorsBy[q] \cap {n} = {} BY <1>9, Families
  <2>3. Hung(in_partition, mirror_lists, MirrorsBy) BY <1>0, PartsHang
  <2> QED BY <1>3, <1>6, <2>1, <2>2, <2>3, HungApart
<1>12. \E r \in Rank : Threaded(in_partition'.next, recently_created', Waiting', r)
  <2>1. PICK r \in Rank : Threaded(in_partition.next, recently_created, Waiting, r)
    BY <1>0 DEF PartsInv
  <2>2. PICK S \in SUBSET Slots : S = Waiting BY Families
  <2>3. PICK f, g, h : f = in_partition.next /\ g = in_partition'.next /\ h = recently_created
    OBVIOUS
  <2>4. n \in Slots \ S /\ g[n] = h /\ \A s \in S : g[s] = f[s]
    BY <1>2, <1>6, <1>7, <2>2, <2>3 DEF Apart
  <2>5. Threaded(f, h, S, r) BY <2>1, <2>2, <2>3
  <2>6. Lowered(r, h, n) \in Rank /\ Threaded(g, n, S \cup {n}, Lowered(r, h, n))
    BY <2>4, <2>5, ThreadedPush
  <2> QED BY <1>3, <1>7, <2>2, <2>3, <2>6
<1> QED BY <1>10, <1>11, <1>12, HangNext

\* A vertex that is deleted is in the list of the partition its attributes say, if it
\* is not of this iteration and has not been moved in the same call.
LEMMA DeletedIsListed ==
  ASSUME IInv, process_buffered_change, ~astray', NEW n, n = Head(buffered_changes)
  PROVE  /\ Settled(n) /\ vert[n].part \in Parts /\ n \in LocalsIn(vert[n].part)
         /\ n = curr.vertex => vert[n].part = curr.old_part
<1>1. buffered_changes \in Seq(Slots) /\ buffered_changes # <<>>
  BY DEF IInv, TypeInv, process_buffered_change
<1>2. n \in Slots BY <1>1
<1>3. cache_map[n] = "local" /\ ~vert[n].fresh /\ (n = curr.vertex => vert[n].part = curr.old_part)
  BY DEF process_buffered_change
<1>4. Settled(n) BY <1>2, <1>3 DEF Settled
<1>5. vert[n].part \in Parts /\ vert[n].curr_part # NULL
  BY <1>4 DEF IInv, VertexInv, Settled
<1>6. n \in LocalsIn(vert[n].part) BY <1>3, <1>4, <1>5 DEF LocalsIn, WhereListed, Settled
<1> QED BY <1>3, <1>4, <1>5, <1>6

\* process_buffered_change takes the vertex out of its partition's list, where it is.
LEMMA DeleteHangs ==
  ASSUME IInv, process_buffered_change, ~astray'
  PROVE  /\ PartsInv' /\ in_partition' \in LinkType /\ local_lists' \in [Parts -> Pointer]
         /\ HeadIsRight(WithHead(in_partition, local_lists[vert[Head(buffered_changes)].part]),
                        Head(buffered_changes))
<1>0. /\ vert \in [Slots -> VertexType] /\ in_partition \in LinkType
      /\ local_lists \in [Parts -> Pointer]
      /\ cache_map \in [Slots -> {"free", "local", "mirror"}] /\ PartsInv
  BY DEF IInv, TypeInv
<1>1. PICK n : n = Head(buffered_changes) OBVIOUS
<1>2. Settled(n) /\ vert[n].part \in Parts /\ n \in LocalsIn(vert[n].part)
  BY <1>1, DeletedIsListed
<1>3. PICK p \in Parts : p = vert[n].part BY <1>2
<1>4. /\ in_partition' = Links(RemoveFrom(in_partition, local_lists, n, p))
      /\ local_lists' = [local_lists EXCEPT ![p] = RemoveFrom(in_partition, local_lists, n, p).head]
      /\ cache_map' = [cache_map EXCEPT ![n] = "free"]
      /\ vert' = vert /\ mirror_lists' = mirror_lists /\ recently_created' = recently_created
      /\ curr' = curr
  BY <1>1, <1>3 DEF process_buffered_change, place
<1>5. \A s \in Slots : cache_map'[s] = IF s = n THEN "free" ELSE cache_map[s] BY <1>0, <1>4
<1>6. \A q \in Parts : LocalsIn(q)' = LocalsIn(q) \ {n}
  BY <1>4, <1>5 DEF LocalsIn, WhereListed
<1>7. \A q \in Parts : MirrorsIn(q)' = MirrorsIn(q)
  BY <1>2, <1>4, <1>5 DEF MirrorsIn, Settled
<1>8. Waiting' = Waiting
  <2>1. vert[n].curr_part # NULL BY <1>2 DEF LocalsIn
  <2> QED BY <2>1, <1>4, <1>5 DEF Waiting
<1>9. /\ in_partition' \in LinkType /\ local_lists' \in [Parts -> Pointer]
      /\ Hung(in_partition', local_lists', LocalsBy')
      /\ HeadIsRight(WithHead(in_partition, local_lists[p]), n)
      /\ Apart(in_partition', in_partition, LocalsIn(p))
  <2>1. PICK T \in Family : T = LocalsBy BY Families
  <2>2. PICK T2 \in [Parts -> SUBSET Slots] : T2 = LocalsBy' BY FamiliesNext DEF Family
  <2>3. Without(T2, T, p, n)
    <3>1. \A q \in Parts : T[q] = LocalsIn(q) /\ T2[q] = LocalsIn(q)'
      BY <2>1, <2>2, Families, FamiliesNext
    <3>2. \A q \in Parts : T2[q] = LocalsIn(q) \ {n} BY <3>1, <1>6
    <3>3. \A q \in Parts : q # p => n \notin LocalsIn(q)
      BY <1>2, <1>3 DEF LocalsIn
    <3>4. \A q \in Parts : q # p => T2[q] = T[q] BY <3>1, <3>2, <3>3
    <3>5. T2[p] = T[p] \ {n} BY <3>1, <3>2
    <3> QED BY <3>4, <3>5 DEF Without
  <2>4. HeadSet(local_lists', local_lists, p, RemoveFrom(in_partition, local_lists, n, p).head)
    BY <1>0, <1>4 DEF HeadSet
  <2>5. Hung(in_partition, local_lists, T) BY <1>0, <2>1, PartsHang
  <2>6. T[p] = LocalsIn(p) /\ n \in T[p] BY <1>2, <1>3, <2>1, Families
  <2>7. /\ Links(RemoveFrom(in_partition, local_lists, n, p)) \in LinkType
        /\ RemoveFrom(in_partition, local_lists, n, p).head \in Pointer
        /\ Hung(Links(RemoveFrom(in_partition, local_lists, n, p)), local_lists', T2)
        /\ HeadIsRight(WithHead(in_partition, local_lists[p]), n)
        /\ Apart(Links(RemoveFrom(in_partition, local_lists, n, p)), in_partition, T[p])
    BY <1>0, <2>3, <2>4, <2>5, <2>6, HungRemove
  <2>8. local_lists' \in [Parts -> Pointer] BY <1>0, <1>4, <2>7
  <2> QED BY <1>4, <2>2, <2>6, <2>7, <2>8
<1>10. Hung(in_partition', mirror_lists', MirrorsBy')
  <2>1. MirrorsBy' = MirrorsBy BY <1>7, SameFamilies
  <2>2. MirrorsBy \in Family /\ \A q \in Parts : MirrorsBy[q] \cap LocalsIn(p) = {} BY Families
  <2>3. Hung(in_partition, mirror_lists, MirrorsBy) BY <1>0, PartsHang
  <2> QED BY <1>4, <1>9, <2>1, <2>2, <2>3, HungApart
<1>11. \E r \in Rank : Threaded(in_partition'.next, recently_created', Waiting', r)
  <2>1. PICK r \in Rank : Threaded(in_partition.next, recently_created, Waiting, r)
    BY <1>0 DEF PartsInv
  <2>2. \A s \in Waiting : in_partition'.next[s] = in_partition.next[s]
    <3>1. \A s \in Waiting : s \in Slots \ LocalsIn(p) BY Families
    <3> QED BY <3>1, <1>9 DEF Apart
  <2>3. Threaded(in_partition'.next, recently_created, Waiting, r) BY <2>1, <2>2, ThreadedFrame
  <2> QED BY <1>4, <1>8, <2>3
<1> QED BY <1>1, <1>3, <1>9, <1>10, <1>11, HangNext

\* VertexUpdated hangs the vertex in hand from where it was to where it is.
LEMMA SettledHangs ==
  ASSUME IInv, VertexUpdated, Settled(curr.vertex)
  PROVE  /\ PartsInv' /\ in_partition' \in LinkType /\ local_lists' \in [Parts -> Pointer]
         /\ RehangIsRight(in_partition, local_lists, curr.vertex, curr.old_part,
                          vert[curr.vertex].part)
<1>0. /\ vert \in [Slots -> VertexType] /\ in_partition \in LinkType
      /\ local_lists \in [Parts -> Pointer] /\ PartsInv
  BY DEF IInv, TypeInv
<1>1. PICK n : n = curr.vertex OBVIOUS
<1>2. Settled(n) /\ curr.old_part \in Parts
  BY <1>1 DEF IInv, PlaceInv, InHand, VertexUpdated
<1>3. PICK p \in Parts : p = curr.old_part BY <1>2
<1>4. n \in Slots /\ vert[n].part \in Parts /\ vert[n].curr_part # NULL
  BY <1>2 DEF IInv, VertexInv, Settled
<1>5. PICK q \in Parts : q = vert[n].part BY <1>4
<1>6. PICK x : x = Rehung(in_partition, local_lists, n, p, q) OBVIOUS
<1>7. /\ vert' = [vert EXCEPT ![n].curr_part = q]
      /\ in_partition' = x.links /\ local_lists' = x.heads /\ cache_map' = cache_map
      /\ mirror_lists' = mirror_lists /\ recently_created' = recently_created
      /\ curr' = NobodyInHand
  BY <1>1, <1>3, <1>5, <1>6 DEF VertexUpdated, nodes
<1>8. /\ \A s \in Slots : s # n => vert'[s] = vert[s]
      /\ vert'[n].part = q /\ vert'[n].curr_part = q
  <2>1. vert'[n] = [vert[n] EXCEPT !.curr_part = q] BY <1>0, <1>4, <1>7
  <2>2. vert[n] \in VertexType BY <1>0, <1>4
  <2> QED BY <1>0, <1>4, <1>5, <1>7, <2>1, <2>2 DEF VertexType
<1>9. NULL \notin Parts /\ NULL \notin Slots BY NullIsNoSlot, SlotsAssumption
<1>10. \A o \in Parts : LocalsIn(o)' = (LocalsIn(o) \ {n}) \cup (IF o = q THEN {n} ELSE {})
  <2> SUFFICES ASSUME NEW o \in Parts, NEW s \in Slots
               PROVE  s \in LocalsIn(o)' <=> s \in (LocalsIn(o) \ {n}) \cup (IF o = q THEN {n} ELSE {})
    BY <1>4 DEF LocalsIn
  <2>1. s # curr'.vertex BY <1>7, <1>9 DEF NobodyInHand
  <2>2. CASE s = n
    <3>1. s \in LocalsIn(o)' <=> o = q
      BY <1>2, <1>7, <1>8, <1>9, <2>1, <2>2 DEF LocalsIn, WhereListed, Settled
    <3> QED BY <3>1, <2>2
  <2>3. CASE s # n
    <3>1. s \in LocalsIn(o)' <=> s \in LocalsIn(o)
      BY <1>1, <1>7, <1>8, <2>1, <2>3 DEF LocalsIn, WhereListed
    <3> QED BY <3>1, <2>3
  <2> QED BY <2>2, <2>3
<1>11. \A o \in Parts : MirrorsIn(o)' = MirrorsIn(o)
  BY <1>2, <1>7, <1>8 DEF MirrorsIn, Settled
<1>12. Waiting' = Waiting
  BY <1>4, <1>7, <1>8, <1>9 DEF Waiting
<1>13. n \in LocalsIn(p) BY <1>1, <1>2, <1>3, <1>4 DEF LocalsIn, WhereListed, Settled
<1>14. PICK T \in Family : T = LocalsBy BY Families
<1>15. \A o \in Parts : T[o] = LocalsIn(o) BY <1>14, Families
<1>16. /\ in_partition' \in LinkType /\ local_lists' \in [Parts -> Pointer]
       /\ Hung(in_partition', local_lists', LocalsBy')
       /\ RehangIsRight(in_partition, local_lists, n, p, q)
       /\ Apart(in_partition', in_partition, All(T))
  <2>1. PICK T2 \in Family : T2 = LocalsBy' BY FamiliesNext
  <2>2. Moved(T2, T, n, q) BY <1>10, <1>15, <2>1, FamiliesNext DEF Moved
  <2>3. Hung(in_partition, local_lists, T) BY <1>0, <1>14, PartsHang
  <2>4. n \in T[p] BY <1>13, <1>15
  <2>5. /\ x.links \in LinkType /\ x.heads \in [Parts -> Pointer]
        /\ Hung(x.links, x.heads, T2)
        /\ RehangIsRight(in_partition, local_lists, n, p, q)
        /\ Apart(x.links, in_partition, All(T))
    BY <1>0, <1>6, <2>2, <2>3, <2>4, HungRehung
  <2> QED BY <1>7, <2>1, <2>5
<1>17. Hung(in_partition', mirror_lists', MirrorsBy')
  <2>1. MirrorsBy' = MirrorsBy BY <1>11, SameFamilies
  <2>2. MirrorsBy \in Family /\ \A o \in Parts : MirrorsBy[o] \cap All(T) = {}
    BY <1>15, Families DEF All
  <2>3. Hung(in_partition, mirror_lists, MirrorsBy) BY <1>0, PartsHang
  <2> QED BY <1>7, <1>16, <2>1, <2>2, <2>3, HungApart
<1>18. \E r \in Rank : Threaded(in_partition'.next, recently_created', Waiting', r)
  <2>1. PICK r \in Rank : Threaded(in_partition.next, recently_created, Waiting, r)
    BY <1>0 DEF PartsInv
  <2>2. \A s \in Waiting : in_partition'.next[s] = in_partition.next[s]
    <3>1. \A s \in Waiting : s \in Slots \ All(T) BY <1>15, Families DEF All
    <3> QED BY <3>1, <1>16 DEF Apart
  <2>3. Threaded(in_partition'.next, recently_created, Waiting, r) BY <2>1, <2>2, ThreadedFrame
  <2> QED BY <1>7, <1>12, <2>3
<1> QED BY <1>1, <1>3, <1>5, <1>16, <1>17, <1>18, HangNext

\* One that has been deleted meanwhile is in no list, and stays so.
LEMMA LostHangs ==
  ASSUME IInv, VertexUpdated, HandLost
  PROVE  /\ PartsInv' /\ in_partition' \in LinkType /\ local_lists' \in [Parts -> Pointer]
         /\ RehangIsRight(in_partition, local_lists, curr.vertex, curr.old_part,
                          vert[curr.vertex].part)
<1>0. /\ vert \in [Slots -> VertexType] /\ in_partition \in LinkType
      /\ local_lists \in [Parts -> Pointer] /\ PartsInv
  BY DEF IInv, TypeInv
<1>1. PICK n : n = curr.vertex OBVIOUS
<1>2. n \in Slots /\ cache_map[n] = "free" /\ vert[n].part = curr.old_part
  BY <1>1 DEF HandLost, GivenBack
<1>3. /\ vert' = [vert EXCEPT ![n].curr_part = vert[n].part]
      /\ in_partition' = in_partition /\ local_lists' = local_lists
      /\ cache_map' = cache_map /\ mirror_lists' = mirror_lists
      /\ recently_created' = recently_created /\ curr' = NobodyInHand
  BY <1>1, <1>2 DEF VertexUpdated, Rehung, nodes
<1>4. \A s \in Slots : s # n => vert'[s] = vert[s] BY <1>0, <1>3
<1>5. NULL \notin Slots BY NullIsNoSlot
<1>6. Waiting' = Waiting BY <1>2, <1>3, <1>4 DEF Waiting
<1>7. \A q \in Parts : LocalsIn(q)' = LocalsIn(q)
  <2> SUFFICES ASSUME NEW q \in Parts, NEW s \in Slots
               PROVE  s \in LocalsIn(q)' <=> s \in LocalsIn(q)
    BY DEF LocalsIn
  <2>1. s # curr'.vertex BY <1>3, <1>5 DEF NobodyInHand
  <2>2. CASE s = n BY <1>2, <1>3, <2>2 DEF LocalsIn
  <2>3. CASE s # n BY <1>1, <1>3, <1>4, <2>1, <2>3 DEF LocalsIn, WhereListed
  <2> QED BY <2>2, <2>3
<1>8. \A q \in Parts : MirrorsIn(q)' = MirrorsIn(q) BY <1>2, <1>3, <1>4 DEF MirrorsIn
<1>9. PartsInv' BY <1>0, <1>3, <1>6, <1>7, <1>8, PartsSame DEF lists
<1>10. RehangIsRight(in_partition, local_lists, curr.vertex, curr.old_part,
                     vert[curr.vertex].part)
  BY <1>1, <1>2 DEF RehangIsRight
<1> QED BY <1>0, <1>3, <1>9, <1>10

\* So, whichever it is, the lists are right when the next vertex has its turn.
LEMMA UpdatedHangs ==
  ASSUME IInv, VertexUpdated
  PROVE  /\ PartsInv' /\ in_partition' \in LinkType /\ local_lists' \in [Parts -> Pointer]
         /\ RehangIsRight(in_partition, local_lists, curr.vertex, curr.old_part,
                          vert[curr.vertex].part)
<1>1. Settled(curr.vertex) \/ HandLost BY DEF IInv, PlaceInv, InHand, VertexUpdated
<1> QED BY <1>1, SettledHangs, LostHangs

\* MoveMirror does the same for a mirror.
LEMMA MovedHangs ==
  ASSUME IInv, NEW n \in Slots, NEW part \in Parts, MoveMirror(n, part)
  PROVE  /\ PartsInv' /\ in_partition' \in LinkType /\ mirror_lists' \in [Parts -> Pointer]
         /\ RehangIsRight(in_partition, mirror_lists, n, vert[n].curr_part, part)
<1>0. /\ vert \in [Slots -> VertexType] /\ in_partition \in LinkType
      /\ mirror_lists \in [Parts -> Pointer] /\ PartsInv
  BY DEF IInv, TypeInv
<1>1. cache_map[n] = "mirror" /\ vert[n].part \in Parts /\ vert[n].curr_part = vert[n].part
  BY DEF IInv, VertexInv, MoveMirror
<1>2. PICK p \in Parts : p = vert[n].curr_part BY <1>1
<1>3. PICK x : x = Rehung(in_partition, mirror_lists, n, p, part) OBVIOUS
<1>4. /\ vert' = [vert EXCEPT ![n].part = part, ![n].curr_part = part]
      /\ in_partition' = x.links /\ mirror_lists' = x.heads /\ cache_map' = cache_map
      /\ local_lists' = local_lists /\ recently_created' = recently_created
      /\ curr' = curr
  BY <1>2, <1>3 DEF MoveMirror, nodes, place
<1>5. /\ \A s \in Slots : s # n => vert'[s] = vert[s]
      /\ vert'[n].part = part
  <2>1. vert'[n] = [vert[n] EXCEPT !.part = part, !.curr_part = part] BY <1>0, <1>4
  <2>2. vert[n] \in VertexType BY <1>0
  <2> QED BY <1>0, <1>4, <2>1, <2>2 DEF VertexType
<1>6. \A o \in Parts : MirrorsIn(o)' = (MirrorsIn(o) \ {n}) \cup (IF o = part THEN {n} ELSE {})
  BY <1>1, <1>4, <1>5 DEF MirrorsIn
<1>7. \A o \in Parts : LocalsIn(o)' = LocalsIn(o)
  BY <1>1, <1>4, <1>5 DEF LocalsIn, WhereListed
<1>8. Waiting' = Waiting BY <1>1, <1>4, <1>5 DEF Waiting
<1>9. n \in MirrorsIn(p) BY <1>1, <1>2 DEF MirrorsIn
<1>10. PICK T \in Family : T = MirrorsBy BY Families
<1>11. \A o \in Parts : T[o] = MirrorsIn(o) BY <1>10, Families
<1>12. /\ in_partition' \in LinkType /\ mirror_lists' \in [Parts -> Pointer]
       /\ Hung(in_partition', mirror_lists', MirrorsBy')
       /\ RehangIsRight(in_partition, mirror_lists, n, p, part)
       /\ Apart(in_partition', in_partition, All(T))
  <2>1. PICK T2 \in Family : T2 = MirrorsBy' BY FamiliesNext
  <2>2. Moved(T2, T, n, part) BY <1>6, <1>11, <2>1, FamiliesNext DEF Moved
  <2>3. Hung(in_partition, mirror_lists, T) BY <1>0, <1>10, PartsHang
  <2>4. n \in T[p] BY <1>9, <1>11
  <2>5. /\ x.links \in LinkType /\ x.heads \in [Parts -> Pointer]
        /\ Hung(x.links, x.heads, T2)
        /\ RehangIsRight(in_partition, mirror_lists, n, p, part)
        /\ Apart(x.links, in_partition, All(T))
    BY <1>0, <1>3, <2>2, <2>3, <2>4, HungRehung
  <2> QED BY <1>4, <2>1, <2>5
<1>13. Hung(in_partition', local_lists', LocalsBy')
  <2>1. LocalsBy' = LocalsBy BY <1>7, SameFamilies
  <2>2. LocalsBy \in Family /\ \A o \in Parts : LocalsBy[o] \cap All(T) = {}
    BY <1>11, Families DEF All
  <2>3. Hung(in_partition, local_lists, LocalsBy) BY <1>0, PartsHang
  <2> QED BY <1>4, <1>12, <2>1, <2>2, <2>3, HungApart
<1>14. \E r \in Rank : Threaded(in_partition'.next, recently_created', Waiting', r)
  <2>1. PICK r \in Rank : Threaded(in_partition.next, recently_created, Waiting, r)
    BY <1>0 DEF PartsInv
  <2>2. \A s \in Waiting : in_partition'.next[s] = in_partition.next[s]
    <3>1. \A s \in Waiting : s \in Slots \ All(T) BY <1>11, Families DEF All
    <3> QED BY <3>1, <1>12 DEF Apart
  <2>3. Threaded(in_partition'.next, recently_created, Waiting, r) BY <2>1, <2>2, ThreadedFrame
  <2> QED BY <1>4, <1>8, <2>3
<1> QED BY <1>2, <1>12, <1>13, <1>14, HangNext

\* insert_recently_created_in_partitions takes the first of recently_created and puts it in
\* front of the list of its partition.
LEMMA InsertedHangs ==
  ASSUME IInv, InsertRecentlyCreated
  PROVE  /\ PartsInv' /\ in_partition' \in LinkType /\ local_lists' \in [Parts -> Pointer]
         /\ recently_created' \in Pointer
         /\ recently_created \in Waiting /\ vert[recently_created].part \in Parts
<1>0. /\ vert \in [Slots -> VertexType] /\ in_partition \in LinkType
      /\ local_lists \in [Parts -> Pointer] /\ PartsInv
  BY DEF IInv, TypeInv
<1>1. PICK n : n = recently_created OBVIOUS
<1>2. PICK r \in Rank : Threaded(in_partition.next, recently_created, Waiting, r)
  BY <1>0 DEF PartsInv
<1>3. n \in Waiting BY <1>1, <1>2 DEF Threaded, InsertRecentlyCreated
<1>4. n \in Slots /\ cache_map[n] = "local" /\ vert[n].curr_part = NULL /\ vert[n].part \in Parts
  BY <1>3 DEF Waiting, IInv, VertexInv
<1>5. PICK p \in Parts : p = vert[n].part BY <1>4
<1>6. /\ recently_created' = in_partition.next[n]
      /\ vert' = [vert EXCEPT ![n].curr_part = p]
      /\ in_partition' = Links(PrependTo(in_partition, local_lists, n, p))
      /\ local_lists' = [local_lists EXCEPT ![p] = PrependTo(in_partition, local_lists, n, p).head]
      /\ cache_map' = cache_map /\ mirror_lists' = mirror_lists /\ curr' = curr
      /\ curr.vertex = NULL
  BY <1>1, <1>5 DEF InsertRecentlyCreated, nodes, place, IInv, PlaceInv, InHand
<1>7. /\ \A s \in Slots : s # n => vert'[s] = vert[s]
      /\ vert'[n].part = p /\ vert'[n].curr_part = p
  <2>1. vert'[n] = [vert[n] EXCEPT !.curr_part = p] BY <1>0, <1>4, <1>6
  <2>2. vert[n] \in VertexType BY <1>0, <1>4
  <2> QED BY <1>0, <1>4, <1>5, <1>6, <2>1, <2>2 DEF VertexType
<1>8. NULL \notin Parts /\ NULL \notin Slots BY NullIsNoSlot, SlotsAssumption
<1>9. Waiting' = Waiting \ {n}
  BY <1>4, <1>6, <1>7, <1>8 DEF Waiting
<1>10. \A q \in Parts : LocalsIn(q)' = LocalsIn(q) \cup (IF q = p THEN {n} ELSE {})
                        /\ n \notin LocalsIn(q)
  <2> SUFFICES ASSUME NEW q \in Parts, NEW s \in Slots
               PROVE  /\ n \notin LocalsIn(q)
                      /\ s \in LocalsIn(q)' <=> s \in LocalsIn(q) \cup (IF q = p THEN {n} ELSE {})
    BY <1>4 DEF LocalsIn
  <2>1. n \notin LocalsIn(q) BY <1>4 DEF LocalsIn
  <2>2. s # curr'.vertex /\ s # curr.vertex BY <1>6, <1>8
  <2>3. CASE s = n
    <3>1. s \in LocalsIn(q)' <=> q = p
      BY <1>4, <1>6, <1>7, <1>8, <2>2, <2>3 DEF LocalsIn, WhereListed
    <3> QED BY <3>1, <2>1, <2>3
  <2>4. CASE s # n
    <3>1. s \in LocalsIn(q)' <=> s \in LocalsIn(q)
      BY <1>6, <1>7, <2>4 DEF LocalsIn, WhereListed
    <3> QED BY <3>1, <2>1, <2>4
  <2> QED BY <2>3, <2>4
<1>11. \A q \in Parts : MirrorsIn(q)' = MirrorsIn(q) /\ n \notin MirrorsIn(q)
  BY <1>4, <1>6, <1>7 DEF MirrorsIn
<1>12. PICK T \in Family : T = LocalsBy BY Families
<1>13. \A q \in Parts : T[q] = LocalsIn(q) BY <1>12, Families
<1>14. /\ in_partition' \in LinkType /\ local_lists' \in [Parts -> Pointer]
       /\ Hung(in_partition', local_lists', LocalsBy')
       /\ Apart(in_partition', in_partition, LocalsIn(p) \cup {n})
  <2>1. PICK T2 \in [Parts -> SUBSET Slots] : T2 = LocalsBy' BY FamiliesNext DEF Family
  <2>2. With(T2, T, p, n)
    <3>1. \A q \in Parts : T2[q] = LocalsIn(q)' BY <2>1, FamiliesNext
    <3> QED BY <3>1, <1>10, <1>13 DEF With
  <2>3. HeadSet(local_lists', local_lists, p, PrependTo(in_partition, local_lists, n, p).head)
    BY <1>0, <1>6 DEF HeadSet
  <2>4. Hung(in_partition, local_lists, T) BY <1>0, <1>12, PartsHang
  <2>5. Unlisted(T, n) /\ n \in Slots BY <1>4, <1>10, <1>13 DEF Unlisted
  <2>6. /\ Links(PrependTo(in_partition, local_lists, n, p)) \in LinkType
        /\ PrependTo(in_partition, local_lists, n, p).head \in Pointer
        /\ Hung(Links(PrependTo(in_partition, local_lists, n, p)), local_lists', T2)
        /\ Apart(Links(PrependTo(in_partition, local_lists, n, p)), in_partition, T[p] \cup {n})
    BY <1>0, <2>2, <2>3, <2>4, <2>5, HungInsert
  <2>7. local_lists' \in [Parts -> Pointer] BY <1>0, <1>6, <2>6
  <2> QED BY <1>6, <1>13, <2>1, <2>6, <2>7
<1>15. Hung(in_partition', mirror_lists', MirrorsBy')
  <2>1. MirrorsBy' = MirrorsBy BY <1>11, SameFamilies
  <2>2. MirrorsBy \in Family /\ \A q \in Parts : MirrorsBy[q] \cap (LocalsIn(p) \cup {n}) = {}
    BY <1>11, Families
  <2>3. Hung(in_partition, mirror_lists, MirrorsBy) BY <1>0, PartsHang
  <2> QED BY <1>6, <1>14, <2>1, <2>2, <2>3, HungApart
<1>16. \E q \in Rank : Threaded(in_partition'.next, recently_created', Waiting', q)
  <2>1. PICK f, g, S : f = in_partition.next /\ g = in_partition'.next /\ S = Waiting OBVIOUS
  <2>2. S \in SUBSET Slots /\ Threaded(f, n, S, r) /\ n # NULL
    BY <1>1, <1>2, <1>4, <1>8, <2>1, Families
  <2>3. \A s \in S \ {n} : g[s] = f[s]
    <3>1. \A s \in S \ {n} : s \in Slots \ (LocalsIn(p) \cup {n}) BY <2>1, Families
    <3> QED BY <3>1, <1>14, <2>1 DEF Apart
  <2>4. Threaded(g, f[n], S \ {n}, r) BY <2>2, <2>3, ThreadedPop
  <2> QED BY <1>6, <1>9, <2>1, <2>4
<1>17. recently_created' \in Pointer BY <1>0, <1>4, <1>6 DEF LinkType
<1> QED BY <1>1, <1>3, <1>4, <1>14, <1>15, <1>16, <1>17, HangNext

\* A new mirror is put in front of the list of its partition.
LEMMA NewMirrorHangs ==
  ASSUME IInv, NEW part \in Parts, NewMirror(part)
  PROVE  PartsInv' /\ in_partition' \in LinkType /\ mirror_lists' \in [Parts -> Pointer]
<1>0. /\ vert \in [Slots -> VertexType] /\ in_partition \in LinkType
      /\ cache_map \in [Slots -> {"free", "local", "mirror"}]
      /\ mirror_lists \in [Parts -> Pointer] /\ PartsInv
  BY DEF IInv, TypeInv
<1>1. PICK n : n = pool_head OBVIOUS
<1>2. n \in Slots /\ cache_map[n] = "free" BY <1>1, PoolHead DEF NewMirror
<1>3. /\ vert' = [vert EXCEPT ![n] = [NoVertex EXCEPT !.part = part, !.curr_part = part]]
      /\ cache_map' = [cache_map EXCEPT ![n] = "mirror"]
      /\ in_partition' = Links(PrependTo(in_partition, mirror_lists, n, part))
      /\ mirror_lists' = [mirror_lists EXCEPT
           ![part] = PrependTo(in_partition, mirror_lists, n, part).head]
      /\ local_lists' = local_lists /\ recently_created' = recently_created /\ curr' = curr
  BY <1>1 DEF NewMirror, place
<1>4. /\ \A s \in Slots : /\ cache_map'[s] = IF s = n THEN "mirror" ELSE cache_map[s]
                          /\ s # n => vert'[s] = vert[s]
      /\ vert'[n].part = part
  BY <1>0, <1>2, <1>3 DEF NoVertex
<1>5. \A q \in Parts : MirrorsIn(q)' = MirrorsIn(q) \cup (IF q = part THEN {n} ELSE {})
                       /\ n \notin MirrorsIn(q)
  BY <1>2, <1>4 DEF MirrorsIn
<1>6. \A q \in Parts : LocalsIn(q)' = LocalsIn(q) /\ n \notin LocalsIn(q)
  BY <1>2, <1>3, <1>4 DEF LocalsIn, WhereListed
<1>7. Waiting' = Waiting /\ n \notin Waiting BY <1>2, <1>4 DEF Waiting
<1>8. PICK T \in Family : T = MirrorsBy BY Families
<1>9. \A q \in Parts : T[q] = MirrorsIn(q) BY <1>8, Families
<1>10. /\ in_partition' \in LinkType /\ mirror_lists' \in [Parts -> Pointer]
       /\ Hung(in_partition', mirror_lists', MirrorsBy')
       /\ Apart(in_partition', in_partition, MirrorsIn(part) \cup {n})
  <2>1. PICK T2 \in [Parts -> SUBSET Slots] : T2 = MirrorsBy' BY FamiliesNext DEF Family
  <2>2. With(T2, T, part, n)
    <3>1. \A q \in Parts : T2[q] = MirrorsIn(q)' BY <2>1, FamiliesNext
    <3> QED BY <3>1, <1>5, <1>9 DEF With
  <2>3. HeadSet(mirror_lists', mirror_lists, part, PrependTo(in_partition, mirror_lists, n, part).head)
    BY <1>0, <1>3 DEF HeadSet
  <2>4. Hung(in_partition, mirror_lists, T) BY <1>0, <1>8, PartsHang
  <2>5. Unlisted(T, n) /\ n \in Slots BY <1>2, <1>5, <1>9 DEF Unlisted
  <2>6. /\ Links(PrependTo(in_partition, mirror_lists, n, part)) \in LinkType
        /\ PrependTo(in_partition, mirror_lists, n, part).head \in Pointer
        /\ Hung(Links(PrependTo(in_partition, mirror_lists, n, part)), mirror_lists', T2)
        /\ Apart(Links(PrependTo(in_partition, mirror_lists, n, part)), in_partition, T[part] \cup {n})
    BY <1>0, <2>2, <2>3, <2>4, <2>5, HungInsert
  <2>7. mirror_lists' \in [Parts -> Pointer] BY <1>0, <1>3, <2>6
  <2> QED BY <1>3, <1>9, <2>1, <2>6, <2>7
<1>11. Hung(in_partition', local_lists', LocalsBy')
  <2>1. LocalsBy' = LocalsBy BY <1>6, SameFamilies
  <2>2. LocalsBy \in Family /\ \A q \in Parts : LocalsBy[q] \cap (MirrorsIn(part) \cup {n}) = {}
    BY <1>6, Families
  <2>3. Hung(in_partition, local_lists, LocalsBy) BY <1>0, PartsHang
  <2> QED BY <1>3, <1>10, <2>1, <2>2, <2>3, HungApart
<1>12. \E r \in Rank : Threaded(in_partition'.next, recently_created', Waiting', r)
  <2>1. PICK r \in Rank : Threaded(in_partition.next, recently_created, Waiting, r)
    BY <1>0 DEF PartsInv
  <2>2. \A s \in Waiting : in_partition'.next[s] = in_partition.next[s]
    <3>1. \A s \in Waiting : s \in Slots \ (MirrorsIn(part) \cup {n}) BY <1>7, Families
    <3> QED BY <3>1, <1>10 DEF Apart
  <2>3. Threaded(in_partition'.next, recently_created, Waiting, r) BY <2>1, <2>2, ThreadedFrame
  <2> QED BY <1>3, <1>7, <2>3
<1> QED BY <1>10, <1>11, <1>12, HangNext

\* A deleted mirror is taken out of the list of its partition, where it is.
LEMMA DeletedMirrorHangs ==
  ASSUME IInv, NEW n \in Slots, DeleteMirror(n)
  PROVE  /\ PartsInv' /\ in_partition' \in LinkType /\ mirror_lists' \in [Parts -> Pointer]
         /\ HeadIsRight(WithHead(in_partition, mirror_lists[vert[n].curr_part]), n)
<1>0. /\ vert \in [Slots -> VertexType] /\ in_partition \in LinkType
      /\ mirror_lists \in [Parts -> Pointer]
      /\ cache_map \in [Slots -> {"free", "local", "mirror"}] /\ PartsInv
  BY DEF IInv, TypeInv
<1>1. cache_map[n] = "mirror" /\ vert[n].part \in Parts /\ vert[n].curr_part = vert[n].part
  BY DEF IInv, VertexInv, DeleteMirror
<1>2. PICK p \in Parts : p = vert[n].curr_part BY <1>1
<1>3. n \in MirrorsIn(p) BY <1>1, <1>2 DEF MirrorsIn
<1>4. /\ in_partition' = Links(RemoveFrom(in_partition, mirror_lists, n, p))
      /\ mirror_lists' = [mirror_lists EXCEPT ![p] = RemoveFrom(in_partition, mirror_lists, n, p).head]
      /\ cache_map' = [cache_map EXCEPT ![n] = "free"]
      /\ vert' = vert /\ local_lists' = local_lists /\ recently_created' = recently_created
      /\ curr' = curr
  BY <1>2 DEF DeleteMirror, place
<1>5. \A s \in Slots : cache_map'[s] = IF s = n THEN "free" ELSE cache_map[s] BY <1>0, <1>4
<1>6. \A q \in Parts : MirrorsIn(q)' = MirrorsIn(q) \ {n} BY <1>4, <1>5 DEF MirrorsIn
<1>7. \A q \in Parts : LocalsIn(q)' = LocalsIn(q)
  BY <1>1, <1>4, <1>5 DEF LocalsIn, WhereListed
<1>8. Waiting' = Waiting BY <1>1, <1>4, <1>5 DEF Waiting
<1>9. /\ in_partition' \in LinkType /\ mirror_lists' \in [Parts -> Pointer]
      /\ Hung(in_partition', mirror_lists', MirrorsBy')
      /\ HeadIsRight(WithHead(in_partition, mirror_lists[p]), n)
      /\ Apart(in_partition', in_partition, MirrorsIn(p))
  <2>1. PICK T \in Family : T = MirrorsBy BY Families
  <2>2. PICK T2 \in [Parts -> SUBSET Slots] : T2 = MirrorsBy' BY FamiliesNext DEF Family
  <2>3. Without(T2, T, p, n)
    <3>1. \A q \in Parts : T[q] = MirrorsIn(q) /\ T2[q] = MirrorsIn(q)'
      BY <2>1, <2>2, Families, FamiliesNext
    <3>2. \A q \in Parts : T2[q] = MirrorsIn(q) \ {n} BY <3>1, <1>6
    <3>3. \A q \in Parts : q # p => n \notin MirrorsIn(q)
      BY <1>1, <1>2 DEF MirrorsIn
    <3>4. \A q \in Parts : q # p => T2[q] = T[q] BY <3>1, <3>2, <3>3
    <3>5. T2[p] = T[p] \ {n} BY <3>1, <3>2
    <3> QED BY <3>4, <3>5 DEF Without
  <2>4. HeadSet(mirror_lists', mirror_lists, p, RemoveFrom(in_partition, mirror_lists, n, p).head)
    BY <1>0, <1>4 DEF HeadSet
  <2>5. Hung(in_partition, mirror_lists, T) BY <1>0, <2>1, PartsHang
  <2>6. T[p] = MirrorsIn(p) /\ n \in T[p] BY <1>3, <2>1, Families
  <2>7. /\ Links(RemoveFrom(in_partition, mirror_lists, n, p)) \in LinkType
        /\ RemoveFrom(in_partition, mirror_lists, n, p).head \in Pointer
        /\ Hung(Links(RemoveFrom(in_partition, mirror_lists, n, p)), mirror_lists', T2)
        /\ HeadIsRight(WithHead(in_partition, mirror_lists[p]), n)
        /\ Apart(Links(RemoveFrom(in_partition, mirror_lists, n, p)), in_partition, T[p])
    BY <1>0, <2>3, <2>4, <2>5, <2>6, HungRemove
  <2>8. mirror_lists' \in [Parts -> Pointer] BY <1>0, <1>4, <2>7
  <2> QED BY <1>4, <2>2, <2>6, <2>7, <2>8
<1>10. Hung(in_partition', local_lists', LocalsBy')
  <2>1. LocalsBy' = LocalsBy BY <1>7, SameFamilies
  <2>2. LocalsBy \in Family /\ \A q \in Parts : LocalsBy[q] \cap MirrorsIn(p) = {} BY Families
  <2>3. Hung(in_partition, local_lists, LocalsBy) BY <1>0, PartsHang
  <2> QED BY <1>4, <1>9, <2>1, <2>2, <2>3, HungApart
<1>11. \E r \in Rank : Threaded(in_partition'.next, recently_created', Waiting', r)
  <2>1. PICK r \in Rank : Threaded(in_partition.next, recently_created, Waiting, r)
    BY <1>0 DEF PartsInv
  <2>2. \A s \in Waiting : in_partition'.next[s] = in_partition.next[s]
    <3>1. \A s \in Waiting : s \in Slots \ MirrorsIn(p) BY Families
    <3> QED BY <3>1, <1>9 DEF Apart
  <2>3. Threaded(in_partition'.next, recently_created, Waiting, r) BY <2>1, <2>2, ThreadedFrame
  <2> QED BY <1>4, <1>8, <2>3
<1> QED BY <1>2, <1>9, <1>10, <1>11, HangNext

-----------------------------------------------------------------------------
(* The invariant holds at the start *)

\* All slots are in the pool, in order, and nothing else is listed.
LEMMA InitHolds == ASSUME Init PROVE IInv
<1>0. NULL \notin Slots /\ Pointer = Slots \cup {0} /\ NULL = 0 /\ NSlots \in Nat \ {0}
      /\ NULL \notin Parts
  BY NullIsNoSlot, SlotsAssumption
<1>1. /\ cache_map = [s \in Slots |-> "free"] /\ vert = [s \in Slots |-> NoVertex]
      /\ neighbors.next = [s \in Slots |-> IF s = NSlots THEN NULL ELSE s + 1]
      /\ neighbors.prev = [s \in Slots |-> s - 1]
      /\ pool_head = 1 /\ local_neighbors_head = NULL
      /\ locals.head = NULL
  BY DEF Init
<1>2. \A s \in Slots : s \in Nat /\ s >= 1 /\ s <= NSlots BY <1>0 DEF Slots
<1>3. TypeInv
  <2>1. vert \in [Slots -> VertexType] BY <1>1 DEF NoVertex, VertexType
  <2>2. neighbors \in LinkType
    <3>1. \A s \in Slots : (IF s = NSlots THEN NULL ELSE s + 1) \in Pointer /\ s - 1 \in Pointer
      BY <1>0, <1>2 DEF Slots
    <3>2. neighbors.next \in [Slots -> Pointer] /\ neighbors.prev \in [Slots -> Pointer]
      BY <1>1, <3>1
    <3> QED BY <3>2 DEF Init, LinkType
  <2>3. in_partition \in LinkType /\ locals \in ListType
    BY <1>0 DEF Init, LinkType, ListType
  <2>4. pool_head \in Pointer /\ local_neighbors_head \in Pointer /\ recently_created \in Pointer
        /\ iter_curr \in Pointer
    BY <1>0 DEF Init, Slots
  <2>5. local_lists \in [Parts -> Pointer] /\ mirror_lists \in [Parts -> Pointer]
        /\ curr \in [vertex : Pointer, old_part : Parts \cup {NULL}]
    BY <1>0 DEF Init, NobodyInHand
  <2>6. cache_map \in [Slots -> {"free", "local", "mirror"}] BY <1>1
  <2>7. cut \in BOOLEAN BY DEF Init
  <2>8. buffered_changes \in Seq(Slots) /\ pc = "start_time_step" BY DEF Init
  <2> QED BY <2>1, <2>2, <2>3, <2>4, <2>5, <2>6, <2>7, <2>8 DEF TypeInv
<1>4. Holding("free") = Slots /\ Holding("local") = {} /\ Holding("mirror") = {}
  BY <1>1 DEF Holding
<1>5. Waiting = {} /\ \A p \in Parts : LocalsIn(p) = {} /\ MirrorsIn(p) = {}
  BY <1>1 DEF Waiting, LocalsIn, MirrorsIn
<1>6. [s \in Slots |-> s] \in Rank BY <1>2 DEF Rank
<1>7. \A l : l.head = NULL => Linked(l, {})
  BY <1>6 DEF Linked, Sorted, Threaded, Backed
<1>8. PoolInv
  <2>1. PICK r \in Rank : r = [s \in Slots |-> s] BY <1>6
  <2>2. \A s \in Slots : r[s] = s BY <2>1
  <2>3. PICK l : l = WithHead(neighbors, pool_head) OBVIOUS
  <2>4. l.next = neighbors.next /\ l.prev = neighbors.prev /\ l.head = 1
    BY <1>1, <2>3, HeadsAndLinks
  <2>5. 1 \in Slots BY <1>0 DEF Slots
  <2>6. \A s \in Slots : /\ l.next[s] = IF s = NSlots THEN NULL ELSE s + 1
                         /\ l.prev[s] = s - 1
    BY <1>1, <2>4
  <2>7. Threaded(l.next, l.head, Slots, r)
    <3>1. \A m \in Slots : l.next[m] \in Slots \cup {NULL}
      BY <1>0, <1>2, <2>6 DEF Slots
    <3>2. \A m \in Slots : l.head # NULL /\ r[l.head] <= r[m] BY <1>0, <1>2, <2>2, <2>4, <2>5
    <3>3. \A m \in Slots : l.next[m] # NULL => l.next[m] = m + 1 /\ m + 1 \in Slots
      BY <1>0, <1>2, <2>6, <3>1
    <3>4. \A m \in Slots : l.next[m] = NULL => m = NSlots BY <1>0, <1>2, <2>6
    <3>5. \A m, n \in Slots : l.next[m] = NULL => r[n] <= r[m] BY <1>2, <2>2, <3>4
    <3>6. \A m \in Slots : l.next[m] # NULL => r[m] < r[l.next[m]] BY <1>2, <2>2, <3>3
    <3>7. \A m, n \in Slots : l.next[m] # NULL /\ r[m] < r[n] => r[l.next[m]] <= r[n]
      BY <1>2, <2>2, <3>3
    <3>8. \A m, n \in Slots : r[m] = r[n] => m = n BY <2>2
    <3> QED BY <2>4, <2>5, <3>1, <3>2, <3>5, <3>6, <3>7, <3>8 DEF Threaded
  <2>8. Backed(l, Slots)
    <3>1. \A m \in Slots : l.prev[m] = NULL <=> m = l.head BY <1>0, <1>2, <2>4, <2>6
    <3>2. \A m \in Slots : l.prev[m] # NULL => l.prev[m] \in Slots /\ l.next[l.prev[m]] = m
      <4> SUFFICES ASSUME NEW m \in Slots, l.prev[m] # NULL
                   PROVE  l.prev[m] \in Slots /\ l.next[l.prev[m]] = m
        OBVIOUS
      <4>1. l.prev[m] = m - 1 /\ m - 1 \in Slots /\ m - 1 # NSlots /\ m \in Nat
        BY <1>0, <1>2, <2>6 DEF Slots
      <4>2. l.next[m - 1] = m - 1 + 1 BY <2>6, <4>1
      <4> QED BY <4>1, <4>2
    <3>3. \A m \in Slots : l.next[m] # NULL => l.prev[l.next[m]] = m
      <4> SUFFICES ASSUME NEW m \in Slots, l.next[m] # NULL PROVE l.prev[l.next[m]] = m
        OBVIOUS
      <4>1. l.next[m] = m + 1 /\ m + 1 \in Slots /\ m \in Nat
        BY <1>0, <1>2, <2>6 DEF Slots
      <4>2. l.prev[m + 1] = m + 1 - 1 BY <2>6, <4>1
      <4> QED BY <4>1, <4>2
    <3> QED BY <3>1, <3>2, <3>3 DEF Backed
  <2> QED BY <1>4, <2>1, <2>3, <2>7, <2>8 DEF PoolInv, Linked, Sorted
<1>9. NeighborsInv
  <2>1. Linked(NeighborList, {})
    <3>1. NeighborList.head = NULL BY <1>1, HeadsAndLinks DEF NeighborList
    <3> QED BY <3>1, <1>7
  <2>2. \A n \in Slots : cache_map[n] = "free" BY <1>1
  <2> QED BY <2>1, <2>2 DEF NeighborsInv
<1>10. LocalsInv
  <2>1. Linked(locals, {}) BY <1>1, <1>7
  <2>2. ~InPass BY DEF Init, InPass
  <2> QED BY <1>4, <2>1, <2>2 DEF LocalsInv, Linked
<1>11. PartsInv
  <2>1. \E r \in Rank : Threaded(in_partition.next, recently_created, Waiting, r)
    BY <1>5, <1>6 DEF Threaded, Init
  <2>2. \A p \in Parts : local_lists[p] = NULL /\ mirror_lists[p] = NULL BY DEF Init
  <2>3. \A p \in Parts : /\ WithHead(in_partition, local_lists[p]).head = NULL
                         /\ WithHead(in_partition, mirror_lists[p]).head = NULL
    BY <2>2, HeadsAndLinks
  <2>4. \A p \in Parts : /\ Linked(WithHead(in_partition, local_lists[p]), {})
                         /\ Linked(WithHead(in_partition, mirror_lists[p]), {})
    BY <1>7, <2>3
  <2> QED BY <1>5, <2>1, <2>4 DEF PartsInv
<1>12. VertexInv BY <1>1 DEF VertexInv
<1>13. PlaceInv BY DEF Init, PlaceInv, InHand, NobodyInHand
<1>14. ChangesInv BY DEF Init, ChangesInv
<1> QED BY <1>3, <1>8, <1>9, <1>10, <1>11, <1>12, <1>13, <1>14 DEF IInv, Init

-----------------------------------------------------------------------------
(* What a step leaves alone *)

\* The own vertices stay listed in order, and who is in front of the iterator stays so.
LEMMA LocalsKept ==
  ASSUME LocalsInv, locals' = locals, Holding("local")' = Holding("local"),
         \A n \in Slots : InPass' /\ ~cut' /\ Settled(n)' /\ n \notin visited' =>
           InPass /\ ~cut /\ Settled(n) /\ n \notin visited /\ iter_curr' = iter_curr
  PROVE  LocalsInv'
<1>1. PICK r \in Rank :
        /\ Sorted(locals, Holding("local"), r)
        /\ \A n \in Slots : InPass /\ ~cut /\ Settled(n) /\ n \notin visited =>
             iter_curr # NULL /\ r[iter_curr] <= r[n]
  BY DEF LocalsInv
<1>2. Sorted(locals', Holding("local")', r) BY <1>1
<1>3. \A n \in Slots : InPass' /\ ~cut' /\ Settled(n)' /\ n \notin visited' =>
        iter_curr' # NULL /\ r[iter_curr'] <= r[n]
  BY <1>1
<1> QED BY <1>2, <1>3 DEF LocalsInv

\* Lists of partitions stay when nobody's place changes.
LEMMA PlacesSame ==
  ASSUME PartsInv, UNCHANGED lists, cache_map' = cache_map,
         \A s \in Slots : /\ vert'[s].curr_part = vert[s].curr_part
                          /\ cache_map[s] = "local" => WhereListed(s)' = WhereListed(s)
                          /\ cache_map[s] = "mirror" => vert'[s].part = vert[s].part
  PROVE  PartsInv'
<1>1. Waiting' = Waiting BY DEF Waiting
<1>2. \A q \in Parts : LocalsIn(q)' = LocalsIn(q)
  <2> SUFFICES ASSUME NEW q \in Parts, NEW s \in Slots
               PROVE  s \in LocalsIn(q)' <=> s \in LocalsIn(q)
    BY DEF LocalsIn
  <2>1. cache_map[s] = "local" => WhereListed(s)' = WhereListed(s) OBVIOUS
  <2> QED BY <2>1 DEF LocalsIn
<1>3. \A q \in Parts : MirrorsIn(q)' = MirrorsIn(q) BY DEF MirrorsIn
<1> QED BY <1>1, <1>2, <1>3, PartsSame

\* What follows when slots, vertices, lists and the vertex in hand stay as they are
LEMMA Still ==
  ASSUME IInv, UNCHANGED <<nodes, vert, lists, curr>>
  PROVE  /\ PoolInv' /\ NeighborsInv' /\ PartsInv' /\ VertexInv'
         /\ \A n \in Slots : Settled(n)' <=> Settled(n)
         /\ Holding("local")' = Holding("local") /\ locals' = locals
<1>0. PoolInv /\ NeighborsInv /\ PartsInv /\ VertexInv BY DEF IInv
<1>1. PoolInv' /\ NeighborsInv' BY <1>0, NodesSame DEF nodes
<1>2. PartsInv'
  <2>1. \A s \in Slots : vert'[s] = vert[s] /\ WhereListed(s)' = WhereListed(s) BY DEF WhereListed
  <2> QED BY <1>0, <2>1, PlacesSame DEF nodes
<1>3. VertexInv' BY <1>0 DEF VertexInv, nodes
<1>4. \A n \in Slots : Settled(n)' <=> Settled(n) BY DEF Settled, nodes
<1>5. Holding("local")' = Holding("local") /\ locals' = locals BY DEF Holding, nodes
<1> QED BY <1>1, <1>2, <1>3, <1>4, <1>5

\* The iteration is where it was.
LEMMA PlaceSame ==
  ASSUME PlaceInv, UNCHANGED <<nodes, place, recently_created>>,
         \A s \in Slots : vert'[s].fresh = vert[s].fresh,
         HandLost => vert'[curr.vertex].part = vert[curr.vertex].part
  PROVE  PlaceInv'
<1>1. InPass' = InPass /\ InHand' = InHand BY DEF InPass, InHand, place
<1>2. /\ Settled(iter_curr) => Settled(iter_curr)'
      /\ Settled(curr.vertex) => Settled(curr.vertex)'
  BY DEF Settled, nodes, place
<1>3. IterLost => IterLost' BY DEF IterLost, GivenBack, nodes, place
<1>4. HandLost => HandLost' BY DEF HandLost, GivenBack, nodes, place
<1> QED BY <1>1, <1>2, <1>3, <1>4 DEF PlaceInv, place

-----------------------------------------------------------------------------
(* The steps *)

\* hvr_vertex_delete buffers the slot; the vertex stays.
LEMMA DeleteKeeps ==
  ASSUME IInv, NEW n \in Slots, hvr_vertex_delete(n) PROVE IInv'
<1>0. /\ TypeInv /\ LocalsInv /\ PlaceInv /\ ~aborted /\ InCallback
      /\ UNCHANGED <<nodes, vert, lists, any_needs_processing, place, aborted>>
      /\ buffered_changes' = <<n>> \o buffered_changes
  BY DEF IInv, hvr_vertex_delete
<1>1. /\ PoolInv' /\ NeighborsInv' /\ PartsInv' /\ VertexInv'
      /\ \A s \in Slots : Settled(s)' <=> Settled(s)
      /\ Holding("local")' = Holding("local") /\ locals' = locals
  BY <1>0, Still DEF place
<1>2. TypeInv'
  <2>1. buffered_changes \in Seq(Slots) BY <1>0 DEF TypeInv
  <2>2. buffered_changes' \in Seq(Slots) BY <1>0, <2>1
  <2> QED BY <1>0, <2>2 DEF TypeInv, nodes, lists, place
<1>3. LocalsInv' BY <1>0, <1>1, LocalsKept DEF place, InPass
<1>4. PlaceInv' BY <1>0, PlaceSame DEF lists
<1>5. ChangesInv'
  <2>1. pc' \in {"start_time_step", "update_metadata"} BY <1>0 DEF InCallback, place
  <2> QED BY <2>1 DEF ChangesInv
<1> QED BY <1>0, <1>1, <1>2, <1>3, <1>4, <1>5 DEF IInv

\* Steps that only say where the iteration is
LEMMA TurnKeeps ==
  ASSUME IInv, EndCallback \/ EndUpdates \/ Inserted PROVE IInv'
<1>0. /\ TypeInv /\ LocalsInv /\ PlaceInv /\ ChangesInv /\ ~aborted
      /\ UNCHANGED <<nodes, vert, lists, buffered_changes, any_needs_processing, iter_curr,
                     curr, cut, aborted>>
      /\ \/ InCallback /\ pc' = (IF pc = "start_time_step" THEN "changes_before" ELSE "changes")
            /\ visited' = visited
         \/ pc = "update_vertices" /\ iter_curr = NULL /\ pc' = "insert"
         \/ pc = "insert" /\ recently_created = NULL /\ pc' = "process_vertex_updates"
  BY DEF IInv, EndCallback, EndUpdates, Inserted
<1>1. /\ PoolInv' /\ NeighborsInv' /\ PartsInv' /\ VertexInv'
      /\ \A s \in Slots : Settled(s)' <=> Settled(s)
      /\ Holding("local")' = Holding("local") /\ locals' = locals
  BY <1>0, Still
<1>2. TypeInv' BY <1>0 DEF TypeInv, nodes, lists
<1>3. InPass' => InPass /\ visited' = visited /\ iter_curr' = iter_curr /\ cut' = cut
  BY <1>0 DEF InPass, InCallback
<1>4. LocalsInv' BY <1>0, <1>1, <1>3, LocalsKept
<1>5. PlaceInv'
  <2>1. iter_curr' # NULL => InPass' /\ Settled(iter_curr)'
    <3> SUFFICES ASSUME iter_curr' # NULL PROVE InPass' /\ Settled(iter_curr)' OBVIOUS
    <3>1. InPass /\ (Settled(iter_curr) \/ IterLost) BY <1>0 DEF PlaceInv
    <3>2. pc = "update_metadata" /\ pc' = "changes" BY <1>0, <3>1 DEF InPass, InCallback
    <3>3. ~IterLost BY <3>2 DEF IterLost
    <3> QED BY <1>0, <3>1, <3>2, <3>3 DEF InPass, Settled, nodes
  <2>2. InHand' => Settled(curr.vertex)' /\ curr'.old_part \in Parts
    <3> SUFFICES ASSUME InHand' PROVE Settled(curr.vertex)' /\ curr'.old_part \in Parts
      OBVIOUS
    <3>1. pc = "update_metadata" BY <1>0 DEF InHand, InCallback
    <3>2. curr.old_part \in Parts /\ (Settled(curr.vertex) \/ HandLost)
      BY <1>0, <3>1 DEF PlaceInv, InHand
    <3>3. ~HandLost BY <3>1 DEF HandLost
    <3> QED BY <1>0, <3>2, <3>3 DEF Settled, nodes
  <2>3. ~InHand' => curr'.vertex = NULL BY <1>0 DEF PlaceInv, InHand, InCallback
  <2>4. pc' = "process_vertex_updates" => recently_created' = NULL
    BY <1>0 DEF lists, InCallback
  <2> QED BY <2>1, <2>2, <2>3, <2>4 DEF PlaceInv
<1>6. ChangesInv'
  <2>1. buffered_changes # <<>> =>
          pc' \in {"start_time_step", "changes_before", "update_metadata", "changes"}
    BY <1>0 DEF ChangesInv, InCallback
  <2> QED BY <1>0, <2>1 DEF ChangesInv
<1> QED BY <1>0, <1>1, <1>2, <1>4, <1>5, <1>6 DEF IInv

\* BeginUpdates puts the iterator at the first vertex that is not of this iteration.
LEMMA BeginKeeps ==
  ASSUME IInv, BeginUpdates PROVE IInv'
<1>0. /\ TypeInv /\ LocalsInv /\ PlaceInv /\ ~aborted
      /\ UNCHANGED <<nodes, vert, lists, buffered_changes, curr, visited, aborted>>
      /\ pc = "changes_before" /\ buffered_changes = <<>> /\ cut' = FALSE
      /\ pc' = IF any_needs_processing THEN "update_vertices" ELSE "insert"
      /\ iter_curr' = IF any_needs_processing THEN SeekToValid(locals.head) ELSE NULL
  BY DEF IInv, BeginUpdates
<1>1. /\ PoolInv' /\ NeighborsInv' /\ PartsInv' /\ VertexInv'
      /\ \A s \in Slots : Settled(s)' <=> Settled(s)
      /\ Holding("local")' = Holding("local") /\ locals' = locals
  BY <1>0, Still
<1>2. NULL \notin Slots /\ NULL \in Pointer /\ Slots \subseteq Pointer BY NullIsNoSlot
<1>3. PICK r \in Rank : Sorted(locals, Holding("local"), r) BY <1>0 DEF LocalsInv
<1>4. PICK found : found = SeekToValid(locals.head) OBVIOUS
<1>5. /\ found \in Holding("local") \cup {NULL}
      /\ found # NULL => ~vert[found].fresh
      /\ \A m \in Holding("local") : ~vert[m].fresh => found # NULL /\ r[found] <= r[m]
  <2>1. PICK S \in SUBSET Slots : S = Holding("local") BY DEF Holding
  <2>2. Threaded(locals.next, locals.head, S, r) BY <1>3, <2>1 DEF Sorted
  <2>3. locals.head \in S \cup {NULL} /\ \A m \in S : locals.head # NULL /\ r[locals.head] <= r[m]
    BY <2>2 DEF Threaded
  <2>4. /\ SeekToValid(locals.head) \in S \cup {NULL}
        /\ SeekToValid(locals.head) # NULL => ~vert[SeekToValid(locals.head)].fresh
        /\ \A m \in S : locals.head # NULL /\ r[locals.head] <= r[m] /\ ~vert[m].fresh =>
             SeekToValid(locals.head) # NULL /\ r[SeekToValid(locals.head)] <= r[m]
    BY <2>2, <2>3, SeekFinds
  <2> QED BY <1>4, <2>1, <2>3, <2>4
<1>6. iter_curr' \in Pointer
  <2>1. found \in Pointer BY <1>2, <1>5 DEF Holding
  <2> QED BY <1>0, <1>2, <1>4, <2>1
<1>7. TypeInv' BY <1>0, <1>6 DEF TypeInv, nodes, lists
<1>8. LocalsInv'
  <2>1. \A n \in Slots : InPass' /\ ~cut' /\ Settled(n)' /\ n \notin visited' =>
          iter_curr' # NULL /\ r[iter_curr'] <= r[n]
    <3> SUFFICES ASSUME NEW n \in Slots, InPass', Settled(n)'
                 PROVE  iter_curr' # NULL /\ r[iter_curr'] <= r[n]
      OBVIOUS
    <3>1. iter_curr' = found BY <1>0, <1>4 DEF InPass
    <3>2. n \in Holding("local") /\ ~vert[n].fresh BY <1>1 DEF Settled, Holding
    <3> QED BY <1>5, <3>1, <3>2
  <2>2. Sorted(locals', Holding("local")', r) BY <1>1, <1>3
  <2> QED BY <2>1, <2>2 DEF LocalsInv
<1>9. PlaceInv'
  <2>1. iter_curr' # NULL => InPass' /\ Settled(iter_curr)'
    <3> SUFFICES ASSUME iter_curr' # NULL PROVE InPass' /\ Settled(iter_curr)' OBVIOUS
    <3>1. iter_curr' = found /\ InPass' BY <1>0, <1>4 DEF InPass
    <3>2. Settled(found) BY <1>5, <3>1 DEF Settled, Holding
    <3> QED BY <1>1, <3>1, <3>2 DEF Settled
  <2> QED BY <1>0, <2>1 DEF PlaceInv, InHand
<1>10. ChangesInv' BY <1>0 DEF ChangesInv
<1> QED BY <1>0, <1>1, <1>7, <1>8, <1>9, <1>10 DEF IInv

\* NextVertex: the iterator moves to the next vertex that is not of this iteration.
LEMMA NextVertexKeeps ==
  ASSUME IInv, NextVertex, ~astray' PROVE IInv'
<1>0. /\ TypeInv /\ LocalsInv /\ PartsInv /\ VertexInv /\ PlaceInv /\ ChangesInv /\ ~aborted
      /\ UNCHANGED <<nodes, lists, buffered_changes, any_needs_processing, cut, aborted>>
      /\ pc = "update_vertices" /\ iter_curr # NULL
      /\ iter_curr' = SeekToValid(locals.next[iter_curr])
      /\ visited' = visited \cup {iter_curr}
      /\ vert \in [Slots -> VertexType]
  BY DEF IInv, NextVertex, TypeInv
<1>1. NULL \notin Slots /\ NULL \in Pointer /\ Slots \subseteq Pointer BY NullIsNoSlot
<1>2. PICK n \in Slots : n = iter_curr /\ (Settled(n) \/ IterLost)
  BY <1>0 DEF PlaceInv, Settled, IterLost, GivenBack
<1>3. \/ /\ pc' = "update_metadata" /\ Settled(n)
         /\ curr' = [vertex |-> n, old_part |-> vert[n].part]
         /\ vert' = [vert EXCEPT ![n].needs_processing = FALSE]
      \/ pc' = pc /\ curr' = curr /\ vert' = vert
  <2>1. CASE vert[n].needs_processing
    <3>1. cache_map[n] = "local" BY <1>2, <2>1 DEF NextVertex
    <3>2. Settled(n) BY <1>2, <3>1 DEF IterLost, GivenBack
    <3> QED BY <1>2, <2>1, <3>2 DEF NextVertex
  <2>2. CASE ~vert[n].needs_processing BY <1>2, <2>2 DEF NextVertex
  <2> QED BY <2>1, <2>2
<1>4. \A s \in Slots : /\ vert'[s] \in VertexType /\ vert'[s].part = vert[s].part
                       /\ vert'[s].curr_part = vert[s].curr_part /\ vert'[s].fresh = vert[s].fresh
  <2>1. CASE vert' = vert BY <1>0, <2>1
  <2>2. CASE vert' = [vert EXCEPT ![n].needs_processing = FALSE]
    <3>1. /\ vert'[n] = [vert[n] EXCEPT !.needs_processing = FALSE]
          /\ \A s \in Slots : s # n => vert'[s] = vert[s]
      BY <1>0, <2>2
    <3>2. vert[n] \in VertexType BY <1>0
    <3>3. /\ vert'[n] \in VertexType /\ vert'[n].part = vert[n].part
          /\ vert'[n].curr_part = vert[n].curr_part /\ vert'[n].fresh = vert[n].fresh
      BY <3>1, <3>2 DEF VertexType
    <3> QED BY <1>0, <3>1, <3>3
  <2> QED BY <1>3, <2>1, <2>2
<1>5. vert' \in [Slots -> VertexType]
  <2>1. vert' = [s \in Slots |-> vert'[s]] BY <1>0, <1>3
  <2> QED BY <1>4, <2>1
<1>6. /\ \A s \in Slots : Settled(s)' <=> Settled(s)
      /\ Holding("local")' = Holding("local") /\ locals' = locals /\ cache_map' = cache_map
  BY <1>0, <1>4 DEF Settled, Holding, nodes
<1>7. PICK r \in Rank :
        /\ Sorted(locals, Holding("local"), r)
        /\ \A m \in Slots : InPass /\ ~cut /\ Settled(m) /\ m \notin visited => r[iter_curr] <= r[m]
  BY <1>0 DEF LocalsInv
<1>8. PICK found : found = SeekToValid(locals.next[n]) OBVIOUS
<1>9. /\ found \in Holding("local") \cup {NULL}
      /\ found # NULL => ~vert[found].fresh
      /\ Settled(n) => \A m \in Holding("local") : r[n] <= r[m] /\ m # n /\ ~vert[m].fresh =>
           found # NULL /\ r[found] <= r[m]
  <2>1. PICK S \in SUBSET Slots : S = Holding("local") BY DEF Holding
  <2>2. Threaded(locals.next, locals.head, S, r) BY <1>7, <2>1 DEF Sorted
  <2>3. PICK k : k = locals.next[n] OBVIOUS
  <2>4. Settled(n) => n \in S BY <1>2, <2>1 DEF Settled, Holding
  <2>5. k \in S \cup {NULL}
    <3>1. CASE Settled(n) BY <2>2, <2>3, <2>4, <3>1 DEF Threaded
    <3>2. CASE IterLost BY <1>2, <2>3, <3>2 DEF IterLost
    <3> QED BY <1>2, <3>1, <3>2
  <2>6. Settled(n) => \A m \in S : r[n] <= r[m] /\ m # n => k # NULL /\ r[k] <= r[m]
    <3> SUFFICES ASSUME Settled(n), NEW m \in S, r[n] <= r[m], m # n
                 PROVE  k # NULL /\ r[k] <= r[m]
      OBVIOUS
    <3>1. r[n] \in Int /\ r[m] \in Int /\ r[n] # r[m] BY <2>2, <2>4 DEF Rank, Threaded
    <3>2. r[n] < r[m] BY <3>1
    <3>3. ~(r[m] <= r[n]) BY <3>1, <3>2
    <3>4. k # NULL BY <2>2, <2>3, <2>4, <3>3 DEF Threaded
    <3> QED BY <2>2, <2>3, <2>4, <3>2, <3>4 DEF Threaded
  <2>7. /\ SeekToValid(k) \in S \cup {NULL}
        /\ SeekToValid(k) # NULL => ~vert[SeekToValid(k)].fresh
        /\ \A m \in S : k # NULL /\ r[k] <= r[m] /\ ~vert[m].fresh =>
             SeekToValid(k) # NULL /\ r[SeekToValid(k)] <= r[m]
    BY <2>2, <2>5, SeekFinds
  <2> QED BY <1>8, <2>1, <2>3, <2>6, <2>7
<1>10. iter_curr' = found BY <1>0, <1>2, <1>8
<1>11. InPass /\ InPass' /\ curr.vertex = NULL BY <1>0, <1>3 DEF InPass, PlaceInv, InHand
<1>12. TypeInv'
  <2>1. iter_curr' \in Pointer BY <1>1, <1>9, <1>10 DEF Holding
  <2>2. curr' \in [vertex : Pointer, old_part : Parts \cup {NULL}]
    <3>1. curr \in [vertex : Pointer, old_part : Parts \cup {NULL}] BY <1>0 DEF TypeInv
    <3>2. vert[n].part \in Parts \cup {NULL}
      <4>1. vert[n] \in VertexType BY <1>0
      <4> QED BY <4>1 DEF VertexType
    <3> QED BY <3>1, <3>2, <1>1, <1>2, <1>3
  <2>3. pc' \in {"update_vertices", "update_metadata"} BY <1>0, <1>3
  <2> QED BY <1>0, <1>5, <2>1, <2>2, <2>3 DEF TypeInv, nodes, lists
<1>13. PoolInv' /\ NeighborsInv' BY <1>0, NodesSame DEF IInv, nodes
<1>14. LocalsInv'
  <2>1. \A m \in Slots : InPass' /\ ~cut' /\ Settled(m)' /\ m \notin visited' =>
          iter_curr' # NULL /\ r[iter_curr'] <= r[m]
    <3> SUFFICES ASSUME ~cut', NEW m \in Slots, Settled(m)', m \notin visited'
                 PROVE  iter_curr' # NULL /\ r[iter_curr'] <= r[m]
      OBVIOUS
    <3>0. Settled(n) /\ ~cut BY <1>0, <1>2 DEF IterLost
    <3>1. Settled(m) /\ m \notin visited /\ m # n BY <1>0, <1>2, <1>6
    <3>2. r[n] <= r[m] BY <1>2, <1>7, <1>11, <3>0, <3>1
    <3>3. m \in Holding("local") /\ ~vert[m].fresh BY <3>1 DEF Settled, Holding
    <3> QED BY <1>9, <1>10, <3>0, <3>1, <3>2, <3>3
  <2>2. Sorted(locals', Holding("local")', r) BY <1>6, <1>7
  <2> QED BY <2>1, <2>2 DEF LocalsInv
<1>15. PartsInv'
  <2>1. \A s \in Slots : WhereListed(s)' = WhereListed(s)
    <3>1. \A s \in Slots : WhereListed(s) = vert[s].part BY <1>1, <1>11 DEF WhereListed
    <3>2. CASE curr' = curr BY <3>1, <3>2, <1>1, <1>4, <1>11 DEF WhereListed
    <3>3. CASE curr' = [vertex |-> n, old_part |-> vert[n].part]
      BY <3>1, <3>3, <1>4 DEF WhereListed
    <3> QED BY <3>2, <3>3, <1>3
  <2> QED BY <1>0, <1>4, <1>6, <2>1, PlacesSame
<1>16. VertexInv' BY <1>0, <1>4, <1>6 DEF VertexInv
<1>17. PlaceInv'
  <2>1. iter_curr' # NULL => InPass' /\ Settled(iter_curr)'
    <3> SUFFICES ASSUME found # NULL PROVE Settled(iter_curr)' BY <1>10, <1>11
    <3>1. Settled(found) BY <1>9 DEF Settled, Holding
    <3>2. Settled(found)' BY <1>6, <3>1 DEF Settled
    <3> QED BY <1>10, <3>2 DEF Settled
  <2>2. InHand' => Settled(curr.vertex)' /\ curr'.old_part \in Parts
    <3> SUFFICES ASSUME InHand' PROVE Settled(curr.vertex)' /\ curr'.old_part \in Parts
      OBVIOUS
    <3>1. Settled(n) /\ curr' = [vertex |-> n, old_part |-> vert[n].part]
      BY <1>0, <1>3 DEF InHand
    <3>2. Settled(n)' BY <1>6, <3>1
    <3>3. vert[n].part \in Parts BY <1>0, <3>1 DEF Settled, VertexInv
    <3> QED BY <3>1, <3>2, <3>3 DEF Settled
  <2>3. ~InHand' => curr'.vertex = NULL BY <1>3, <1>11 DEF InHand
  <2>4. pc' # "process_vertex_updates" BY <1>0, <1>3
  <2> QED BY <2>1, <2>2, <2>3, <2>4 DEF PlaceInv
<1>18. ChangesInv' BY <1>0 DEF ChangesInv
<1> QED BY <1>0, <1>12, <1>13, <1>14, <1>15, <1>16, <1>17, <1>18 DEF IInv

\* Steps that change what a vertex says of itself, not where it is
LEMMA VertexKeeps ==
  ASSUME IInv,
         UNCHANGED <<nodes, lists, buffered_changes, place, aborted>>,
         any_needs_processing' \in {any_needs_processing, TRUE},
         vert' \in [Slots -> VertexType],
         \A s \in Slots : /\ vert'[s].curr_part = vert[s].curr_part /\ vert'[s].fresh = vert[s].fresh
                          /\ vert'[s].part = vert[s].part \/
                               (s = curr.vertex /\ cache_map[s] = "local" /\ vert'[s].part \in Parts)
  PROVE  IInv'
<1>0. /\ TypeInv /\ LocalsInv /\ PartsInv /\ VertexInv /\ PlaceInv /\ ChangesInv /\ ~aborted
      /\ PoolInv /\ NeighborsInv
  BY DEF IInv
<1>1. /\ \A s \in Slots : Settled(s)' <=> Settled(s)
      /\ Holding("local")' = Holding("local") /\ locals' = locals /\ cache_map' = cache_map
  BY DEF Settled, Holding, nodes
<1>2. TypeInv' BY <1>0 DEF TypeInv, nodes, lists, place
<1>3. PoolInv' /\ NeighborsInv' BY <1>0, NodesSame DEF nodes
<1>4. LocalsInv' BY <1>0, <1>1, LocalsKept DEF place, InPass
<1>5. PartsInv'
  <2>1. \A s \in Slots : WhereListed(s)' = WhereListed(s) BY DEF WhereListed, place
  <2>2. \A s \in Slots : cache_map[s] = "mirror" => vert'[s].part = vert[s].part OBVIOUS
  <2> QED BY <1>0, <1>1, <2>1, <2>2, PlacesSame
<1>6. VertexInv' BY <1>0, <1>1 DEF VertexInv
<1>7. PlaceInv'
  <2>1. HandLost => vert'[curr.vertex].part = vert[curr.vertex].part
    BY DEF HandLost, GivenBack
  <2> QED BY <1>0, <2>1, PlaceSame DEF lists
<1>8. ChangesInv' BY <1>0 DEF ChangesInv, place
<1> QED BY <1>0, <1>2, <1>3, <1>4, <1>5, <1>6, <1>7, <1>8 DEF IInv

\* hvr_vertex_set changes the vertex in hand.
LEMMA SetKeeps ==
  ASSUME IInv, NEW part \in Parts, hvr_vertex_set(part) PROVE IInv'
<1>0. vert \in [Slots -> VertexType] BY DEF IInv, TypeInv
<1>1. PICK n \in Slots : n = curr.vertex /\ cache_map[n] = "local"
  BY DEF IInv, PlaceInv, InHand, HandLost, Settled, hvr_vertex_set
<1>2. vert' = [vert EXCEPT ![n].part = part] BY <1>1 DEF hvr_vertex_set
<1>3. vert'[n] = [vert[n] EXCEPT !.part = part] /\ \A s \in Slots : s # n => vert'[s] = vert[s]
  BY <1>0, <1>2
<1>4. vert[n] \in VertexType BY <1>0
<1>5. vert'[n] \in VertexType /\ vert'[n].part = part /\ vert'[n].curr_part = vert[n].curr_part
      /\ vert'[n].fresh = vert[n].fresh
  BY <1>3, <1>4 DEF VertexType
<1>6. vert' \in [Slots -> VertexType]
  <2>1. vert' = [s \in Slots |-> vert'[s]] BY <1>0, <1>2
  <2>2. \A s \in Slots : vert'[s] \in VertexType BY <1>0, <1>3, <1>5
  <2> QED BY <2>1, <2>2
<1>7. UNCHANGED <<nodes, lists, buffered_changes, any_needs_processing, place, aborted>>
  BY DEF hvr_vertex_set
<1>8. \A s \in Slots : /\ vert'[s].curr_part = vert[s].curr_part /\ vert'[s].fresh = vert[s].fresh
                       /\ vert'[s].part = vert[s].part \/
                            (s = curr.vertex /\ cache_map[s] = "local" /\ vert'[s].part \in Parts)
  BY <1>1, <1>3, <1>5
<1> QED BY <1>6, <1>7, <1>8, VertexKeeps

\* mark_for_processing marks an own vertex.
LEMMA MarkKeeps ==
  ASSUME IInv, NEW n \in Slots, mark_for_processing(n) PROVE IInv'
<1>0. vert \in [Slots -> VertexType] BY DEF IInv, TypeInv
<1>1. vert' = [vert EXCEPT ![n].needs_processing = TRUE] BY DEF mark_for_processing
<1>2. vert'[n] = [vert[n] EXCEPT !.needs_processing = TRUE]
      /\ \A s \in Slots : s # n => vert'[s] = vert[s]
  BY <1>0, <1>1
<1>3. vert[n] \in VertexType BY <1>0
<1>4. vert'[n] \in VertexType /\ vert'[n].part = vert[n].part
      /\ vert'[n].curr_part = vert[n].curr_part /\ vert'[n].fresh = vert[n].fresh
  BY <1>2, <1>3 DEF VertexType
<1>5. vert' \in [Slots -> VertexType]
  <2>1. vert' = [s \in Slots |-> vert'[s]] BY <1>0, <1>1
  <2>2. \A s \in Slots : vert'[s] \in VertexType BY <1>0, <1>2, <1>4
  <2> QED BY <2>1, <2>2
<1>6. UNCHANGED <<nodes, lists, buffered_changes, place, aborted>> /\ any_needs_processing' = TRUE
  BY DEF mark_for_processing
<1>7. \A s \in Slots : /\ vert'[s].curr_part = vert[s].curr_part /\ vert'[s].fresh = vert[s].fresh
                       /\ vert'[s].part = vert[s].part
  BY <1>2, <1>4
<1> QED BY <1>5, <1>6, <1>7, VertexKeeps

\* EndIteration: no vertex is of this iteration any more; none is waiting then.
LEMMA EndKeeps ==
  ASSUME IInv, EndIteration PROVE IInv'
<1>0. /\ TypeInv /\ LocalsInv /\ PartsInv /\ VertexInv /\ PlaceInv /\ ChangesInv /\ ~aborted
      /\ PoolInv /\ NeighborsInv /\ vert \in [Slots -> VertexType]
      /\ UNCHANGED <<nodes, lists, buffered_changes, any_needs_processing, iter_curr, curr,
                     visited, cut, aborted>>
      /\ pc = "process_vertex_updates" /\ pc' = "start_time_step"
      /\ vert' = [s \in Slots |-> [vert[s] EXCEPT !.fresh = FALSE]]
  BY DEF IInv, EndIteration, Receiving, TypeInv
<1>1. \A s \in Slots : /\ vert'[s] \in VertexType /\ vert'[s].part = vert[s].part
                       /\ vert'[s].curr_part = vert[s].curr_part /\ ~vert'[s].fresh
  <2> SUFFICES ASSUME NEW s \in Slots
               PROVE  /\ vert'[s] \in VertexType /\ vert'[s].part = vert[s].part
                      /\ vert'[s].curr_part = vert[s].curr_part /\ ~vert'[s].fresh
    OBVIOUS
  <2>1. vert'[s] = [vert[s] EXCEPT !.fresh = FALSE] BY <1>0
  <2>2. vert[s] \in VertexType BY <1>0
  <2> QED BY <2>1, <2>2 DEF VertexType
<1>2. vert' \in [Slots -> VertexType]
  <2>1. vert' = [s \in Slots |-> vert'[s]] BY <1>0
  <2> QED BY <1>1, <2>1
<1>3. ~InPass' /\ ~InHand /\ ~InHand' BY <1>0 DEF InPass, InHand
<1>4. TypeInv' BY <1>0, <1>2 DEF TypeInv, nodes, lists
<1>5. PoolInv' /\ NeighborsInv' BY <1>0, NodesSame DEF nodes
<1>6. LocalsInv'
  <2>1. Holding("local")' = Holding("local") /\ locals' = locals BY <1>0 DEF Holding, nodes
  <2> QED BY <1>0, <1>3, <2>1, LocalsKept
<1>7. PartsInv'
  <2>1. \A s \in Slots : WhereListed(s)' = WhereListed(s) BY <1>0, <1>1 DEF WhereListed
  <2> QED BY <1>0, <1>1, <2>1, PlacesSame DEF nodes
<1>8. Waiting = {}
  <2>1. PICK r \in Rank : Threaded(in_partition.next, recently_created, Waiting, r)
    BY <1>0 DEF PartsInv
  <2>2. recently_created = NULL BY <1>0 DEF PlaceInv
  <2> QED BY <2>1, <2>2 DEF Threaded
<1>9. VertexInv'
  <2>1. \A s \in Slots : cache_map[s] = "local" => vert[s].curr_part # NULL BY <1>8 DEF Waiting
  <2> QED BY <1>0, <1>1, <2>1 DEF VertexInv, nodes
<1>10. PlaceInv'
  <2>1. iter_curr = NULL /\ curr.vertex = NULL BY <1>0 DEF PlaceInv, InPass, InHand
  <2> QED BY <1>0, <1>3, <2>1 DEF PlaceInv
<1>11. ChangesInv' BY <1>0 DEF ChangesInv
<1> QED BY <1>0, <1>4, <1>5, <1>6, <1>7, <1>9, <1>10, <1>11 DEF IInv

\* hvr_vertex_create takes a slot from the pool, in front of all own vertices: the
\* iterator does not come by it in this pass.
LEMMA CreateKeeps ==
  ASSUME IInv, NEW part \in Parts, hvr_vertex_create(part) PROVE IInv'
<1>0. /\ TypeInv /\ LocalsInv /\ VertexInv /\ PlaceInv /\ ChangesInv /\ ~aborted
      /\ PoolInv /\ NeighborsInv /\ vert \in [Slots -> VertexType] /\ locals \in ListType
      /\ cache_map \in [Slots -> {"free", "local", "mirror"}] /\ in_partition \in LinkType
      /\ recently_created \in Pointer
  BY DEF IInv, TypeInv
<1>1. PICK n \in Slots : n = pool_head /\ cache_map[n] = "free"
  BY PoolHead DEF hvr_vertex_create
<1>2. /\ InCallback /\ pool_head # NULL /\ Take(pool_head)
      /\ cache_map' = [cache_map EXCEPT ![n] = "local"]
      /\ vert' = [vert EXCEPT ![n] = [part |-> part, curr_part |-> NULL, fresh |-> TRUE,
                                      needs_processing |-> TRUE]]
      /\ locals' = Prepend(locals, n)
      /\ in_partition' = [next |-> [in_partition.next EXCEPT ![n] = recently_created],
                          prev |-> [in_partition.prev EXCEPT ![n] = NULL]]
      /\ recently_created' = n /\ any_needs_processing' = TRUE
      /\ UNCHANGED <<local_neighbors_head, local_lists, mirror_lists, buffered_changes, place,
                     aborted>>
  BY <1>1 DEF hvr_vertex_create
<1>3. NULL \in Pointer /\ NULL \notin Slots /\ Slots \subseteq Pointer BY NullIsNoSlot
<1>4. /\ cache_map' \in [Slots -> {"free", "local", "mirror"}] /\ neighbors' \in LinkType
      /\ pool_head' \in Pointer /\ PoolInv' /\ NeighborsInv'
  <2>1. cache_map' = [cache_map EXCEPT ![pool_head] = "local"] BY <1>1, <1>2
  <2> QED BY <1>0, <1>2, <2>1, TakeKeeps
<1>5. \A s \in Slots : cache_map'[s] = IF s = n THEN "local" ELSE cache_map[s] BY <1>0, <1>2
<1>6. /\ vert' \in [Slots -> VertexType]
      /\ vert'[n].fresh /\ vert'[n].part = part
      /\ \A s \in Slots : s # n => vert'[s] = vert[s]
  <2>1. [part |-> part, curr_part |-> NULL, fresh |-> TRUE, needs_processing |-> TRUE] \in VertexType
    BY DEF VertexType
  <2> QED BY <1>0, <1>2, <2>1
<1>7. \A s \in Slots : Settled(s)' <=> Settled(s) /\ s # n
  BY <1>1, <1>5, <1>6 DEF Settled
<1>8. PICK r \in Rank :
        /\ Sorted(locals, Holding("local"), r)
        /\ \A s \in Slots : InPass /\ ~cut /\ Settled(s) /\ s \notin visited =>
             iter_curr # NULL /\ r[iter_curr] <= r[s]
  BY <1>0 DEF LocalsInv
<1>9. PICK q : q = Lowered(r, locals.head, n) OBVIOUS
<1>10. /\ locals' \in ListType /\ q \in Rank
       /\ Sorted(locals', Holding("local")', q)
       /\ \A s \in Slots : s # n => q[s] = r[s]
  <2>1. PICK S \in SUBSET Slots : S = Holding("local") BY DEF Holding
  <2>2. n \in Slots \ S BY <1>1, <2>1 DEF Holding
  <2>3. Holding("local")' = S \cup {n} BY <1>5, <2>1 DEF Holding
  <2>4. PICK l \in ListType : l = locals BY <1>0
  <2>5. /\ Prepend(l, n) \in ListType /\ Lowered(r, l.head, n) \in Rank
        /\ Sorted(Prepend(l, n), S \cup {n}, Lowered(r, l.head, n))
    <3>1. Sorted(l, S, r) BY <1>8, <2>1, <2>4
    <3> QED BY <3>1, <2>2, SortedPrepend
  <2>6. \A s \in Slots : s # n => Lowered(r, l.head, n)[s] = r[s] BY DEF Lowered, Rank
  <2> QED BY <1>2, <1>9, <2>3, <2>4, <2>5, <2>6
<1>11. LocalsInv'
  <2>1. \A s \in Slots : InPass' /\ ~cut' /\ Settled(s)' /\ s \notin visited' =>
          iter_curr' # NULL /\ q[iter_curr'] <= q[s]
    <3> SUFFICES ASSUME NEW s \in Slots, InPass', ~cut', Settled(s)', s \notin visited'
                 PROVE  iter_curr' # NULL /\ q[iter_curr'] <= q[s]
      OBVIOUS
    <3>1. InPass /\ ~cut /\ Settled(s) /\ s \notin visited /\ s # n /\ iter_curr' = iter_curr
      BY <1>2, <1>7 DEF InPass, place
    <3>2. iter_curr # NULL /\ r[iter_curr] <= r[s] BY <1>8, <3>1
    <3>3. iter_curr \in Slots /\ iter_curr # n
      BY <1>0, <1>1, <3>1, <3>2 DEF PlaceInv, Settled, IterLost
    <3> QED BY <1>10, <3>1, <3>2, <3>3
  <2> QED BY <1>10, <2>1 DEF LocalsInv
<1>12. in_partition' \in LinkType
  <2>1. /\ in_partition.next \in [Slots -> Pointer] /\ in_partition.prev \in [Slots -> Pointer]
    BY <1>0 DEF LinkType
  <2>2. /\ [in_partition.next EXCEPT ![n] = recently_created] \in [Slots -> Pointer]
        /\ [in_partition.prev EXCEPT ![n] = NULL] \in [Slots -> Pointer]
    BY <1>0, <1>3, <2>1, OneLink
  <2> QED BY <1>2, <2>2 DEF LinkType
<1>13. TypeInv'
  <2>1. recently_created' \in Pointer BY <1>2, <1>3
  <2> QED BY <1>0, <1>2, <1>4, <1>6, <1>10, <1>12, <2>1 DEF TypeInv, place
<1>14. PartsInv' BY CreateHangs
<1>15. VertexInv' BY <1>0, <1>5, <1>6 DEF VertexInv
<1>16. PlaceInv'
  <2>0. ~IterLost /\ ~HandLost BY <1>2 DEF IterLost, HandLost, InCallback
  <2>1. iter_curr # NULL => InPass /\ Settled(iter_curr) /\ iter_curr # n
    BY <1>0, <1>1, <2>0 DEF PlaceInv, Settled
  <2>2. InHand => Settled(curr.vertex) /\ curr.old_part \in Parts /\ curr.vertex # n
    BY <1>0, <1>1, <2>0 DEF PlaceInv, Settled
  <2>3. iter_curr' # NULL => InPass' /\ Settled(iter_curr)'
    BY <1>2, <1>7, <2>1 DEF InPass, place, Settled
  <2>4. InHand' => Settled(curr.vertex)' /\ curr'.old_part \in Parts
    BY <1>2, <1>7, <2>2 DEF InHand, place, Settled
  <2>5. ~InHand' => curr'.vertex = NULL BY <1>0, <1>2 DEF InHand, place, PlaceInv
  <2>6. pc' # "process_vertex_updates" BY <1>2 DEF InCallback, place
  <2> QED BY <2>3, <2>4, <2>5, <2>6 DEF PlaceInv
<1>17. ChangesInv' BY <1>0, <1>2 DEF ChangesInv, place
<1> QED BY <1>0, <1>2, <1>4, <1>11, <1>13, <1>14, <1>15, <1>16, <1>17 DEF IInv

\* process_buffered_change takes a vertex out of all lists and gives its slot back.
LEMMA ChangeKeeps ==
  ASSUME IInv, process_buffered_change, ~astray' PROVE IInv'
<1>0. /\ TypeInv /\ LocalsInv /\ VertexInv /\ PlaceInv /\ ChangesInv /\ ~aborted
      /\ PoolInv /\ NeighborsInv /\ locals \in ListType /\ buffered_changes \in Seq(Slots)
      /\ cache_map \in [Slots -> {"free", "local", "mirror"}] /\ buffered_changes # <<>>
  BY DEF IInv, TypeInv, process_buffered_change
<1>1. PICK n \in Slots : /\ n = Head(buffered_changes) /\ Settled(n)
                         /\ n = curr.vertex => vert[n].part = curr.old_part
  BY <1>0, DeletedIsListed DEF Settled
<1>2. /\ aborted' = ~(/\ HeadIsRight(WithHead(in_partition, local_lists[vert[n].part]), n)
                      /\ RemoveIsRight(locals, n) /\ RemoveIsRight(NeighborList, n))
      /\ locals' = RemoveIfIn(locals, n)
      /\ cache_map' = [cache_map EXCEPT ![n] = "free"]
      /\ Give(n)
      /\ buffered_changes' = Tail(buffered_changes)
      /\ cut' = (cut \/ n = iter_curr)
      /\ UNCHANGED <<vert, mirror_lists, recently_created, any_needs_processing, pc, iter_curr,
                     curr, visited>>
      /\ pc \in {"changes_before", "changes"}
  BY <1>1 DEF process_buffered_change, AssertThat
<1>3. /\ PartsInv' /\ in_partition' \in LinkType /\ local_lists' \in [Parts -> Pointer]
      /\ HeadIsRight(WithHead(in_partition, local_lists[vert[n].part]), n)
  BY <1>1, DeleteHangs
<1>4. /\ cache_map' \in [Slots -> {"free", "local", "mirror"}] /\ neighbors' \in LinkType
      /\ pool_head' \in Pointer /\ local_neighbors_head' \in Pointer
      /\ RemoveIsRight(NeighborList, n) /\ PoolInv' /\ NeighborsInv'
  <2>1. cache_map[n] # "free" BY <1>1 DEF Settled
  <2> QED BY <1>0, <1>2, <2>1, GiveKeeps
<1>5. \A s \in Slots : cache_map'[s] = IF s = n THEN "free" ELSE cache_map[s] BY <1>0, <1>2
<1>6. \A s \in Slots : Settled(s)' <=> Settled(s) /\ s # n BY <1>2, <1>5 DEF Settled
<1>7. PICK r \in Rank :
        /\ Sorted(locals, Holding("local"), r)
        /\ \A s \in Slots : InPass /\ ~cut /\ Settled(s) /\ s \notin visited =>
             iter_curr # NULL /\ r[iter_curr] <= r[s]
  BY <1>0 DEF LocalsInv
<1>8. /\ locals' \in ListType /\ Sorted(locals', Holding("local")', r)
      /\ RemoveIsRight(locals, n) /\ locals'.next[n] = NULL
      /\ \A s \in Slots : cache_map[s] # "local" => locals'.next[s] = locals.next[s]
  <2>1. PICK S \in SUBSET Slots : S = Holding("local") BY DEF Holding
  <2>2. n \in S BY <1>1, <2>1 DEF Holding, Settled
  <2>3. Holding("local")' = S \ {n} BY <1>5, <2>1 DEF Holding
  <2>4. PICK l \in ListType : l = locals BY <1>0
  <2>5. /\ RemoveIfIn(l, n) \in ListType /\ Sorted(RemoveIfIn(l, n), S \ {n}, r)
        /\ RemoveIsRight(l, n) /\ RemoveIfIn(l, n).next[n] = NULL
        /\ \A s \in Slots \ S : RemoveIfIn(l, n).next[s] = l.next[s]
    <3>1. Sorted(l, S, r) BY <1>7, <2>1, <2>4
    <3> QED BY <3>1, <2>2, SortedRemove
  <2>6. \A s \in Slots : cache_map[s] # "local" => s \in Slots \ S BY <2>1 DEF Holding
  <2> QED BY <1>2, <2>3, <2>4, <2>5, <2>6
<1>9. LocalsInv'
  <2>1. \A s \in Slots : InPass' /\ ~cut' /\ Settled(s)' /\ s \notin visited' =>
          iter_curr' # NULL /\ r[iter_curr'] <= r[s]
    BY <1>2, <1>6, <1>7 DEF InPass
  <2> QED BY <1>8, <2>1 DEF LocalsInv
<1>10. buffered_changes' \in Seq(Slots) BY <1>0, <1>2
<1>11. TypeInv' BY <1>0, <1>2, <1>3, <1>4, <1>8, <1>10 DEF TypeInv
<1>12. VertexInv' BY <1>0, <1>2, <1>5 DEF VertexInv
<1>13. PlaceInv'
  <2>1. cache_map'[n] = "free" /\ vert' = vert BY <1>2, <1>5
  <2>2. ASSUME iter_curr' # NULL PROVE InPass' /\ (Settled(iter_curr)' \/ IterLost')
    <3>1. InPass /\ (Settled(iter_curr) \/ IterLost) BY <1>0, <1>2, <2>2 DEF PlaceInv
    <3>2. InPass' /\ pc' = "changes" BY <1>2, <3>1 DEF InPass
    <3>3. CASE iter_curr = n
      <4>1. GivenBack(iter_curr)' BY <1>2, <2>1, <3>3 DEF GivenBack
      <4>2. cut' /\ locals'.next[iter_curr'] = NULL BY <1>2, <1>8, <3>3
      <4> QED BY <3>2, <4>1, <4>2 DEF IterLost
    <3>4. CASE iter_curr # n /\ Settled(iter_curr)
      <4>1. Settled(iter_curr)' BY <1>2, <1>6, <3>4 DEF Settled
      <4> QED BY <3>2, <4>1
    <3>5. CASE iter_curr # n /\ IterLost
      <4>1. iter_curr \in Slots /\ cache_map[iter_curr] = "free" /\ locals.next[iter_curr] = NULL
            /\ cut
        BY <3>5 DEF IterLost, GivenBack
      <4>2. GivenBack(iter_curr)' BY <1>2, <1>5, <4>1 DEF GivenBack
      <4>3. locals'.next[iter_curr'] = NULL BY <1>2, <1>8, <4>1
      <4>4. cut' BY <1>2, <4>1
      <4> QED BY <3>2, <4>2, <4>3, <4>4 DEF IterLost
    <3> QED BY <3>1, <3>3, <3>4, <3>5
  <2>3. ASSUME InHand' PROVE curr'.old_part \in Parts /\ (Settled(curr.vertex)' \/ HandLost')
    <3>1. curr.old_part \in Parts /\ (Settled(curr.vertex) \/ HandLost)
      BY <1>0, <1>2, <2>3 DEF PlaceInv, InHand
    <3>2. pc' = "changes" BY <1>2, <2>3 DEF InHand
    <3>3. CASE curr.vertex = n
      <4>1. GivenBack(curr.vertex)' BY <1>2, <2>1, <3>3 DEF GivenBack
      <4> QED BY <1>1, <1>2, <3>1, <3>2, <3>3, <4>1 DEF HandLost
    <3>4. CASE curr.vertex # n /\ Settled(curr.vertex)
      <4>1. Settled(curr.vertex)' BY <1>2, <1>6, <3>4 DEF Settled
      <4> QED BY <1>2, <3>1, <4>1
    <3>5. CASE curr.vertex # n /\ HandLost
      <4>1. GivenBack(curr.vertex)' BY <1>2, <1>5, <3>5 DEF GivenBack, HandLost
      <4> QED BY <1>2, <3>1, <3>2, <3>5, <4>1 DEF HandLost
    <3> QED BY <3>1, <3>3, <3>4, <3>5
  <2>4. ~InHand' => curr'.vertex = NULL BY <1>0, <1>2 DEF InHand, PlaceInv
  <2>5. pc' # "process_vertex_updates" BY <1>2
  <2> QED BY <2>2, <2>3, <2>4, <2>5 DEF PlaceInv
<1>14. ChangesInv' BY <1>2 DEF ChangesInv
<1>15. ~aborted' BY <1>2, <1>3, <1>4, <1>8
<1> QED BY <1>3, <1>4, <1>9, <1>11, <1>12, <1>13, <1>14, <1>15 DEF IInv

\* VertexUpdated: the vertex in hand is hung to where it now is, and let go.
LEMMA UpdatedKeeps ==
  ASSUME IInv, VertexUpdated PROVE IInv'
<1>0. /\ TypeInv /\ LocalsInv /\ VertexInv /\ PlaceInv /\ ChangesInv /\ ~aborted
      /\ PoolInv /\ NeighborsInv /\ vert \in [Slots -> VertexType]
      /\ pc = "changes" /\ buffered_changes = <<>> /\ pc' = "update_vertices"
      /\ curr' = NobodyInHand
      /\ UNCHANGED <<nodes, mirror_lists, recently_created, buffered_changes,
                     any_needs_processing, iter_curr, visited, cut>>
  BY DEF IInv, TypeInv, VertexUpdated
<1>1. /\ PartsInv' /\ in_partition' \in LinkType /\ local_lists' \in [Parts -> Pointer]
      /\ RehangIsRight(in_partition, local_lists, curr.vertex, curr.old_part, vert[curr.vertex].part)
  BY UpdatedHangs
<1>2. ~aborted' BY <1>1 DEF VertexUpdated, AssertThat
<1>3. PICK n \in Slots : /\ n = curr.vertex /\ cache_map[n] # "mirror" /\ vert[n].part \in Parts
  <2>1. curr.old_part \in Parts /\ (Settled(curr.vertex) \/ HandLost)
    BY <1>0 DEF PlaceInv, InHand
  <2>2. CASE Settled(curr.vertex) BY <1>0, <2>2 DEF Settled, VertexInv
  <2>3. CASE HandLost BY <2>1, <2>3 DEF HandLost, GivenBack
  <2> QED BY <2>1, <2>2, <2>3
<1>4. PICK p \in Parts : p = vert[n].part /\ vert' = [vert EXCEPT ![n].curr_part = p]
  BY <1>3 DEF VertexUpdated
<1>5. vert'[n] = [vert[n] EXCEPT !.curr_part = p] /\ \A s \in Slots : s # n => vert'[s] = vert[s]
  BY <1>0, <1>4
<1>6. vert[n] \in VertexType BY <1>0
<1>7. vert'[n] \in VertexType /\ vert'[n].part = p /\ vert'[n].curr_part = p
      /\ vert'[n].fresh = vert[n].fresh
  BY <1>4, <1>5, <1>6 DEF VertexType
<1>8. vert' \in [Slots -> VertexType]
  <2>1. vert' = [s \in Slots |-> vert'[s]] BY <1>0, <1>4
  <2>2. \A s \in Slots : vert'[s] \in VertexType BY <1>0, <1>5, <1>7
  <2> QED BY <2>1, <2>2
<1>9. /\ \A s \in Slots : Settled(s)' <=> Settled(s)
      /\ Holding("local")' = Holding("local") /\ locals' = locals /\ cache_map' = cache_map
  BY <1>0, <1>5, <1>7 DEF Settled, Holding, nodes
<1>10. NULL \in Pointer /\ NULL \notin Parts BY NullIsNoSlot, SlotsAssumption
<1>11. TypeInv'
  <2>1. curr' \in [vertex : Pointer, old_part : Parts \cup {NULL}] BY <1>0, <1>10 DEF NobodyInHand
  <2> QED BY <1>0, <1>1, <1>8, <2>1 DEF TypeInv, nodes
<1>12. PoolInv' /\ NeighborsInv' BY <1>0, NodesSame DEF nodes
<1>13. LocalsInv' BY <1>0, <1>9, LocalsKept DEF InPass
<1>14. VertexInv'
  <2>2. \A s \in Slots : s # n =>
          /\ cache_map'[s] = cache_map[s] /\ vert'[s] = vert[s]
          /\ cache_map[s] = "local" => vert[s].part \in Parts /\ (vert[s].curr_part = NULL => vert[s].fresh)
          /\ cache_map[s] = "mirror" => vert[s].part \in Parts /\ vert[s].curr_part = vert[s].part
    BY <1>0, <1>5, <1>9 DEF VertexInv
  <2>3. cache_map'[n] # "mirror" /\ vert'[n].part \in Parts /\ vert'[n].curr_part # NULL
    BY <1>3, <1>7, <1>9, <1>10
  <2> QED BY <2>2, <2>3 DEF VertexInv
<1>15. PlaceInv'
  <2>1. iter_curr' # NULL => InPass' /\ (Settled(iter_curr)' \/ IterLost')
    <3>1. iter_curr # NULL => Settled(iter_curr) \/ IterLost BY <1>0 DEF PlaceInv
    <3>2. Settled(iter_curr) => Settled(iter_curr)' BY <1>0, <1>9 DEF Settled
    <3>3. IterLost => IterLost' BY <1>0 DEF IterLost, GivenBack, nodes
    <3> QED BY <1>0, <3>1, <3>2, <3>3 DEF InPass
  <2>2. ~InHand' /\ curr'.vertex = NULL BY <1>0 DEF InHand, NobodyInHand
  <2> QED BY <1>0, <2>1, <2>2 DEF PlaceInv
<1>16. ChangesInv' BY <1>0 DEF ChangesInv
<1> QED BY <1>1, <1>2, <1>11, <1>12, <1>13, <1>14, <1>15, <1>16 DEF IInv

\* InsertRecentlyCreated gives one new vertex its list.
LEMMA InsertKeeps ==
  ASSUME IInv, InsertRecentlyCreated PROVE IInv'
<1>0. /\ TypeInv /\ LocalsInv /\ VertexInv /\ PlaceInv /\ ChangesInv /\ ~aborted
      /\ PoolInv /\ NeighborsInv /\ vert \in [Slots -> VertexType] /\ pc = "insert"
      /\ UNCHANGED <<nodes, mirror_lists, buffered_changes, any_needs_processing, place, aborted>>
  BY DEF IInv, TypeInv, InsertRecentlyCreated
<1>1. /\ PartsInv' /\ in_partition' \in LinkType /\ local_lists' \in [Parts -> Pointer]
      /\ recently_created' \in Pointer
      /\ recently_created \in Waiting /\ vert[recently_created].part \in Parts
  BY InsertedHangs
<1>2. PICK n \in Slots : n = recently_created /\ cache_map[n] = "local" BY <1>1 DEF Waiting
<1>3. PICK p \in Parts : p = vert[n].part /\ vert' = [vert EXCEPT ![n].curr_part = p]
  BY <1>1, <1>2 DEF InsertRecentlyCreated
<1>4. vert'[n] = [vert[n] EXCEPT !.curr_part = p] /\ \A s \in Slots : s # n => vert'[s] = vert[s]
  BY <1>0, <1>3
<1>5. vert[n] \in VertexType BY <1>0
<1>6. vert'[n] \in VertexType /\ vert'[n].part = p /\ vert'[n].curr_part = p
      /\ vert'[n].fresh = vert[n].fresh
  BY <1>3, <1>4, <1>5 DEF VertexType
<1>7. vert' \in [Slots -> VertexType]
  <2>1. vert' = [s \in Slots |-> vert'[s]] BY <1>0, <1>3
  <2>2. \A s \in Slots : vert'[s] \in VertexType BY <1>0, <1>4, <1>6
  <2> QED BY <2>1, <2>2
<1>8. /\ \A s \in Slots : Settled(s)' <=> Settled(s)
      /\ Holding("local")' = Holding("local") /\ locals' = locals /\ cache_map' = cache_map
  BY <1>0, <1>4, <1>6 DEF Settled, Holding, nodes
<1>9. NULL \notin Parts BY SlotsAssumption
<1>10. TypeInv' BY <1>0, <1>1, <1>7 DEF TypeInv, nodes, place
<1>11. PoolInv' /\ NeighborsInv' BY <1>0, NodesSame DEF nodes
<1>12. LocalsInv' BY <1>0, <1>8, LocalsKept DEF InPass, place
<1>13. VertexInv'
  <2>1. cache_map[n] = "local" BY <1>2
  <2>2. \A s \in Slots : s # n =>
          /\ cache_map'[s] = cache_map[s] /\ vert'[s] = vert[s]
          /\ cache_map[s] = "local" => vert[s].part \in Parts /\ (vert[s].curr_part = NULL => vert[s].fresh)
          /\ cache_map[s] = "mirror" => vert[s].part \in Parts /\ vert[s].curr_part = vert[s].part
    BY <1>0, <1>4, <1>8 DEF VertexInv
  <2>3. cache_map'[n] = "local" /\ vert'[n].part \in Parts /\ vert'[n].curr_part # NULL
    BY <1>6, <1>8, <1>9, <2>1
  <2> QED BY <2>2, <2>3 DEF VertexInv
<1>14. PlaceInv' BY <1>0 DEF PlaceInv, InPass, InHand, place
<1>15. ChangesInv' BY <1>0 DEF ChangesInv, place
<1> QED BY <1>0, <1>1, <1>10, <1>11, <1>12, <1>13, <1>14, <1>15 DEF IInv

\* What holds while updates are received, and of steps that only touch mirrors
LEMMA ReceivingKeeps ==
  ASSUME IInv, pc = "process_vertex_updates", UNCHANGED <<locals, recently_created,
           buffered_changes, place>>,
         Holding("local")' = Holding("local")
  PROVE  LocalsInv' /\ PlaceInv' /\ ChangesInv'
<1>0. LocalsInv /\ PlaceInv /\ ChangesInv BY DEF IInv
<1>1. LocalsInv' BY <1>0, LocalsKept DEF InPass, place
<1>2. PlaceInv' BY <1>0 DEF PlaceInv, InPass, InHand, place
<1>3. ChangesInv' BY <1>0 DEF ChangesInv, place
<1> QED BY <1>1, <1>2, <1>3

\* handle_new_vertex: a slot from the pool, in the list of its partition
LEMMA NewMirrorKeeps ==
  ASSUME IInv, NEW part \in Parts, NewMirror(part) PROVE IInv'
<1>0. /\ TypeInv /\ VertexInv /\ ~aborted
      /\ PoolInv /\ NeighborsInv /\ vert \in [Slots -> VertexType]
      /\ cache_map \in [Slots -> {"free", "local", "mirror"}]
  BY DEF IInv, TypeInv
<1>1. PICK n \in Slots : n = pool_head /\ cache_map[n] = "free" BY PoolHead DEF NewMirror
<1>2. /\ pc = "process_vertex_updates" /\ pool_head # NULL /\ Take(pool_head)
      /\ cache_map' = [cache_map EXCEPT ![n] = "mirror"]
      /\ vert' = [vert EXCEPT ![n] = [NoVertex EXCEPT !.part = part, !.curr_part = part]]
      /\ UNCHANGED <<local_neighbors_head, locals, local_lists, recently_created,
                     buffered_changes, any_needs_processing, place, aborted>>
  BY <1>1 DEF NewMirror, Receiving
<1>3. PartsInv' /\ in_partition' \in LinkType /\ mirror_lists' \in [Parts -> Pointer]
  BY NewMirrorHangs
<1>4. /\ cache_map' \in [Slots -> {"free", "local", "mirror"}] /\ neighbors' \in LinkType
      /\ pool_head' \in Pointer /\ PoolInv' /\ NeighborsInv'
  <2>1. cache_map' = [cache_map EXCEPT ![pool_head] = "mirror"] BY <1>1, <1>2
  <2> QED BY <1>0, <1>2, <2>1, TakeKeeps
<1>5. \A s \in Slots : cache_map'[s] = IF s = n THEN "mirror" ELSE cache_map[s] BY <1>0, <1>2
<1>6. /\ vert' \in [Slots -> VertexType] /\ vert'[n].part = part /\ vert'[n].curr_part = part
      /\ \A s \in Slots : s # n => vert'[s] = vert[s]
  <2>1. PICK v : v = [NoVertex EXCEPT !.part = part, !.curr_part = part] OBVIOUS
  <2>2. v = [part |-> part, curr_part |-> part, fresh |-> FALSE, needs_processing |-> FALSE]
    BY <2>1 DEF NoVertex
  <2>3. v \in VertexType BY <2>2 DEF VertexType
  <2> QED BY <1>0, <1>2, <2>1, <2>2, <2>3
<1>7. TypeInv' BY <1>0, <1>2, <1>3, <1>4, <1>6 DEF TypeInv, place
<1>8. Holding("local")' = Holding("local") BY <1>1, <1>5 DEF Holding
<1>9. LocalsInv' /\ PlaceInv' /\ ChangesInv' BY <1>2, <1>8, ReceivingKeeps
<1>10. VertexInv' BY <1>0, <1>5, <1>6 DEF VertexInv
<1> QED BY <1>0, <1>2, <1>3, <1>4, <1>7, <1>9, <1>10 DEF IInv

\* handle_new_vertex: a mirror of a vertex that has moved
LEMMA MoveMirrorKeeps ==
  ASSUME IInv, NEW n \in Slots, NEW part \in Parts, MoveMirror(n, part) PROVE IInv'
<1>0. /\ TypeInv /\ VertexInv /\ ~aborted
      /\ PoolInv /\ NeighborsInv /\ vert \in [Slots -> VertexType]
      /\ pc = "process_vertex_updates" /\ cache_map[n] = "mirror"
      /\ vert' = [vert EXCEPT ![n].part = part, ![n].curr_part = part]
      /\ UNCHANGED <<nodes, local_lists, recently_created, buffered_changes,
                     any_needs_processing, place>>
  BY DEF IInv, TypeInv, MoveMirror, Receiving
<1>1. /\ PartsInv' /\ in_partition' \in LinkType /\ mirror_lists' \in [Parts -> Pointer]
      /\ RehangIsRight(in_partition, mirror_lists, n, vert[n].curr_part, part)
  BY MovedHangs
<1>2. ~aborted' BY <1>1 DEF MoveMirror, AssertThat
<1>3. vert'[n] = [vert[n] EXCEPT !.part = part, !.curr_part = part]
      /\ \A s \in Slots : s # n => vert'[s] = vert[s]
  BY <1>0
<1>4. vert[n] \in VertexType BY <1>0
<1>5. vert'[n] \in VertexType /\ vert'[n].part = part /\ vert'[n].curr_part = part
  BY <1>3, <1>4 DEF VertexType
<1>6. vert' \in [Slots -> VertexType]
  <2>1. vert' = [s \in Slots |-> vert'[s]] BY <1>0
  <2>2. \A s \in Slots : vert'[s] \in VertexType BY <1>0, <1>3, <1>5
  <2> QED BY <2>1, <2>2
<1>7. Holding("local")' = Holding("local") /\ locals' = locals /\ cache_map' = cache_map
  BY <1>0 DEF Holding, nodes
<1>8. TypeInv' BY <1>0, <1>1, <1>6 DEF TypeInv, nodes, place
<1>9. PoolInv' /\ NeighborsInv' BY <1>0, NodesSame DEF nodes
<1>10. LocalsInv' /\ PlaceInv' /\ ChangesInv' BY <1>0, <1>7, ReceivingKeeps
<1>11. VertexInv' BY <1>0, <1>3, <1>5, <1>7 DEF VertexInv
<1> QED BY <1>1, <1>2, <1>8, <1>9, <1>10, <1>11 DEF IInv

\* handle_deleted_vertex: out of all lists, the slot given back
LEMMA DeleteMirrorKeeps ==
  ASSUME IInv, NEW n \in Slots, DeleteMirror(n) PROVE IInv'
<1>0. /\ TypeInv /\ VertexInv /\ ~aborted
      /\ PoolInv /\ NeighborsInv /\ cache_map \in [Slots -> {"free", "local", "mirror"}]
      /\ pc = "process_vertex_updates" /\ cache_map[n] = "mirror"
      /\ cache_map' = [cache_map EXCEPT ![n] = "free"] /\ Give(n)
      /\ UNCHANGED <<vert, locals, local_lists, recently_created, buffered_changes,
                     any_needs_processing, place>>
  BY DEF IInv, TypeInv, DeleteMirror, Receiving
<1>1. /\ PartsInv' /\ in_partition' \in LinkType /\ mirror_lists' \in [Parts -> Pointer]
      /\ HeadIsRight(WithHead(in_partition, mirror_lists[vert[n].curr_part]), n)
  BY DeletedMirrorHangs
<1>2. /\ cache_map' \in [Slots -> {"free", "local", "mirror"}] /\ neighbors' \in LinkType
      /\ pool_head' \in Pointer /\ local_neighbors_head' \in Pointer
      /\ RemoveIsRight(NeighborList, n) /\ PoolInv' /\ NeighborsInv'
  <2>1. cache_map[n] # "free" BY <1>0
  <2> QED BY <1>0, <2>1, GiveKeeps
<1>3. ~aborted' BY <1>1, <1>2 DEF DeleteMirror, AssertThat
<1>4. \A s \in Slots : cache_map'[s] = IF s = n THEN "free" ELSE cache_map[s] BY <1>0
<1>5. Holding("local")' = Holding("local") BY <1>0, <1>4 DEF Holding
<1>6. TypeInv' BY <1>0, <1>1, <1>2 DEF TypeInv, place
<1>7. LocalsInv' /\ PlaceInv' /\ ChangesInv' BY <1>0, <1>5, ReceivingKeeps
<1>8. VertexInv' BY <1>0, <1>4 DEF VertexInv
<1> QED BY <1>1, <1>2, <1>3, <1>6, <1>7, <1>8 DEF IInv

\* update_edge_info: a mirror next to an own vertex, or no longer
LEMMA ListKeeps ==
  ASSUME IInv, NEW n \in Slots, ListNeighbor(n) PROVE IInv'
<1>0. /\ TypeInv /\ VertexInv /\ PartsInv /\ ~aborted /\ PoolInv /\ NeighborsInv
      /\ pc = "process_vertex_updates"
      /\ UNCHANGED <<cache_map, pool_head, locals, vert, lists, buffered_changes,
                     any_needs_processing, place>>
  BY DEF IInv, ListNeighbor, Receiving
<1>1. /\ neighbors' \in LinkType /\ local_neighbors_head' \in Pointer
      /\ RemoveIsRight(NeighborList, n) /\ PoolInv' /\ NeighborsInv'
  BY <1>0, ListNeighborKeeps
<1>2. ~aborted' BY <1>1 DEF ListNeighbor, AssertThat
<1>3. TypeInv' BY <1>0, <1>1 DEF TypeInv, lists, place
<1>4. Holding("local")' = Holding("local") BY <1>0 DEF Holding
<1>5. LocalsInv' /\ PlaceInv' /\ ChangesInv' BY <1>0, <1>4, ReceivingKeeps DEF lists
<1>6. PartsInv'
  <2>1. \A s \in Slots : vert'[s] = vert[s] /\ WhereListed(s)' = WhereListed(s)
    BY <1>0 DEF WhereListed, place
  <2> QED BY <1>0, <2>1, PlacesSame
<1>7. VertexInv' BY <1>0 DEF VertexInv
<1> QED BY <1>1, <1>2, <1>3, <1>5, <1>6, <1>7 DEF IInv

-----------------------------------------------------------------------------
(* The theorems *)

\* Every step keeps the invariant, and so does a stuttering one, as long as nothing goes
\* astray.
LEMMA StepKeeps ==
  ASSUME IInv, [Next]_vars, ~astray' PROVE IInv'
<1>1. CASE UNCHANGED vars
  <2>1. UNCHANGED <<nodes, lists, buffered_changes, place, aborted>>
        /\ any_needs_processing' = any_needs_processing /\ vert' = vert
    BY <1>1 DEF vars
  <2>2. vert' \in [Slots -> VertexType] BY <2>1 DEF IInv, TypeInv
  <2> QED BY <2>1, <2>2, VertexKeeps
<1>2. CASE \E part \in Parts : hvr_vertex_create(part) BY <1>2, CreateKeeps
<1>3. CASE \E part \in Parts : hvr_vertex_set(part) BY <1>3, SetKeeps
<1>4. CASE \E n \in Slots : hvr_vertex_delete(n) BY <1>4, DeleteKeeps
<1>5. CASE \E n \in Slots : mark_for_processing(n) BY <1>5, MarkKeeps
<1>6. CASE EndCallback \/ EndUpdates \/ Inserted BY <1>6, TurnKeeps
<1>7. CASE process_buffered_change BY <1>7, ChangeKeeps
<1>8. CASE BeginUpdates BY <1>8, BeginKeeps
<1>9. CASE NextVertex BY <1>9, NextVertexKeeps
<1>10. CASE VertexUpdated BY <1>10, UpdatedKeeps
<1>11. CASE InsertRecentlyCreated BY <1>11, InsertKeeps
<1>12. CASE \E part \in Parts : NewMirror(part) BY <1>12, NewMirrorKeeps
<1>13. CASE \E part \in Parts, n \in Slots : MoveMirror(n, part) BY <1>13, MoveMirrorKeeps
<1>14. CASE \E n \in Slots : DeleteMirror(n) BY <1>14, DeleteMirrorKeeps
<1>15. CASE \E n \in Slots : ListNeighbor(n) BY <1>15, ListKeeps
<1>16. CASE EndIteration BY <1>16, EndKeeps
<1>17. ~DeletedTwice BY DEF DeletedTwice
<1>18. Next => \/ \E part \in Parts : hvr_vertex_create(part)
               \/ \E part \in Parts : hvr_vertex_set(part)
               \/ \E n \in Slots : hvr_vertex_delete(n)
               \/ \E n \in Slots : mark_for_processing(n)
               \/ EndCallback \/ EndUpdates \/ Inserted
               \/ process_buffered_change \/ DeletedTwice \/ BeginUpdates \/ NextVertex \/ VertexUpdated
               \/ InsertRecentlyCreated
               \/ \E part \in Parts : NewMirror(part)
               \/ \E part \in Parts, n \in Slots : MoveMirror(n, part)
               \/ \E n \in Slots : DeleteMirror(n)
               \/ \E n \in Slots : ListNeighbor(n)
               \/ EndIteration \/ UNCHANGED vars
  BY DEF Next, Callback, UpdateVertices, ReceiveUpdates, Stopped
<1> QED BY <1>1, <1>2, <1>3, <1>4, <1>5, <1>6, <1>7, <1>8, <1>9, <1>10, <1>11, <1>12, <1>13,
           <1>14, <1>15, <1>16, <1>17, <1>18

\* What has gone astray is not followed.
LEMMA NextKeeps ==
  ASSUME Inv, [Next]_vars PROVE Inv'
<1>1. CASE astray
  <2>1. UNCHANGED vars BY <1>1 DEF Next, Stopped
  <2> QED BY <1>1, <2>1 DEF Inv, vars
<1>2. CASE ~astray /\ ~astray' BY <1>2, StepKeeps DEF Inv
<1>3. CASE astray' BY <1>3 DEF Inv
<1> QED BY <1>1, <1>2, <1>3

\* The slots of a PE are always in the lists their use and partition call for.
THEOREM VerticesInvariant == Spec => []Inv
<1>1. Init => Inv BY InitHolds DEF Inv
<1>2. Inv /\ [Next]_vars => Inv' BY NextKeeps
<1> QED BY <1>1, <1>2, PTL DEF Spec

\* What the invariant says of the pool, of own vertices and of the neighbors
LEMMA InvPartitions == ASSUME IInv PROVE ~aborted /\ SlotsPartition
<1>1. \A what : Holding(what) \in SUBSET Slots BY DEF Holding
<1>2. IsListOf(WithHead(neighbors, pool_head), Holding("free"))
  BY <1>1, LinkedIsList DEF IInv, PoolInv
<1>3. IsListOf(locals, Holding("local"))
  <2>1. Linked(locals, Holding("local")) BY DEF IInv, LocalsInv, Linked
  <2> QED BY <1>1, <2>1, LinkedIsList
<1>4. PICK N \in SUBSET Holding("mirror") : Linked(NeighborList, N) BY DEF IInv, NeighborsInv
<1>5. IsListOf(NeighborList, N) /\ Members(NeighborList.next, NeighborList.head) = N
  <2>1. N \in SUBSET Slots BY <1>1, <1>4
  <2> QED BY <1>4, <2>1, LinkedIsList
<1>6. NeighborList.next = neighbors.next /\ NeighborList.head = local_neighbors_head
  BY HeadsAndLinks DEF NeighborList
<1>7. Members(neighbors.next, local_neighbors_head) = N BY <1>5, <1>6
<1>8. ~aborted BY DEF IInv
<1> QED BY <1>2, <1>3, <1>4, <1>5, <1>7, <1>8 DEF SlotsPartition

\* No slot is lost or in two places, and the asserts of the lists hold, however many
\* slots there are and in whatever order vertices and mirrors come, move and go, unless a
\* deletion the code is not made for has come to bear.
THEOREM VerticesSlotsPartition == Spec => []SlotsPartition
<1>1. Inv => SlotsPartition BY InvPartitions DEF Inv, SlotsPartition
<1> QED BY <1>1, VerticesInvariant, PTL

\* What the invariant says of the lists of partitions
LEMMA InvListsExact == ASSUME IInv PROVE PartitionListsExact
<1>1. PICK r \in Rank : Threaded(in_partition.next, recently_created, Waiting, r)
  BY DEF IInv, PartsInv
<1>2. Members(in_partition.next, recently_created) = Waiting
  <2>1. Waiting \in SUBSET Slots BY DEF Waiting
  <2> QED BY <1>1, <2>1, ChainHolds
<1>3. Waiting = {n \in Holding("local") : vert[n].curr_part = NULL} BY DEF Waiting, Holding
<1>4. \A p \in Parts :
        /\ IsListOf(WithHead(in_partition, local_lists[p]),
                    {n \in Holding("local") \ Waiting : WhereListed(n) = p})
        /\ IsListOf(WithHead(in_partition, mirror_lists[p]),
                    {n \in Holding("mirror") : vert[n].part = p})
  <2> SUFFICES ASSUME NEW p \in Parts
               PROVE  /\ IsListOf(WithHead(in_partition, local_lists[p]),
                                  {n \in Holding("local") \ Waiting : WhereListed(n) = p})
                      /\ IsListOf(WithHead(in_partition, mirror_lists[p]),
                                  {n \in Holding("mirror") : vert[n].part = p})
    OBVIOUS
  <2>1. {n \in Holding("local") \ Waiting : WhereListed(n) = p} = LocalsIn(p)
    BY DEF LocalsIn, Waiting, Holding
  <2>2. {n \in Holding("mirror") : vert[n].part = p} = MirrorsIn(p) BY DEF MirrorsIn, Holding
  <2>3. /\ Linked(WithHead(in_partition, local_lists[p]), LocalsIn(p))
        /\ Linked(WithHead(in_partition, mirror_lists[p]), MirrorsIn(p))
    BY DEF IInv, PartsInv
  <2>4. LocalsIn(p) \in SUBSET Slots /\ MirrorsIn(p) \in SUBSET Slots BY DEF LocalsIn, MirrorsIn
  <2>5. /\ IsListOf(WithHead(in_partition, local_lists[p]), LocalsIn(p))
        /\ IsListOf(WithHead(in_partition, mirror_lists[p]), MirrorsIn(p))
    BY <2>3, <2>4, LinkedIsList
  <2> QED BY <2>1, <2>2, <2>5
<1> QED BY <1>2, <1>3, <1>4 DEF PartitionListsExact

\* Every vertex is in the list of the partition it is in and no other, an own vertex from
\* the moment it is inserted.
THEOREM VerticesPartitionLists == Spec => []PartitionListsExact
<1>1. Inv => PartitionListsExact BY InvListsExact DEF Inv, PartitionListsExact
<1> QED BY <1>1, VerticesInvariant, PTL

\* When the iterator has come to the end, and has not lost its place, all settled vertices
\* have had their turn.
LEMMA StepSkipsNothing ==
  ASSUME Inv, [Next]_vars
  PROVE  [pc = "update_vertices" /\ pc' = "insert" /\ ~cut =>
            \A n \in Slots : ~Overlooked(n)]_vars
<1> SUFFICES ASSUME Next, pc = "update_vertices", pc' = "insert", ~cut, NEW n \in Slots,
                    Overlooked(n)
             PROVE  FALSE
  OBVIOUS
<1>1. ~Stopped BY DEF Stopped, vars, place
<1>2. iter_curr = NULL
  BY <1>1 DEF Next, Callback, UpdateVertices, ReceiveUpdates, hvr_vertex_create,
         hvr_vertex_delete, hvr_vertex_set, mark_for_processing, EndCallback,
         process_buffered_change, DeletedTwice,
         BeginUpdates, NextVertex, VertexUpdated, EndUpdates, InsertRecentlyCreated, Inserted,
         NewMirror, MoveMirror, DeleteMirror, ListNeighbor, EndIteration, InCallback,
         Receiving, place
<1>3. IInv BY <1>1 DEF Inv, Next
<1>4. Settled(n) /\ InPass /\ n \notin visited BY DEF Settled, Overlooked, InPass
<1>5. iter_curr # NULL BY <1>3, <1>4 DEF IInv, LocalsInv
<1> QED BY <1>2, <1>5

\* A pass processes every own vertex that needs it, though vertices, the one in hand too, are
\* created, deleted and marked under the iterator, unless what is deleted is the very vertex
\* the iterator gives next: what the pass leaves marked was marked after its turn.
THEOREM VerticesNothingSkipped == Spec => NothingIsSkipped
<1>1. Inv /\ [Next]_vars =>
        [pc = "update_vertices" /\ pc' = "insert" /\ ~cut =>
            \A n \in Slots : ~Overlooked(n)]_vars
  BY StepSkipsNothing
<1> QED BY <1>1, VerticesInvariant, PTL DEF Spec, NothingIsSkipped
=============================================================================
