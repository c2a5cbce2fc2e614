# A TLA+ verification of HOOVER

HOOVER runs iterative graph simulations on a PGAS machine. Every processing
element (PE) owns vertices and advances them in its own time steps; PEs talk
through one-sided OpenSHMEM operations on each other's memory: puts, gets,
atomics, and mailboxes, directories and locks built on these. Nothing keeps PEs
in step unless the application couples them. That is where the difficulty lies:
state is read remotely and used later, messages cross, PEs exit while others
still count on them, and almost no test can make the interesting orders happen.

This directory holds models of the parts of the library that carry this
difficulty, TLC configurations that check them on small instances, and proofs
for all values of the constants. `PROJECT.json` maps each definition to the
lines it models, and lists runs, mutants, findings, hazards and theorems.
Paths below are relative to the repository.

## 1. Inventory

| component | state | operations | correct when |
|---|---|---|---|
| **mailbox** `src/hvr_mailbox.cpp` | a ring of words on each PE; read and write index packed in one 64-bit word; the owner's cached copy of it | `send` by any PE (reserve by compare-and-swap, put length, body, fence, sentinel), `recv` by the owner (poll, copy, clear, advance) | messages neither overlap nor get lost, are received whole, once, in the order of their reservations; a full ring refuses |
| **mailbox buffer** `src/hvr_mailbox_buffer.cpp` | a batch of messages per target | `send`, `flush` with or without a callback | order per target is kept; nothing is dropped unless the callback says so |
| **read-write lock** `src/shmem_rw_lock.cpp` | a word: count of readers and a writer's bit | `rlock`, `runlock`, `wlock`, `wunlock` | exclusion; a writer that asked gets in |
| **partition directory** `src/hvr_dist_bitvec.cpp` | rows of bits spread over the PEs, a sequence number per row; local copies | `set`, `clear`, `get_seq_no`, `copy_locally`, `contains` | a copy with the present number is current |
| **partition window, subscriptions** `hoover.cpp` 756-1163, 1517-1534, 1620-1679 | produced and subscribed partitions, cached producer and dead rows, back-off, the subscribers of each partition | `update_partition_window`, `process_partition_subscriptions` | subscribers hold the producers' vertices; lists agree with subscriptions |
| **vertex updates** `hoover.cpp` 1695-2014, 2420-2590 | the mirrors of remote vertices, `needs_send`, previous partition | `send_vertex_updates`, `process_vertex_updates`, `handle_new_vertex`, `handle_deleted_vertex` | mirrors converge to the owner's state and never go back |
| **vertex subscriptions** `hoover.cpp` 1535-1619, 2146-2208 | `my_vert_subs`, `remote_vert_subs`, explicit edge counts | `set_up_vertex_subscription`, `process_vertex_subscriptions` | who has an explicit edge on a vertex is sent its changes |
| **edges and distances** `hoover.cpp` 358-754, 2024-2057 | the edge matrix, `dist_from_local_vert` of each vertex and the minimum per partition | `update_edge_info`, `create_new_edges`, `update_existing_edges`, `update_distances` | both directions agree; distances are those of a breadth-first search |
| **coupling and termination** `hoover.cpp` 2592-3180, 3949-3983 | coupled PEs, root, what is wanted, who terminates, who is gone | `update_coupled_values` | members of a cluster agree and exchange values in every iteration; clusters only grow; leavers get out and nobody waits for them |
| **dead PE processing** `hoover.cpp` 774-802, 2209-2286, 3975-4011 | `terminated_pes`, `vertex_partitions`, `all_terminated_pes` | publication at exit, `pull_vertices_from_dead_pe`, `handle_dead_msg` | the last state of an exited PE's vertices stays visible |
| **vertex cache, vertices, iterators** `src/hvr_vertex_cache.cpp`, `src/hvr_vertex.cpp`, `src/hvr_vertex_iter.cpp` | a pool of nodes, hash buckets, the list of own vertices | add, delete, lookup, iterate, create, attribute set | a slot has one role; iterating survives changes |
| **partition lists** `src/hvr_partition_list.cpp` | linked lists of vertices by partition | prepend, remove, update | a vertex is in the list of its partition only |
| **data structures** `hvr_map`, `hvr_avl_tree`, `hvr_set`, `hvr_sparse_arr`, `hvr_irregular_matrix`, `hvr_buffered_changes`, `hvr_buffered_msgs`, `hvr_msg_buf_pool` | arrays of segments, trees, words of bits, free lists | insert, remove, look up, list | each behaves as the map, set, stack or pool it stands for |
| **messages between vertices** `hoover.cpp` 1843-1894 | a stack of messages per vertex slot, the flags that give vertices their turn | `hvr_send_msg`, `hvr_poll_msg`, `process_incoming_messages` | a message reaches the vertex it was sent to, which then gets a turn; the newest is polled first |
| **neighbor lists** `inc/hvr_neighbors.h`, `hoover.cpp` 2058-2145 | a linearised row and a position | `hvr_get_neighbors`, `hvr_neighbors_next` | they show the edges and copies a PE has |
| **main loop** `hvr_init`, `hvr_body`, `hvr_finalize` | | the order of all the above in an iteration | |
| **memory allocator** `src/dlmalloc/dlmalloc.c` | an mspace: chunks with heads and feet, small bins, tries, the designated victim, top | `mspace_malloc`, `mspace_free`, `create_mspace_with_base` | blocks do not overlap, free neighbors are joined, nothing is refused that fits |
| **checksum** `src/crc/crc.c` | a table | `crcInit`, `crcFast`, `crcSlow` | the table computes the division; short changes are seen |
| profiling, dumps; sparsehash; `test/`, `apps/` | | | outside the models |

How the parts interact. One iteration of `hvr_body` processes own vertices,
recomputes distances and the partition window (directory, subscriptions), sends
updates (vertex update mailbox, through the buffer), answers subscriptions (forward
and vertex subscription mailboxes), takes in updates, and couples (four more
mailboxes). Every exchange is a mailbox send or a one-sided read of what another
PE left in memory; the only shared structures are the directory rows and the
arrays of exited PEs. Inside a PE nothing runs in parallel, but user callbacks
create, delete and mark vertices under the iterators that call them, and every
function that walks the edges of a vertex does so in one shared array.

The behaviours that are hard: senders racing for the ring and the owner's reuse
of it; directory rows read while they change; subscriptions, unsubscriptions and
updates that cross in three different channels; edges created at both ends at
once; roots of clusters that negotiate, refuse, forward and give way while
members wait; PEs that exit in the middle of any of these; and, in a PE, lists,
edges and distances maintained step by step under callbacks. `PROJECT.json` lists
each hazard at its line.

## 2. Modules

| module | models | run through |
|---|---|---|
| `Channel` | the promise of a mailbox: a FIFO of whole messages from many senders | `Mailbox` refines it |
| `Mailbox` | `hvr_mailbox.cpp` | `MCMailbox` |
| `MailboxProofs` | | `tlapm` |
| `SharedLock` | the promise of the lock | `RWLock` refines it |
| `RWLock` | `shmem_rw_lock.cpp` | `MCRWLock` |
| `RWLockProofs` | | `tlapm` |
| `DistBitvec` | `hvr_dist_bitvec.cpp` with its use for the directory | `MCDistBitvec` |
| `DistBitvecProofs` | | `tlapm` |
| `Subscriptions` | partition window, subscriptions, vertex updates, dead PEs | `MCSubscriptions` |
| `SubscriptionsProofs` | | `tlapm` |
| `ExplicitEdges` | explicit edges, vertex subscriptions, edge messages, mailbox buffers, announced exits | `MCExplicitEdges` |
| `EdgeDistance` | edge matrix, implicit edges, incremental distances, handlers of new and deleted vertices | `MCEdges` |
| `Vertices` | cache slots, pool, lists, partition lists, iterators, buffered deletions | `MCVertices` |
| `VerticesProofs` | | `tlapm` |
| `Coupling` | `update_coupled_values`, termination | `MCCoupling` |
| `Clusters` | the promise of the coupling: clusters that only grow together, with exits | `Coupling` implements it, proved |
| `CouplingClusters` | what the state of `Coupling` means in `Clusters` (refinement mapping) | `tlapm` |
| `ClustersProofs`, `CouplingProofs` | | `tlapm` |
| `AvlTree` | `hvr_avl_tree.cpp` | `EdgeDistance`, `SparseArr` |
| `SparseArr` | `hvr_sparse_arr.cpp` | `MCContainers` |
| `HvrMap`, `HvrSet` | `hvr_map.cpp`, `hvr_set.cpp` | `MCContainers` |
| `HvrSetProofs` | | `tlapm` |
| `Pools` | `hvr_buffered_changes.cpp`, `hvr_buffered_msgs.cpp`, `hvr_msg_buf_pool.cpp` | `MCContainers` |
| `Messages` | messages between vertices, and the pass of `update_vertices` that hands them out | `MCContainers` |
| `Neighbors` | `inc/hvr_neighbors.h`, `hvr_get_neighbors`, `hvr_neighbors_min`, packed edges | `MCContainers` |
| `MailboxBuffer` | `hvr_mailbox_buffer.cpp`, in front of mailboxes that fill up, with what the senders do between two tries | `MCContainers` |
| `Mspace` | the part of `dlmalloc.c` the library uses | `MCContainers` |
| `MspaceChecks` | the checks of its state that `dlmalloc.c` has for DEBUG builds | `Containers` states `HeapIsExact` with them |
| `Crc` | `crc.c` | `MCContainers` |
| `Containers` | a driver: one structure at a time, any sequence of its calls, next to what the structure stands for | `MCContainers` |

The protocols are layered by what the lower ones were shown to promise:
`Coupling`, `Subscriptions` and `ExplicitEdges` take mailboxes as sequences because
`Mailbox` implements `Channel`; `Subscriptions` takes a directory row and its number
as one value because of `NoMissedChange` in `DistBitvec`; `Vertices` and
`Subscriptions` take maps and sets as functions and sets because of
`ContainersAreExact`. What the layering loses is that mailboxes
are bounded; section 6 says where that matters. The graph is seen from two sides:
`EdgeDistance` is what a PE computes from the copies it has, `Subscriptions` and
`ExplicitEdges` how the copies get there.

### Mailbox
A sender's `pc` follows `hvr_mailbox_send`: indices are fetched into
`snd[p].curr`, room is checked on them, a compare-and-swap reserves; then the
length word and the body are put, one step each, and, after
the quiet, the sentinel, which stays in `flying` until it lands. The owner's `rcv`
follows `hvr_mailbox_recv`, with the indices it cached in `curr_val`. `resv` and
`delivered` are history: the open reservations in order, and what was received.
A word of the ring is a natural number, and payloads contain the sentinel's
value. Sends with a number of tries (`Tries`) fail when they are used up;
`MaxSends` bounds the sends.

### RWLock
One lock word (`readers`, writer bit) and one `pc` and stale copy per PE. Each
access of the word is a step, so that every compare-and-swap may fail.
`SharedLock` promises more than exclusion: a writer that has asked comes before
every reader that has not got in yet, and before every other writer.

### DistBitvec
`symm_vec` and `seq_nos` are one PE's rows. A set or clear is a non-fetching
atomic, a fence and another atomic: the caller goes on at once (`Issue`) and the
atomics land later, in any order their fences allow (`Land`). A copy fetches the
number (`CopyStart`), then the words one by one. Words of four bits and bit
indices modulo two stand for 64 and 32. Rows of the directory share nothing, so
the division of rows among PEs is left out.

### Subscriptions
The record `ctx[p]` holds what the functions read and write, under the source's
names where they differ little. `pc` follows an iteration: `change`
(`update_vertices`), `publish` (the window is computed and the directory
written), `subscribe` and `unsubscribe` (one partition per step, the directory
read at that moment), `send`, `subs` and `recv` (the mailboxes are drained),
`poll` (deaths), and for a PE that exits `leave`, `persist`, `mark`. Before its
first `send` a PE waits for all others' first window, the barrier of `hvr_body`.
Each PE has one vertex whose attributes are a version number; answers wait in the
buffer `out` until the next iteration's flush, as in the code. Edges are left
out; with a traversal depth over 1, whether a mirrored vertex is near enough to
extend the window is therefore left open (`Near`). What an application does -
`might_interact`, the depth, the back-off, where vertices start and go, who leaves -
is a program, one of the constant `Programs`.

### ExplicitEdges
One vertex per PE, in no partition. An action is a phase of an iteration (`app`,
`send`, `subscriptions`, `updates`, `dead`, exit); the functions it calls are
operators on the PE's record, in the order of the source: creating an edge
(`hvr_create_edge` with its subscription and edge message), the batches of the two
mailbox buffers, `process_vertex_subscriptions` with its limit of batches, vertex
and edge updates with forwarding, `handle_dead_msg` with its refresh from the
exited PE's memory. A copy is the version last received, or `zeroed` for a vertex
that is reserved in the cache but never filled.

### EdgeDistance
A handler is an action; what it calls are operators on the record `g` of everything
they change. `edge_buffer` is modelled as the array it is: `Linearize` overwrites its
front, and a function that goes on after a nested call reads what the callee left.
Rows are AVL trees, so that their order is the code's. Vertices have places on a
line; `should_have_edge` and `actor_to_partition` are constants. A cast says which
vertices a behaviour has, which may move, and which mirrors may leave; who has left
may come back. `misread` remembers that a loop has read an entry that is not of the
row it listed, and ends the behaviour; `turned` which edges have been changed in
place. Both happen in the run; what follows is in section 4.

### Vertices
Slots of the cache with their roles and all links that run through them, as
functions from slots to slots: the pool shares its links with the list of mirrors
next to own vertices, and `recently_created` with the partition lists, as in the
code. `pc` follows the phases (`start_time_step`, `update_vertices` with
`update_metadata` and the `changes` it asks for, `insert`, `process_vertex_updates`), one vertex of an iterator per step. Between steps the application creates,
marks and deletes, as a callback may; deletions are carried out when the callback
returns, and may be of the vertex in hand and of the one the iterator gives next.
`cut` remembers the latter. `astray` is set, and the behaviour ends, when one of three
deletions comes to bear that the code is not made for: of a vertex of this iteration,
which is on `recently_created` and not in the list it is then taken out of; of a vertex
already deleted; of the vertex in hand after it was given another partition. A vertex
that was deleted while the iterator stood on it and still asks for its turn counts, too.

### Containers
`kind` chooses one structure; `c` is its state, a record that the operators of the
structure's module map to its next state, and `model` what it stands for: a
function, set, relation, stack, or the blocks given out. Each action is one call
with the arguments the rest of the code may give it.
- `HvrMap`, `HvrSet`, `SparseArr`, `Pools`: arrays of segments, words of bits, rows
  and free lists as they are in memory; where the code aborts, `aborted` says so.
- `Mspace`: addresses count words, so that the bits of a head are fields. The heap is
  one segment that never grows: HOOVER defines away `mmap` and `sbrk` (dlmalloc.h
  13-17). `MspaceChecks` has the checks that the file itself makes of the state when
  compiled for debugging; `HeapIsExact` demands them after every call, and that the
  chunks in use are exactly the blocks given out and nothing is refused that fits.
- `Crc`: a word is the set of its ones. HOOVER uses the checksum only with `USE_CRC`,
  off by default.
- `Messages`: the vertices in the iterator's order, the one in hand, and the passes of
  `update_vertices` as steps, so that a callback may send to a vertex that the pass
  has gone by or has yet to reach.
- `Neighbors`: a row is an AVL tree of packed edges; for every set of slots that have
  a body, the walk must show those.
- `MailboxBuffer`: a PE that finds a mailbox full receives from inside the send, and
  handling may send again, so a PE has a stack `todo` of what it is in the middle of.
  `buffers` is the memory of a buffer and `nbuffered` its count, which differ during
  a flush that has begun: it remembers the count it read first.

### Coupling
The record `ctx[p]` holds the coupling fields. One action per received message,
per refusal and per send that another PE can overtake. A program says whom each PE
may name in `couple_with` and when its `should_terminate` may say so: never, at any
time, or once all are coupled. Abstractions: the values are reduced to who sent
one; the three messages that carry a losing root's sets are one; scratch sets a
function wipes before use are wiped where they were last read; the iteration
number, which is compared nowhere in the coupling, is dropped; the mailbox of
requests of a PE that terminates is no longer read after its last announcement,
and what is sent there is dropped, as is what is sent to an exited PE.

`Clusters` says what all this is for, without roots that ask, refuse, forward and
answer each other: members report to a root, a root that has all reports starts a
group, groups merge, a complete group is announced to its members one by one in two
messages, and members exchange values and go on. In `CouplingClusters` a group is
what a root in its loop has in `coupled_pes`, or what is on its way in `root_info`
after the root lost its role; all of the negotiation (`Find`, `Refuse`, the acks but
the accepting ones, late requests) is a stutter there, and so is leaving, because a
PE that terminates is gone in `Clusters` once it has its last cluster.

### Data structures
`HvrMap` is a bucket's chain of sorted segments, `AvlTree` the recursive trees with
a node `nnil`, `SparseArr` rows of such trees with their sizes, `HvrSet` words of
bits with the cached count, `Pools` the free lists and stacks. They are pure
operators; `Containers` chooses a structure and applies any sequence of its calls,
beside the function, set, sequence or bag it should be.

## 3. Runs and what they show

| run | question | bounds |
|---|---|---|
| `mailbox` | do reservations tile the ring, is free space clear; is the ring a channel, is each reservation delivered | ring of 10 words, messages of 4 and 5 words, 2 senders (one the owner; one gives up after 2 tries, the other retries), 2 sends each |
| `rwlock` | exclusion, exact word, asserts; is it a shared lock, do requested writers enter, does someone always enter | 3 PEs, each reading and writing again and again |
| `bitvec` | row equals membership, copies miss nothing, copies catch up | 3 producers in 2 words, 1 reader, 2 updates each |
| `subs` | once all is quiet, are mirrors and lists of subscribers exact; are mirrors always subscribed and never set back; do subscribers catch up | 2 PEs, 2 partitions; PE 0's vertex moves twice, anywhere; PE 1's stays, and PE 1 may exit; rows read in every iteration and traversal depth 2, or in every second and depth 1; or PE 0's moves away and back while PE 1's changes |
| `subs_unanswered` | finding 2 | 2 PEs whose vertices start in 1 of 2 partitions, move away and back |
| `explicit` | are subscriptions kept, do subscribers end in the owner's version, is an edge at one end at the other, do asserts hold; does all settle | 2 PEs with edges to each other, a change each and an exit, or a chain of 3 PEs; batches of 1 message, 2 batches of subscriptions per iteration |
| `explicit_sub_lost` | finding 3 | the chain, 1 batch per iteration |
| `edges` | are implicit edges those that are wanted, are lists and counts of own neighbors exact, are distances never too small, is who sees a change flagged | 2 own vertices, up to 3 mirrors, 4 places in 2 partitions; two own vertices and two mirrors, or one and three, of which mirrors leave and come back, or three vertices that also move |
| `vertices` | is each slot on the lists of its role, does a pass skip nothing | 3 slots, 2 partitions, up to 2 deletions at a time; symmetric in the partitions, which differ in nothing |
| `containers` | is each structure what it stands for, does each message to a vertex get its turn, does each update to a PE get through | 6 keys in 2 buckets with 3-element segments; sets of 5 values in 2-bit words; 7 values in a row; pools of 3; 2 receivers and 2 messages in their mailbox; a heap of 30 words and 5 blocks of 4 sizes; messages of 4 bytes of 2 bits with a 4-bit checksum; 4 neighbors; two PEs that send at most 7 messages through buffers of 2 into mailboxes of 1 batch |
| `coupling` | do clusters merge consistently, is every request answered, do leavers leave nobody waiting; do iterations end and wishes come true | 3 PEs; each wants the next and roots leave once all are coupled; two couple and leave at any time; a ring of wishes |
| `coupling_dead_lost` | finding 1 | 3 PEs, anyone wants anyone and leaves at any time |

Why these bounds are enough to be interesting. The ring holds one longer message
and a shorter one but not two longer ones, and ten words against lengths of
four and five make messages wrap around the end at several offsets; with two
senders there is a race, a loser that retries, and a message behind one that is
not finished. Of the three PEs at a lock two can read while the third wants to
write, or two contend to write against a reader: the cases the code
distinguishes. Two words with two producers in one of them separate interference
in a word from tearing between words. In `subs` a vertex that goes away and comes
back is what every crossing of messages needs, and a back-off of two is the least
with which an iteration skips the directory. The third program has an exited PE whose
vertex had changed under a window that comes and goes. In `explicit` the two ends of an edge
create it at the same time, in the chain the middle one is subscribed to and
subscribes; a batch of one message fills and is posted in the middle of a handler. Three mirrors and two own
vertices are the least for a mirror between a near and a far one; three slots are
the least in which a vertex has two neighbors on a list and the pool runs out.
A tree of seven values rotates in every direction, and six keys fill the
map's segments of three. Thirty words hold the smallest trie of two levels, and the
four sizes a block for each way `mspace_malloc` finds one. A mailbox of one batch is
full as soon as a PE flushes twice. Three PEs are the least for which a request can be
forwarded, a root lose and have a member that waits.

Every property of a passing run has a mutant in `PROJECT.json`: a plausible bug
in a mapped definition under which TLC finds the property violated. The mutated
forms stand before the definitions they replace.

Deadlock is not checked where the system simply stops: in `bitvec`, whose updates are
bounded, in `edges`, where a behaviour ends with a misread entry or a failed assert, in
`containers` when a pool aborts, a checksummed message is long enough or both PEs have
exited or wait, and in `coupling_dead_lost`, where all PEs may exit.

### Fairness
- `Mailbox`: weak fairness of each sender inside a call, of its puts and
  landings, and of the owner. A PE inside `send` runs, the network delivers, and
  the owner polls its mailboxes in every time step. No PE has to call `send`.
- `RWLock`: weak fairness of each PE's steps within a lock operation. Nobody has to
  start one, and compare-and-swaps may fail for ever for one PE; so what is
  claimed is that a writer whose request bit is set enters and that someone makes
  progress, not that each PE does.
- `DistBitvec`: the network delivers; a subscriber looks at its rows in every
  iteration (the back-off is bounded by `max_producer_info_interval`).
- `Subscriptions`, `ExplicitEdges`, `Coupling`: weak fairness of each PE's loop. PEs
  are processes that run; there is no strong fairness, hence no claim that roots
  which refuse each other eventually meet: a comment in `wait_for_coupling_ack`
  (hoover.cpp:2780) admits that livelock, and `IterationsEnd` and `WantedIsCoupled`
  are claimed for programs whose wishes ascend; the ring of wishes is there for
  the safety properties.

## 4. Findings

Each is a run that TLC finishes with a counterexample to a property the
repository states; details and quotes are in `PROJECT.json`.

1. `coupling_dead_lost`: when clusters merge, the losing root's exited members are
   not handed over, and the merged cluster forgets them and waits for their values.
2. `subs_unanswered`: a producer that was away when a subscriber left, and is back,
   keeps it on its list, takes its next subscription for a duplicate and does not send
   its vertices (hoover.cpp:826, 945, 1641).
3. `explicit_sub_lost`: when more batches of vertex subscriptions arrive than one
   iteration takes, one more is received and dropped.

Passing runs say in which surroundings the same properties hold: PEs that leave
only once all are coupled, or a cluster of all (1, `coupling`), a subscriber or a
producer that is fixed (2, `subs`), fewer batches than the limit (3, `explicit`).

Other properties are stated in the modules and fail on small instances. They have no
run of their own; the counterexamples come back by adding the property to the
configuration named. The first seven contradict what the repository says, which is
quoted where the property is defined.

- `DistBitvec!StillSet` with `Dim0 = 1`, `Dim1 = 3`, `Producers = {0, 2}`, `Readers = {1}`:
  the word index divides by 64 and the bit index takes the remainder by 32
  (hvr_dist_bitvec.cpp:61), so PEs k and k + 32, here k and k + 2, share a bit. Both set
  it, one clears it, and the other no longer reads as set.
- `Subscriptions!OwnersKnowUs` with `Programs <- AwayAndBack`: the answer to a withdrawn
  subscription is accepted by a PE that has subscribed anew, from an owner that has left
  and does not list it; what is cached stays outdated (hoover.cpp:960, 1757).
- `Subscriptions!DeadArePulled` with `Programs <- MoveAndExit`: a new subscription pulls
  an exited producer's vertices before the partition is entered as subscribed, and so
  rejects them (hoover.cpp:847, 1101, 1139, 1759).
- `EdgeDistance!EdgesGoWithMirrors`, in `MCEdges`: deleting a mirror walks `edge_buffer`
  while `update_edge_info` fills it with other rows (hoover.cpp:390, 1703-1724). With two
  own vertices and two mirrors at one place, the deletion of one mirror leaves an own
  vertex its edge to the freed slot.
- `EdgeDistance!DirectionsFlip`, in `MCEdges`: an edge that changes direction is written
  with the same direction at both ends (hoover.cpp:537-543), where a new edge is flipped
  for the neighbor.
- `Vertices!EveryTurnComes`, in `MCVertices`: `update_metadata` deletes the vertex the
  iterator gives next (hoover.cpp:2444), which clears its link. The pass ends there; who
  was marked before the pass has no turn, nor is the next pass due, because
  `any_needs_processing` was cleared when this one began (l.2426).
- `ExplicitEdges!DirectionsAgree` and `AssertsHold` with `Apps <- OnlyInward`: the creator
  flips the direction for the message (hoover.cpp:2346), which the receiver then stores
  relative to the creator's vertex (l.1987): each end takes the edge to come in at its
  own. When the other end forwards the message to its subscribers, the creator among them,
  the assert at hoover.cpp:480 fails there.
- `ExplicitEdges!PopulatedCopiesAreValid` with `Apps <- OnlyMutual` and `Repeats = 2`:
  creating an edge to a vertex that is reserved but not yet filled counts its dummy
  attributes as populated (hoover.cpp:2164-2171, 2405).
- `ExplicitEdges!FinalStatesKnown` with `Apps <- OnlyMutual`: an update of an exited PE
  that is still in the mailbox overwrites the final state that was pulled
  (hoover.cpp:2215-2218).
- `EdgeDistance!NoAssertFails`, in `MCEdges`: when a vertex comes into reach, a
  neighbor that is out of reach (distance 255, not one more than the old distance) is
  not among those recomputed. The two ends of their edge then differ by more than one,
  and deleting it fails the assert at hoover.cpp:527.
- `Vertices!NeedsAreFlagged`, in `MCVertices`: a vertex created in `start_time_step`
  "should be sent and processed" (hvr_vertex.cpp:53-55); the pass right after it clears
  `any_needs_processing` (hoover.cpp:2426) and passes over new vertices, so later
  passes are skipped until something else is marked.
- `Coupling!PartnerAnswers` with three PEs that leave at any time: between two
  announcements a member can name a successor, even itself, as the root, and the
  requester waits for a partner that never negotiates. There a forwarded request
  whose new target exits also violates the assertion (hoover.cpp:2960) that only PEs
  asked directly can be found dead.
- `MailboxBuffer`, in `Containers!BuffersAreExact`, with a program in which PE 1 may send
  2 updates and 4 subscriptions and PE 2 one of each: the flush of updates reads the
  count of messages (hvr_mailbox_buffer.cpp:55), and its callback may, by way of
  `process_vertex_updates`, `set_up_vertex_subscription` and
  `process_vertex_subscriptions`, put an answer in the same buffer. The flush then sends
  what it counted (l.72) and clears the count (l.82), so that the answer is never sent;
  or the nested send has posted the full buffer, and the flush posts it once more.
  The first is a subscriber that does not get the state of its vertex (the comment at
  hoover.cpp:1567 says it is sent). The ghost `overtaken` marks these flushes; the
  programs of the run do not reach them, and the property excepts them.
- `MailboxBuffer`, in `Containers!UpdatesGetThrough`, which excepts it: the flush of
  subscriptions has no callback (hvr_mailbox_buffer.cpp:67) and
  `set_up_vertex_subscription` serves subscriptions only (hoover.cpp:2194-2200).
  A PE that waits there handles no updates and does not look for the dead: two PEs
  that wait so for each other, or one that waits for a PE that has exited, wait for ever.

And noticed while reading, outside what the models hold:

- `hvr_vertex_delete_impl` leaves the edges of a deleted vertex in its
  neighbors' rows. What the deletions of `astray` (section 2) do is not followed.
- `hvr_vertex_trigger_update` marks the vertex and not "any neighbors", as
  inc/hvr_vertex.h:139 has it (hvr_vertex.cpp:108-110).
- What a PE whose window changes has cached of an exited PE's vertex may be outdated: the
  exited PE may have changed between an answer to a withdrawn subscription and its exit,
  and is not asked again. No property of the runs claims otherwise.
- There are two `wrap_actor_to_partition`: that of hoover.cpp:713 allows a vertex in no
  partition, that of inc/hoover.h:467, which `hvr_vertex_delete_impl` uses, asserts
  against it. So vertices in no partition, the ones that may have explicit edges,
  cannot be deleted.
- A message about an edge is marked as forwarded, so that other subscribers of the
  vertex do not hear of the new edge.
- The exit of a producer is looked up only where the producers' row of the
  partition has changed (hoover.cpp:866 and 908); an exit does not change the row,
  so it stays unnoticed until another PE starts or stops producing the partition.
- `handle_dead_msg` refreshes a subscribed vertex without marking the own vertices
  next to it for processing.
- A vertex pulled from an exited PE can be overwritten by older updates of that PE
  that were still in the mailbox; `NeverGoesBack` is therefore about live owners.
- Strict mode with coupling: a PE that waits in the barrier of strict mode does not
  answer a coupling request for which the other waits before the barrier
  (hoover.cpp:3938-3972).
- A send of updates that finds a full mailbox takes in updates from inside its callers
  (hoover.cpp:236): when the caller is handling a batch of updates (l.1913), later
  batches are handled before the rest of this one, and where it walks `edge_buffer`
  (l.1577-1597) the updates may refill the array.
- `hvr_map` inserts into a bucket's last segment only, and removal frees room in
  any: under churn the segments run out (hvr_map.cpp:138). `hvr_map_clear` frees
  pointers into the middle of what was allocated.
- `hvr_send_msg` to a vertex of another PE tries for ever (hoover.cpp:1858): two PEs
  that fill each other's mailboxes in their callbacks wait for each other, and a
  sender waits for a PE that has exited. Messages are kept by slot and not dropped
  when the vertex is deleted, so the next vertex of the slot polls them.

## 5. Proofs

Checked by `tlapm`, for all values of the constants allowed by the named assumptions.

- `MailboxProofs!MailboxTypes`: `TypeOK`, from `MailboxAssumption`. Inductive as
  it stands; the work is in the arithmetic of positions modulo `Cap` (`AtIsSlot`
  and what puts and copies do to a ring), and in the updates of the senders' and
  the owner's records, one step per action.
- `MailboxProofs` on the ring: the invariant `RingInv` gives `MailboxTiles`
  (`ReservationsTile`) and `MailboxFreeIsClear` (`FreeSpaceIsClear`). It counts
  every position as a distance from the read index, so that wrapping around the ring
  disappears from the argument: the reservations, in order, cover the distances
  from 0 to the write index without a gap (`Tiling`); what each word holds follows
  from the stage of the message at its distance, and beyond the last it is clear
  (`Contents`); a sender in the middle of a send owns exactly one reservation,
  at the stage its `pc` says (`SendersHold`); the owner works on the oldest one and has
  cleared what it has read (`OwnerHolds`). `Tiling` alone is not inductive: the
  owner finds the length of the oldest message by what is in the words, and so
  would leave the tiling on a word that a sender had not cleared. From the
  same invariant follows `MailboxImplementsChannel`: each step of the ring is a step
  of `Channel` or a stutter (the fairness part of the refinement stays with TLC).
- `RWLockProofs`: the invariant `IInv` says, beside types, that the word's count
  equals the number of PEs between having added and having removed themselves, that
  the bit is set exactly while one PE is between setting and clearing it, that at
  most one PE is, and that a writer in its section has seen the count at zero. The
  reader count makes it inductive: exclusion alone does not exclude a reader that
  the word has forgotten. From it follow `LockExcludes` (mutual exclusion),
  `WordExact` (the count and bit, and that the asserts on them hold) and
  `LockRefines` (each step is a step of `SharedLock` or a stutter): a compare-and-swap
  that succeeds found the word as in the copy, so a reader that enters did so with no bit
  set, that is with no writer waiting.

- `DistBitvecProofs!RowExact`: `RowIsMembership`, from `BitvecAssumption` and
  `NoSharedBit` (no two producers have the same bit of the same word; with the
  widths of the code, no two are 32 apart in the same 64, which is what `StillSet`
  in section 4 is about). The property speaks of producers with nothing on its way
  and is not inductive; `IInv` says what is on its way instead: behind each atomic
  on a word there is its fence (`Fenced`), the last of a row's atomics makes the bit
  what the producer believes (`EndsIn`), and where none is left the bit is that.
  An atomic may land only if no fence is before it, so of one producer at most the
  first of the atomics on words can, and the last stays the last (`RemovingLast`).
  That each PE's word is in its row (`OwnWord`) is proved on the way.
- `DistBitvecProofs!CopyMissesNothing`: `NoMissedChange`, on top of `RowExact`'s
  invariant. `CopyInv` says of each word a copy has already that the row still has the
  same, or a change that made the difference is still to be announced: an
  increment of the row's number is on its way behind that change's fence, or has
  landed since the copy read the number. A producer's increments are issued
  behind its changes, which is why none can be in front of its own announcement.
- `SubscriptionsProofs!MirrorsSubscribed`: `MirrorsAreSubscribed`, for any number
  of PEs, partitions and any programs. Not inductive, because the window replaces
  the subscribed partitions only after it has dropped, one partition at a time, the
  vertices of those that are left: `IInv` adds that meanwhile a mirrored vertex is in
  a partition that is kept or that is still to be visited.
- `SubscriptionsProofs!MirrorsNeverGoBack`: `NeverGoesBack`, for the same
  range. What a PE mirrors of another's vertex, the updates in its mailbox, those in
  the sender's buffer and the vertex itself are states of one vertex of growing
  age: `OrderInv` says that each queue is sorted, that all of the mirror's state is
  at most the oldest in the mailbox, that at most the oldest in the buffer, and that
  at most the vertex's. Only what comes from the owner's window after its exit is
  outside this order, and the property is about live owners.
- `SubscriptionsProofs!SubscribersAgree`: `ListsAgree`, for any number of PEs and
  partitions and any programs with `HasFixedEnds`. For arbitrary programs the property
  is false: where a subscriber leaves a partition while its producer is away, the
  producer is never told, and may come back (finding 2). `HasFixedEnds` says that of each subscriber and producer
  one is fixed: the partitions the subscriber's window can reach are always the same, or
  the producer's vertex stays in its partition; and that a PE which is neither towards
  itself interacts with its own partition. The module of the run assumes it of
  the run's programs, so TLC evaluates it there. What a producer will hold once it has taken
  the messages under way is `Outcome`: the last message about a subscriber decides, and
  without one what the list says now. `AgreeInv` says in these terms that every
  producer a subscriber knows counts it, or will (`CountInv`); that a row known with the
  directory's number is the directory's row (`DirInv`); and, for the other direction, that
  who keeps its window is counted in its partitions only (`WindowInv`), that a producer
  that stays counts, or will count, only who knows it (`StillInv`), and what a PE at home
  subscribes to (`HomeInv`). Lists are compared between live PEs and dead ones are taken
  off them, so `DeadInv` says that whoever is reported dead is.
- `SubscriptionsProofs!MirrorsExact`: `MirrorsAreExact`, for any number of PEs and
  partitions and any programs with `HasFixedEnds`, whatever changes and whoever exits.
  What a PE will have cached once it has taken the updates
  under way is `Ends`: the last update of a vertex decides, and without one what is cached
  now. `MirrorInv` compares it with the state that the producer has announced last
  (`Told`): whoever the producer counts there, and has not yet told it otherwise, will have
  that state (`ReachInv`); who keeps its window will have that one or none, and none if it
  is not counted (`KnownInv`), because the producer sends an invalidation to the
  subscribers of a partition that its vertex leaves. Buffered answers
  are of the state announced last (`AnswersInv`): they are buffered after an announcement
  and sent with the next, in front of what that adds. A window that changes may keep
  a state after its producer stopped counting it, but only of a vertex that stays
  (`SeenInv`): if its owner is live, its partition is subscribed to (`IInv`) and the first
  part applies. If it has exited, what is cached may be the state of an answer
  to a subscription that was withdrawn, and the property leaves it open.

- `VerticesProofs`, for any number of slots, any partitions and any bound on buffered
  deletions (`SlotsAssumption`): `VerticesSlotsPartition` (`SlotsPartition`), `VerticesPartitionLists`
  (`PartitionListsExact`), `VerticesNothingSkipped` (`NothingIsSkipped`). The properties
  follow links from a head, and what a change of one link does to what is reached from
  elsewhere is not a step-by-step argument. The invariant `IInv` (`VerticesInvariant`)
  has no paths: of each list it says that there is a rank of the slots, numbers all
  different, along which the list is `Sorted`: the head ranks lowest, `next` leads to
  the lowest of higher rank, `prev` leads back. A slot put in front gets a rank below
  the head's and a removal leaves the ranks as they are (`SortedPrepend`,
  `SortedUnlink`). Because the pool shares its links with the neighbors and
  `recently_created` with the partition lists, an action on one list has to leave
  the links of the others' slots alone: `PoolInv`, `NeighborsInv` and `PartsInv` give the
  lists of slots that have none in common, and a slot with links in neither of
  the first two has NULL in both (`NeighborsInv`). `LocalsInv` says of an iterator under
  way that whoever is not visited and not of this iteration ranks at or behind
  it, unless the pass is `cut`; an own vertex created meanwhile goes in front, and is of
  this iteration. `PlaceInv` says where the iterator and the vertex in hand are: in the list
  of own vertices, or in a slot freed since the callback began, whose links are those of a
  slot in none. All of it holds until the behaviour is `astray`, so what is shown
  inductive is `astray \/ IInv`. That walking the links visits exactly the slots of a
  sorted list (`LinkedIsList`), and that `hvr_vertex_iter` finds the first vertex to
  visit (`SeekFinds`), is proved from the rank by induction over sets of slots.

- `CouplingProofs`, for any number of PEs and any `Programs`. The invariants of an
  agreement protocol are hard to state over mailboxes and loop positions, so the
  proof has two levels.
  `ClustersProofs` proves of `Clusters` that a PE is never uncoupled again
  (`ClustersGrow`) and that members that exchange values agree (`ClustersAgree`).
  Its invariant `IInv` speaks of the cluster a PE *claims*: the announced one when an
  announcement is on its way or due, else its own. Claims are equal or disjoint
  (`Apart`), contain what the PE was coupled with (`Owned`), and a group that still
  grows contains each claim it meets (`Closed`). The rest is needed to make that
  inductive: who is in a group waits (`Waiting`), who has reported to a root is in no
  other group (`Reporting`), no member goes past its values while another has still
  to take the cluster (`Together`, with the accounting of values in `Taken`,
  `OnTheWay` and `ToSend`), and a PE that leaves has sent all that the others will
  wait for before they stop to wait for it (`DeadAreThrough`). `OneView` adds that
  announcements of one cluster agree on the root and the dead.
  `CouplingProofs` then shows action by action that each step of `Coupling` is a step
  of `Clusters` or a stutter (`CouplingImplementsClusters`), with an invariant `CInv` of
  its own for what only the mailboxes know: types, announcements in their order and
  once each, one report per member, one set of `root_info` per loser, which waits.
  From the two follow `CoupledStayCoupled` (`ClustersOnlyGrow`) and `CoupledAgree`
  (`MembersAgree`); `CouplingTypes` is the type invariant. Each step of a root uses
  the invariant of the abstract level, for example that in a root's loop there are
  only requests in its mailbox, as the code's asserts say.

- `HvrSetProofs`: for every width of a word, every range and every set, the operations
  of `HvrSet` do to the set of values what their names say and keep the cached count
  (`EmptyHoldsNothing`, `InsertIsExact`, `ClearIsExact`, `FillIsExact`, `WipeIsExact`,
  `MergeIsExact`, `AndIsExact`, `CopyIsExact`, `EqualIsExact`). `Holds` is the
  representation invariant. It says nothing of the bits past the range, which a fill
  sets and a merge, a conjunction or a message carries on; the count is of the range. The
  work is in the division: two values share a bit of a word only if they are one, and
  the vector has a word for every value (`WordOfValue`, `PlaceOfValue`). The run
  `containers` checks the same with short words, and also the least and the greatest
  value, which a recursion computes and the prover cannot follow.

Model-checked only: all liveness (out of the prover's reach under fairness), with it
the fairness part of the refinement of `Channel`; of `Coupling` the properties about answers and the
list of the dead (`AssertsHold`, `RequestsAreAnswered`, `ClusterDeadIsAccurate`), which
hold for the programs of the run and not for any program, as finding 1 shows for the last;
the properties of `ExplicitEdges` and `EdgeDistance`, and of the data structures all but
the sets.
No run evaluates the mapping of `CouplingClusters`: the liveness of `MCCoupling` fills the
time of that run, and the refinement is proved.
What the recursive definitions of `AvlTree`, `HvrMap` and
`EdgeDistance` compute can only be model-checked: those modules are not ones the
prover can reason about, and the facts would need induction over trees.

## 6. Not modelled, and limits

- The map covers three tenths of the repository's C and C++ lines. Of the other
  lines most are vendored: sparsehash is included by no file of the library, and what
  is left of `dlmalloc.c` (realloc, aligned blocks, mapped memory, locks, statistics,
  the global state) is not compiled in or not called. In `hoover.cpp` they are the
  configuration in `hvr_init` and profiling, dumps and printing, which have no state
  to model; then headers, tests and applications.
- Strict mode (hoover.cpp:3953-3964), the wrap-up of `hvr_body` around the coupling, and
  `hvr_finalize`.
- Bounded mailboxes in `Coupling`, `Subscriptions` and `ExplicitEdges`: a send to a
  full mailbox fails after a number of tries or drains incoming updates from inside
  the caller. `MailboxBuffer` has the latter, for two PEs and with messages that are
  numbers. Announcements to exited PEs fill mailboxes nobody reads: in no model.
- `MAX_MSGS_PROCESSED` and batches in `Subscriptions`: it drains message by message;
  `ExplicitEdges` has the batches and the limit.
- One vertex per PE and no edges in `Subscriptions`; no partitions and no deletion
  of vertices in `ExplicitEdges`; no explicit edges in `EdgeDistance`; no edges in
  `Vertices`. So vertices with explicit edges that change partition, and vertices
  deleted while others subscribe to them, are in no model.
- Two PEs in `Subscriptions`: with three, the state space exceeds what a run of
  minutes can hold; the relations are pairwise (producer and subscriber).
- In `Messages` no vertex is deleted, and what a sender on another PE waits for is
  not there: a message arrives when the mailbox has room.
- In `Mspace` alignment, the links of circular lists and the limits of the address space
  are not there, nor that the x86 variant of `compute_tree_index` (dlmalloc.c:2690)
  drops the high bits of a size, which matters from 2^40 bytes on.
- Livelock of coupling roots that refuse each other (hoover.cpp:2780): no fairness
  of the code rules it out, see section 3.
- Weak memory beyond the fences and quiets the code issues; failed PEs (HOOVER
  does not handle them: PEs exit, they do not crash).

## 7. Plan

Written so far: the channels (`Mailbox`, `RWLock`, `MailboxBuffer`), the protocol with
the most state (`Coupling`), directory and subscriptions, explicit edges, the graph a PE
keeps and the structures under it, down to the allocator. What would come next:

1. `MailboxBuffer` in front of the mailboxes of `ExplicitEdges`, so that what an
   overtaken flush loses is seen at the subscriber.
2. Deletion and reuse of a receiver in `Messages` and of a subscribed vertex in
   `ExplicitEdges`.
3. `Body`: strict mode and its barrier around the coupling.
4. Explicit edges of vertices in partitions: `Subscriptions` with `ExplicitEdges`.
