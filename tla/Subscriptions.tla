--------------------------- MODULE Subscriptions ---------------------------
(***************************************************************************)
(* hoover.cpp, update_partition_window and what follows it in an iteration:*)
(* how a PE learns of the remote vertices it may interact with.            *)
(*                                                                         *)
(* A PE publishes the partitions its vertices are in (it produces them) in *)
(* a directory, and subscribes to those its own interact with by a message *)
(* to each producer it finds there.  A producer answers a subscription it  *)
(* did not have with its vertices of the partition, and sends a subscriber *)
(* each later change.  A PE that exits leaves its vertices and partitions  *)
(* in memory for others to pull.                                           *)
(*                                                                         *)
(* Each PE has one vertex; its attributes are a version.  Mailboxes keep   *)
(* the order of their messages (Channel.tla).  A directory row changes and *)
(* is copied in one step together with its sequence number: DistBitvec.tla *)
(* shows that a copy with the row's number misses no completed change, and *)
(* one with an older number is taken again.                                *)
(***************************************************************************)
EXTENDS Integers, Sequences

CONSTANTS
  NPes,           \* number of PEs
  Parts,          \* the partitions
  HVR_INVALID_PARTITION,
  MaxVersion,     \* bound: the changes of any vertex
  Programs        \* what the applications may do

PEs == 0 .. NPes - 1

\* What the application does at a PE: the partitions each one may interact
\* with (might_interact), how far its window reaches, how many iterations it may
\* wait before it reads a row again (max_producer_info_interval), where its
\* vertex starts and where it may be after a change, how often it changes, and
\* whether the PE may exit.
Application ==
  [might_interact : [Parts -> SUBSET Parts], max_graph_traverse_depth : Nat \ {0},
   max_producer_info_interval : Nat \ {0},
   starts : Parts, goes : [Parts -> SUBSET Parts], changes : 0 .. MaxVersion,
   leaves : BOOLEAN]

ASSUME SubscriptionsAssumption ==
  /\ NPes \in Nat \ {0} /\ HVR_INVALID_PARTITION \notin Parts
  /\ MaxVersion \in Nat
  /\ \A program \in Programs : \A p \in PEs : program[p] \in Application

None == [none |-> TRUE]   \* no cached vertex

VARIABLES
  ctx,    \* each PE's context
  dir,    \* the directory and what exited PEs have published
  mail    \* the mailboxes

vars == <<ctx, dir, mail>>

Row == [pes |-> {}, seq_no |-> 0]

Fresh(app) ==
  [pc |-> "publish",
   app |-> app,
   first |-> TRUE,                 \* still before the barrier of hvr_body
   part |-> app.starts,            \* curr_part of the vertex
   prev_part |-> HVR_INVALID_PARTITION,
   ver |-> 0,
   needs_send |-> TRUE,
   produced |-> {},                \* produced_partitions
   subscribed |-> {},              \* subscribed_partitions
   new_subscribed |-> {},          \* new_subscribed_partitions
   todo |-> {},                    \* partitions this phase has still to visit
   producer_info |-> [q \in Parts |-> Row],
   dead_info |-> [q \in Parts |-> {}],
   skip |-> [q \in Parts |-> 0],   \* iterations to next_producer_info_check
   interval |-> [q \in Parts |-> 1],
   remote_subs |-> [q \in Parts |-> {}],  \* remote_partition_subs
   mirror |-> [o \in PEs |-> None],       \* the cached vertices, by owner
   all_dead |-> {},                       \* all_terminated_pes
   out |-> [o \in PEs |-> <<>>]]          \* vertex_update_mailbox_buffer

Init ==
  /\ \E program \in Programs : ctx = [p \in PEs |-> Fresh(program[p])]
  /\ dir = [producers |-> [q \in Parts |-> Row],
            terminated |-> [q \in Parts |-> {}],
            vertex_partitions |-> [p \in PEs |-> HVR_INVALID_PARTITION]]
  /\ mail = [forward |-> [p \in PEs |-> <<>>],
             update |-> [p \in PEs |-> <<>>],
             dead |-> [p \in PEs |-> {}]]

At(p, pc) == ctx[p].pc = pc
SetCtx(p, c) == ctx' = [ctx EXCEPT ![p] = c]

Update(p, c)     == [owner |-> p, part |-> c.part, ver |-> c.ver, invalid |-> FALSE]
Invalidate(p, c) == [Update(p, c) EXCEPT !.invalid = TRUE]
Change(p, q, entered) == [pe |-> p, partition |-> q, entered |-> entered]

\* A message for each PE in S, in the mailboxes or buffers given.
SendAll(boxes, S, m) == [o \in PEs |-> IF o \in S THEN Append(boxes[o], m) ELSE boxes[o]]

(***************************************************************************)
(* Vertices that arrive                                                    *)
(***************************************************************************)
\* Mutant: the partition is not checked.
AcceptedAlways(subscribed, part, ver) == [part |-> part, ver |-> ver]

\* handle_new_vertex: kept if it is in a partition I am subscribed to, and
\* otherwise not, nor is what I had of it.
Accepted(subscribed, part, ver) ==
  IF part \in subscribed THEN [part |-> part, ver |-> ver] ELSE None
handle_new_vertex(c, o, part, ver) ==
  [c EXCEPT !.mirror[o] = Accepted(c.subscribed, part, ver)]
handle_deleted_vertex(c, o) == [c EXCEPT !.mirror[o] = None]

\* pull_vertices_from_dead_pe, for the exited PEs in S: what c then mirrors.
PullVertices(c, S, q) ==
  [o \in PEs |-> IF o \in S /\ dir.vertex_partitions[o] = q
                 THEN Accepted(c.subscribed, ctx[o].part, ctx[o].ver) ELSE c.mirror[o]]

(***************************************************************************)
(* update_vertices                                                         *)
(***************************************************************************)
\* The vertex is processed and its attributes, and with them perhaps its
\* partition, change; or nothing changes.
ChangeVertex(p, q) ==
  LET c == ctx[p]
  IN  /\ At(p, "change")
      /\ c.ver < c.app.changes
      /\ SetCtx(p, [c EXCEPT !.pc = "publish", !.part = q, !.prev_part = c.part,
                             !.ver = @ + 1, !.needs_send = TRUE])
      /\ UNCHANGED <<dir, mail>>

NoChange(p) ==
  /\ At(p, "change")
  /\ SetCtx(p, [ctx[p] EXCEPT !.pc = "publish"])
  /\ UNCHANGED <<dir, mail>>

(***************************************************************************)
(* update_partition_window                                                 *)
(***************************************************************************)
\* The mirrored partitions near enough to a local vertex: with a depth of 1
\* only those with local vertices, else, edges not being modelled, any.
Near(c) ==
  LET mirrored == {c.mirror[o].part : o \in {o \in PEs : c.mirror[o] # None}}
  IN  IF c.app.max_graph_traverse_depth = 1 THEN {{}} ELSE SUBSET mirrored

add_interacting_partitions(parts, c) == UNION {c.app.might_interact[q] : q \in parts}

\* The number does not move.
PublishRowSilently(row, p, was, is) ==
  [row EXCEPT !.pes = IF is THEN @ \union {p} ELSE @ \ {p}]

\* The window is computed, and the directory told of the partitions p stopped
\* and started producing (cases 1 and 2).
PublishRow(row, p, was, is) ==
  IF was = is THEN row
  ELSE [pes |-> IF is THEN row.pes \union {p} ELSE row.pes \ {p},
        seq_no |-> row.seq_no + 1]
Publish(p) ==
  LET c == ctx[p]
  IN  /\ At(p, "publish")
      /\ dir' = [dir EXCEPT !.producers =
           [q \in Parts |-> PublishRow(@[q], p, q \in c.produced, q = c.part)]]
      /\ \E near \in Near(c) :
           LET subs == add_interacting_partitions({c.part} \union near, c)
           IN  SetCtx(p, [c EXCEPT !.pc = "subscribe", !.produced = {c.part},
                                   !.new_subscribed = subs, !.todo = subs])
      /\ UNCHANGED mail

\* handle_new_subscription, case 3.  The pulled vertices are checked against
\* the partitions of the window before this one.
handle_new_subscription(p, q) ==
  LET c == ctx[p]
      told == [c EXCEPT !.todo = @ \ {q},
                        !.producer_info[q] = dir.producers[q],
                        !.dead_info[q] = dir.terminated[q],
                        !.skip[q] = 0, !.interval[q] = 1]
  IN  /\ At(p, "subscribe") /\ q \in c.todo \ c.subscribed
      /\ SetCtx(p, [told EXCEPT !.mirror = PullVertices(c, dir.terminated[q], q)])
      /\ mail' = [mail EXCEPT !.forward =
                    SendAll(@, dir.producers[q].pes, Change(p, q, TRUE))]
      /\ UNCHANGED dir

\* handle_existing_subscription, case 4: too early to look, no change of the
\* row, or a change.
ExistingSkipped(p, q) ==
  /\ At(p, "subscribe") /\ q \in ctx[p].todo \intersect ctx[p].subscribed
  /\ ctx[p].skip[q] > 0
  /\ SetCtx(p, [ctx[p] EXCEPT !.todo = @ \ {q}, !.skip[q] = @ - 1])
  /\ UNCHANGED <<dir, mail>>

Looks(p, q) ==
  /\ At(p, "subscribe") /\ q \in ctx[p].todo \intersect ctx[p].subscribed
  /\ ctx[p].skip[q] = 0

backoff(c, q) ==
  LET twice == 2 * c.interval[q]
  IN  IF twice < c.app.max_producer_info_interval THEN twice ELSE c.app.max_producer_info_interval

ExistingUnchanged(p, q) ==
  LET c == ctx[p]
  IN  /\ Looks(p, q)
      /\ dir.producers[q].seq_no <= c.producer_info[q].seq_no
      /\ SetCtx(p, [c EXCEPT !.todo = @ \ {q}, !.interval[q] = backoff(c, q),
                             !.skip[q] = backoff(c, q) - 1])
      /\ UNCHANGED <<dir, mail>>

NewProducers(c, q) == dir.producers[q].pes \ c.producer_info[q].pes

ExistingChanged(p, q) ==
  LET c == ctx[p]
      told == [c EXCEPT !.todo = @ \ {q},
                        !.producer_info[q] = dir.producers[q],
                        !.dead_info[q] = dir.terminated[q],
                        !.skip[q] = 0, !.interval[q] = 1]
  IN  /\ Looks(p, q)
      /\ dir.producers[q].seq_no > c.producer_info[q].seq_no
      /\ SetCtx(p, [told EXCEPT !.mirror =
                      PullVertices(c, dir.terminated[q] \ c.dead_info[q], q)])
      /\ mail' = [mail EXCEPT !.forward = SendAll(@, NewProducers(c, q), Change(p, q, TRUE))]
      /\ UNCHANGED dir

SubscribeDone(p) ==
  /\ At(p, "subscribe") /\ ctx[p].todo = {}
  /\ SetCtx(p, [ctx[p] EXCEPT !.pc = "unsubscribe",
                              !.todo = ctx[p].subscribed \ ctx[p].new_subscribed])
  /\ UNCHANGED <<dir, mail>>

\* handle_new_unsubscription, case 5: the producers known to p are told, and
\* the vertices it cached of the partition are dropped.
Dropped(c, p, q) ==
  [o \in PEs |-> IF c.mirror[o] # None /\ c.mirror[o].part = q THEN None ELSE c.mirror[o]]

handle_new_unsubscription(p, q) ==
  LET c == ctx[p]
  IN  /\ At(p, "unsubscribe") /\ q \in c.todo
      /\ mail' = [mail EXCEPT !.forward =
                    SendAll(@, c.producer_info[q].pes, Change(p, q, FALSE))]
      /\ SetCtx(p, [c EXCEPT !.todo = @ \ {q}, !.mirror = Dropped(c, p, q),
                             !.producer_info[q] = Row, !.dead_info[q] = {}])
      /\ UNCHANGED dir

WindowDone(p) ==
  /\ At(p, "unsubscribe") /\ ctx[p].todo = {}
  /\ SetCtx(p, [ctx[p] EXCEPT !.pc = "send", !.subscribed = ctx[p].new_subscribed,
                              !.new_subscribed = {}])
  /\ UNCHANGED <<dir, mail>>

(***************************************************************************)
(* send_vertex_updates                                                     *)
(***************************************************************************)
\* Messages for the subscribers of a partition, into the buffers; known dead
\* PEs and the sender itself get none.
ToSubscribers(p, c, q, m) ==
  [c EXCEPT !.out = SendAll(@, c.remote_subs[q] \ ({p} \union c.all_dead), m)]

Invalidated(p, c) ==
  IF c.prev_part \notin {HVR_INVALID_PARTITION, c.part}
  THEN ToSubscribers(p, c, c.prev_part, Invalidate(p, c)) ELSE c
Updated(p, c) == ToSubscribers(p, c, c.part, Update(p, c))
AnnouncedUpdateFirst(p, c) == IF c.needs_send THEN Invalidated(p, Updated(p, c)) ELSE c
Announced(p, c) == IF c.needs_send THEN Updated(p, Invalidated(p, c)) ELSE c

\* hvr_mailbox_buffer_flush: a batch goes behind what a mailbox holds.
FlushedInFront(box, batch) == batch \o box
Flushed(box, batch) == box \o batch

\* The updates are sent and all buffers flushed.  In the first iteration a
\* barrier waits for everyone's window.
Send(p) ==
  LET c == Announced(p, ctx[p])
  IN  /\ At(p, "send")
      /\ ctx[p].first => \A r \in PEs : ctx[r].first =>
                            ctx[r].pc \notin {"publish", "subscribe", "unsubscribe"}
      /\ mail' = [mail EXCEPT !.update = [o \in PEs |-> Flushed(@[o], c.out[o])]]
      /\ SetCtx(p, [c EXCEPT !.pc = "subs", !.first = FALSE, !.needs_send = FALSE,
                             !.out = [o \in PEs |-> <<>>]])
      /\ UNCHANGED dir

(***************************************************************************)
(* process_partition_subscriptions                                         *)
(***************************************************************************)
\* send_all_vertices_in_partition, into the buffer of the subscriber.
send_all_vertices(p, c, pe, q) ==
  IF pe # p /\ c.part = q /\ pe \notin c.all_dead
  THEN [c EXCEPT !.out[pe] = Append(@, Update(p, c))] ELSE c
Subscribed(p, c, m) ==
  IF m.pe \in c.remote_subs[m.partition] THEN c
  ELSE [send_all_vertices(p, c, m.pe, m.partition)
          EXCEPT !.remote_subs[m.partition] = @ \union {m.pe}]

UnsubscribedNever(c, m) == c
Unsubscribed(c, m) == [c EXCEPT !.remote_subs[m.partition] = @ \ {m.pe}]

TakeSubscription(p) ==
  LET m == Head(mail.forward[p])
  IN  /\ At(p, "subs") /\ mail.forward[p] # <<>>
      /\ mail' = [mail EXCEPT !.forward[p] = Tail(@)]
      /\ SetCtx(p, IF m.entered THEN Subscribed(p, ctx[p], m) ELSE Unsubscribed(ctx[p], m))
      /\ UNCHANGED dir

NoSubscription(p) ==
  /\ At(p, "subs") /\ mail.forward[p] = <<>>
  /\ SetCtx(p, [ctx[p] EXCEPT !.pc = "recv"])
  /\ UNCHANGED <<dir, mail>>

(***************************************************************************)
(* process_vertex_updates                                                  *)
(***************************************************************************)
TakeUpdate(p) ==
  LET m == Head(mail.update[p])
  IN  /\ At(p, "recv") /\ mail.update[p] # <<>>
      /\ mail' = [mail EXCEPT !.update[p] = Tail(@)]
      /\ SetCtx(p, IF m.invalid THEN handle_deleted_vertex(ctx[p], m.owner)
                   ELSE handle_new_vertex(ctx[p], m.owner, m.part, m.ver))
      /\ UNCHANGED dir

NoUpdate(p) ==
  /\ At(p, "recv") /\ mail.update[p] = <<>>
  /\ SetCtx(p, [ctx[p] EXCEPT !.pc = "poll"])
  /\ UNCHANGED <<dir, mail>>

(***************************************************************************)
(* The end of an iteration, and of a PE                                    *)
(***************************************************************************)
\* handle_dead_msg: the dead are no subscribers any more.  Their order in the
\* mailbox does not matter.
TakeDead(p) ==
  /\ At(p, "poll")
  /\ \E d \in mail.dead[p] :
       /\ mail' = [mail EXCEPT !.dead[p] = @ \ {d}]
       /\ SetCtx(p, [ctx[p] EXCEPT !.all_dead = @ \union {d},
                                   !.remote_subs = [q \in Parts |-> @[q] \ {d}]])
  /\ UNCHANGED dir

EndIteration(p) ==
  /\ At(p, "poll") /\ mail.dead[p] = {}
  /\ \E pc \in {"change"} \union IF ctx[p].app.leaves THEN {"leave"} ELSE {} :
       SetCtx(p, [ctx[p] EXCEPT !.pc = pc])
  /\ UNCHANGED <<dir, mail>>

\* hvr_body after its loop: everyone is told, then the partition of each
\* local vertex and then the exited PE's partitions are published.
BroadcastDead(p) ==
  /\ At(p, "leave")
  /\ mail' = [mail EXCEPT !.dead = [o \in PEs |-> @[o] \union {p}]]
  /\ SetCtx(p, [ctx[p] EXCEPT !.pc = "persist"])
  /\ UNCHANGED dir

PersistPartitions(p) ==
  /\ At(p, "persist")
  /\ dir' = [dir EXCEPT !.vertex_partitions[p] = ctx[p].part]
  /\ SetCtx(p, [ctx[p] EXCEPT !.pc = "mark"])
  /\ UNCHANGED mail

MarkTerminated(p) ==
  /\ At(p, "mark")
  /\ dir' = [dir EXCEPT !.terminated[ctx[p].part] = @ \union {p}]
  /\ SetCtx(p, [ctx[p] EXCEPT !.pc = "gone"])
  /\ UNCHANGED mail

Step(p) ==
  \/ \E q \in ctx[p].app.goes[ctx[p].part] : ChangeVertex(p, q)
  \/ NoChange(p) \/ Publish(p)
  \/ \E q \in Parts : \/ handle_new_subscription(p, q)
                      \/ ExistingSkipped(p, q)
                      \/ ExistingUnchanged(p, q)
                      \/ ExistingChanged(p, q)
                      \/ handle_new_unsubscription(p, q)
  \/ SubscribeDone(p) \/ WindowDone(p)
  \/ Send(p)
  \/ TakeSubscription(p) \/ NoSubscription(p)
  \/ TakeUpdate(p) \/ NoUpdate(p)
  \/ TakeDead(p) \/ EndIteration(p)
  \/ BroadcastDead(p) \/ PersistPartitions(p) \/ MarkTerminated(p)

Next == \E p \in PEs : Step(p)

Spec == Init /\ [][Next]_vars

\* Every PE keeps running its loop.
FairSpec == Spec /\ \A p \in PEs : WF_vars(Step(p))

-----------------------------------------------------------------------------
(* Properties *)

\* Programs in which of a subscriber and a producer one is fixed: the subscriber's
\* window stays what it is, or the producer's vertex stays where it is.  A PE that
\* has neither interacts with its own partition.
StaysPut(app) == \A q \in Parts : app.goes[q] \subseteq {q}
Windows(app) ==
  {UNION {app.might_interact[q] : q \in {own} \union near} :
     own \in IF StaysPut(app) THEN {app.starts} ELSE Parts,
     near \in IF app.max_graph_traverse_depth = 1 THEN {{}} ELSE SUBSET Parts}
KeepsWindow(app) == \A w \in Windows(app) : w = app.might_interact[app.starts]
InteractsAtHome(app) == \A q \in Parts : q \in app.might_interact[q]
FixedEnd(a, b) == KeepsWindow(a) \/ StaysPut(b)
HasFixedEnds(program) ==
  /\ \A p, o \in PEs : p # o => FixedEnd(program[p], program[o])
  /\ \A p \in PEs : FixedEnd(program[p], program[p]) \/ InteractsAtHome(program[p])

Live == {p \in PEs : ctx[p].pc \notin {"leave", "persist", "mark", "gone"}}
Gone == {p \in PEs : ctx[p].pc = "gone"}

Versions == 0 .. MaxVersion
Messages == [owner : PEs, part : Parts, ver : Versions, invalid : BOOLEAN]
RowType == [pes : SUBSET PEs, seq_no : Nat]

TypeOK ==
  /\ \A p \in PEs :
       LET c == ctx[p]
       IN  /\ c.part \in Parts /\ c.prev_part \in Parts \union {HVR_INVALID_PARTITION}
           /\ c.ver \in Versions /\ c.needs_send \in BOOLEAN
           /\ c.produced \subseteq Parts /\ c.subscribed \subseteq Parts
           /\ c.new_subscribed \subseteq Parts /\ c.todo \subseteq Parts
           /\ c.producer_info \in [Parts -> RowType]
           /\ c.dead_info \in [Parts -> SUBSET PEs]
           /\ c.skip \in [Parts -> 0 .. c.app.max_producer_info_interval - 1]
           /\ c.interval \in [Parts -> 1 .. c.app.max_producer_info_interval]
           /\ c.remote_subs \in [Parts -> SUBSET PEs]
           /\ c.mirror \in [PEs -> [part : Parts, ver : Versions] \union {None}]
           /\ c.all_dead \subseteq PEs
           /\ \A o \in PEs : c.out[o] \in Seq(Messages)
  /\ dir.producers \in [Parts -> RowType]
  /\ dir.terminated \in [Parts -> SUBSET PEs]
  /\ \A p \in PEs : mail.update[p] \in Seq(Messages) /\ mail.dead[p] \subseteq PEs

\* Every live PE is between two iterations, has nothing to send, has read all
\* its mail and knows the newest row of every partition it subscribes to.
Quiet ==
  /\ \A p \in PEs : ctx[p].pc \in {"change", "gone"}
  /\ \A p \in Live :
       /\ mail.forward[p] = <<>> /\ mail.update[p] = <<>> /\ mail.dead[p] = {}
       /\ \A o \in PEs : ctx[p].out[o] = <<>>
       /\ \A q \in ctx[p].subscribed :
            ctx[p].producer_info[q].seq_no = dir.producers[q].seq_no

Shows(p, o) == ctx[p].mirror[o] = [part |-> ctx[o].part, ver |-> ctx[o].ver]

\* Once all is quiet, what a PE has of the vertices of other live PEs is exact: all
\* those of its partitions as they are now, and nothing outdated; and who keeps its
\* window has nothing outdated of an exited PE's vertex either.
\* ("notify all producers of this partition of our subscription (they will
\* then send us a full update)", hoover.cpp:826)
MirrorsAreExact ==
  Quiet => \A p \in Live, o \in PEs :
    /\ o \in Live \ {p} /\ ctx[o].part \in ctx[p].subscribed => Shows(p, o)
    /\ ctx[p].mirror[o] # None /\ (o \in Live \/ KeepsWindow(ctx[p].app)) => Shows(p, o)

\* Once all is quiet, a producer's list of subscribers of its partition is
\* exactly who subscribes to it.
ListsAgree ==
  Quiet => \A o \in Live, p \in Live :
    p \in ctx[o].remote_subs[ctx[o].part] <=> ctx[o].part \in ctx[p].subscribed

\* A new subscription tells the producers, and "they will then send us a full update"
\* (hoover.cpp:827): once all is quiet, a subscriber has the live vertices of its partitions.
SubscribersHaveAll ==
  Quiet => \A p, o \in Live : p # o /\ ctx[o].part \in ctx[p].subscribed => Shows(p, o)

\* An update is not accepted where "we won't be getting updates for it (and the remote PE
\* might not know to update us)" (hoover.cpp:1807): once all is quiet, the owner of a
\* cached vertex, while it lives, lists the PE as subscriber of the partition it is
\* cached in.
OwnersKnowUs ==
  Quiet => \A p, o \in Live :
    ctx[p].mirror[o] # None => p \in ctx[o].remote_subs[ctx[p].mirror[o].part]

\* A cached vertex is always in a partition the PE is subscribed to: else
\* "the remote PE might not know to update us" (hoover.cpp:1807).
MirrorsAreSubscribed ==
  \A p \in PEs, o \in PEs :
    ctx[p].mirror[o] # None => ctx[p].mirror[o].part \in ctx[p].subscribed

\* A cached vertex of a PE that has not exited is never replaced by an older
\* state of it.  (One pulled from an exited PE may be, for a moment, by updates
\* that were still in the mailbox.)
NeverGoesBack ==
  [][\A p \in PEs, o \in Live :
       ctx[p].mirror[o] # None /\ ctx'[p].mirror[o] # None =>
         ctx'[p].mirror[o].ver >= ctx[p].mirror[o].ver]_vars

\* Vertices change finitely often here; then every subscriber gets, and
\* keeps, the final state of every live PE's vertex in its partitions.
SubscribersCatchUp ==
  <>[](\A p \in Live, o \in Live :
         p # o /\ ctx[o].part \in ctx[p].subscribed => Shows(p, o))

\* For a new subscription: "copy down the set of dead PEs that were producers of this
\* partition, and pull vertices from those PEs" (hoover.cpp:1101).  Once all is quiet, a
\* subscriber that has a partition's producer down as dead has that PE's vertices.
DeadArePulled ==
  Quiet => \A p \in Live, o \in Gone :
    ctx[o].part \in ctx[p].subscribed /\ o \in ctx[p].dead_info[ctx[o].part]
      => Shows(p, o)
=============================================================================
