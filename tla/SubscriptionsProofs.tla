------------------------ MODULE SubscriptionsProofs ------------------------
(***************************************************************************)
(* For any number of PEs and any programs: a cached vertex is in a         *)
(* partition its PE is subscribed to, and a cached vertex of a live PE is  *)
(* never replaced by an older state of it.  For any number of PEs and any  *)
(* program with fixed ends: once all is quiet, the subscribers a producer  *)
(* has listed are those that subscribe, and a PE has of live others'       *)
(* vertices what they are, and all of those in the partitions it           *)
(* subscribes to.                                                          *)
(*                                                                         *)
(* The first is not inductive: the subscribed partitions are replaced at   *)
(* the end of the window, after the vertices of those left have been       *)
(* dropped one partition at a time.  Nor is the second: updates of one PE  *)
(* for another pass a buffer and a mailbox on their way to the cache, with *)
(* answers to subscriptions among them, which are the vertex as it was at  *)
(* the answer; all along this way the versions never decrease.  The third  *)
(* takes what the subscriptions and unsubscriptions still in a mailbox     *)
(* make of the list, what each PE knows of the directory's rows, and which *)
(* end of the two is fixed.  The fourth takes besides what the updates     *)
(* still in a mailbox make of the cache.                                   *)
(***************************************************************************)
EXTENDS Subscriptions, SequenceTheorems, TLAPS

-----------------------------------------------------------------------------
(* What is cached is subscribed to *)

Fields ==
  {"pc", "app", "first", "part", "prev_part", "ver", "needs_send", "produced", "subscribed",
   "new_subscribed", "todo", "producer_info", "dead_info", "skip", "interval", "remote_subs",
   "mirror", "all_dead", "out"}

\* As much of a context's type as updating it takes.
IsContext(c) == DOMAIN c = Fields /\ DOMAIN c.mirror = PEs

\* What c mirrors is in its partitions, and while partitions are being left, in
\* one that is kept or not yet visited.
MirrorsKept(c) ==
  \A o \in PEs : c.mirror[o] # None =>
    /\ c.mirror[o].part \in c.subscribed
    /\ c.pc = "unsubscribe" => c.mirror[o].part \in c.new_subscribed \union c.todo

IInv ==
  /\ DOMAIN ctx = PEs
  /\ \A p \in PEs : IsContext(ctx[p]) /\ MirrorsKept(ctx[p])

\* The mirrors and the subscriptions of d are those of c.
Alike(c, d) == IsContext(d) /\ d.mirror = c.mirror /\ d.subscribed = c.subscribed

\* A context without a partition to leave keeps what another like it keeps.
LEMMA AlikeKeeps ==
  ASSUME NEW c, NEW d, MirrorsKept(c), Alike(c, d), d.pc # "unsubscribe"
  PROVE  IsContext(d) /\ MirrorsKept(d)
BY DEF Alike, MirrorsKept

\* A step of p that leaves its context good leaves all of them good.
LEMMA OneContext ==
  ASSUME IInv, NEW p \in PEs, NEW d, SetCtx(p, d), IsContext(d), MirrorsKept(d)
  PROVE  IInv'
<1>1. DOMAIN ctx' = PEs
  BY DEF IInv, SetCtx
<1>2. \A r \in PEs : ctx'[r] = IF r = p THEN d ELSE ctx[r]
  BY DEF IInv, SetCtx
<1>3. ASSUME NEW r \in PEs PROVE IsContext(ctx'[r]) /\ MirrorsKept(ctx'[r])
  BY <1>2 DEF IInv
<1> QED
  BY <1>1, <1>3 DEF IInv, IsContext, MirrorsKept

\* Nothing is mirrored when the program starts.
LEMMA InitIInv == Init => IInv
<1> SUFFICES ASSUME NEW program, ctx = [p \in PEs |-> Fresh(program[p])]
             PROVE  IInv
  BY DEF Init
<1>1. ASSUME NEW p \in PEs PROVE IsContext(ctx[p]) /\ MirrorsKept(ctx[p])
  BY <1>1 DEF Fresh, IsContext, MirrorsKept, Fields
<1> QED
  BY <1>1 DEF IInv

\* What is sent to subscribers changes neither mirrors nor subscriptions.
LEMMA SendingKeeps ==
  ASSUME NEW p, NEW c, NEW q, NEW m, IsContext(c)
  PROVE  Alike(c, ToSubscribers(p, c, q, m))
BY DEF ToSubscribers, IsContext, Alike, Fields

\* A vertex is announced.
LEMMA AnnouncingKeeps ==
  ASSUME NEW p, NEW c, IsContext(c)
  PROVE  Alike(c, Announced(p, c))
<1>1. Alike(c, c)
  BY DEF Alike
<1>2. Alike(c, Invalidated(p, c))
  BY <1>1, SendingKeeps DEF Invalidated
<1>3. Alike(c, Updated(p, Invalidated(p, c)))
  BY <1>2, SendingKeeps DEF Updated, Alike
<1> QED
  BY <1>1, <1>3 DEF Announced

\* What is pulled is in a partition subscribed to, or was there already.
LEMMA PullingKeeps ==
  ASSUME NEW c, NEW S, NEW q, NEW o \in PEs, MirrorsKept(c), PullVertices(c, S, q)[o] # None
  PROVE  PullVertices(c, S, q)[o].part \in c.subscribed
<1>1. CASE PullVertices(c, S, q)[o] = c.mirror[o]
  BY <1>1 DEF MirrorsKept
<1>2. CASE PullVertices(c, S, q)[o] = Accepted(c.subscribed, ctx[o].part, ctx[o].ver)
  BY <1>2 DEF Accepted
<1> QED
  BY <1>1, <1>2 DEF PullVertices

\* A step that changes neither mirrors nor subscriptions, nor leaves p about to
\* leave partitions.
LEMMA AlikeStep ==
  ASSUME IInv, NEW p \in PEs, NEW d, SetCtx(p, d), Alike(ctx[p], d), d.pc # "unsubscribe"
  PROVE  IInv'
BY AlikeKeeps, OneContext DEF IInv

\* The next phase begins.
LEMMA GoingOnKeeps ==
  ASSUME IInv, NEW p \in PEs, NEW to, to # "unsubscribe",
         SetCtx(p, [ctx[p] EXCEPT !.pc = to])
  PROVE  IInv'
<1> DEFINE d == [ctx[p] EXCEPT !.pc = to]
<1>1. Alike(ctx[p], d) /\ d.pc # "unsubscribe"
  BY DEF IInv, IsContext, Alike, Fields
<1> QED
  BY <1>1, AlikeStep

\* The vertex changes.
LEMMA ChangeVertexKeeps ==
  ASSUME IInv, NEW p \in PEs, NEW q, ChangeVertex(p, q)
  PROVE  IInv'
<1> DEFINE c == ctx[p]
           d == [c EXCEPT !.pc = "publish", !.part = q, !.prev_part = c.part,
                          !.ver = @ + 1, !.needs_send = TRUE]
<1>1. SetCtx(p, d)
  BY DEF ChangeVertex
<1>2. Alike(c, d) /\ d.pc # "unsubscribe"
  BY DEF IInv, IsContext, Alike, Fields
<1> QED
  BY <1>1, <1>2, AlikeStep

\* The partitions to subscribe to are listed, not yet subscribed to.
LEMMA PublishKeeps ==
  ASSUME IInv, NEW p \in PEs, Publish(p)
  PROVE  IInv'
<1> DEFINE c == ctx[p]
           d(subs) == [c EXCEPT !.pc = "subscribe", !.produced = {c.part},
                                !.new_subscribed = subs, !.todo = subs]
<1>1. PICK near \in Near(c) :
        SetCtx(p, d(UNION {c.app.might_interact[q] : q \in {c.part} \union near}))
  BY DEF Publish, add_interacting_partitions
<1>2. ASSUME NEW subs PROVE Alike(c, d(subs)) /\ d(subs).pc # "unsubscribe"
  BY DEF IInv, IsContext, Alike, Fields
<1> QED
  BY <1>1, <1>2, AlikeStep

\* A row that is not read, or read and found as it was.
LEMMA ExistingKeeps ==
  ASSUME IInv, NEW p \in PEs, NEW q, ExistingSkipped(p, q) \/ ExistingUnchanged(p, q)
  PROVE  IInv'
<1> DEFINE c == ctx[p]
           skipped == [c EXCEPT !.todo = @ \ {q}, !.skip[q] = @ - 1]
           looked == [c EXCEPT !.todo = @ \ {q}, !.interval[q] = backoff(c, q),
                               !.skip[q] = backoff(c, q) - 1]
<1>1. SetCtx(p, skipped) \/ SetCtx(p, looked)
  BY DEF ExistingSkipped, ExistingUnchanged
<1>2. c.pc = "subscribe"
  BY DEF ExistingSkipped, ExistingUnchanged, Looks, At
<1>3. /\ Alike(c, skipped) /\ skipped.pc # "unsubscribe"
      /\ Alike(c, looked) /\ looked.pc # "unsubscribe"
  BY <1>2 DEF IInv, IsContext, Alike, Fields
<1> QED
  BY <1>1, <1>3, AlikeStep

\* An exit is taken note of.
LEMMA TakeDeadKeeps ==
  ASSUME IInv, NEW p \in PEs, TakeDead(p)
  PROVE  IInv'
<1> DEFINE c == ctx[p]
           d(x) == [c EXCEPT !.all_dead = @ \union {x},
                             !.remote_subs = [q \in Parts |-> @[q] \ {x}]]
<1>1. PICK x : SetCtx(p, d(x))
  BY DEF TakeDead
<1>2. c.pc = "poll"
  BY DEF TakeDead, At
<1>3. Alike(c, d(x)) /\ d(x).pc # "unsubscribe"
  BY <1>2 DEF IInv, IsContext, Alike, Fields
<1> QED
  BY <1>1, <1>3, AlikeStep

\* The steps that only go on to the next phase, as far as p's context goes.
LEMMA PhaseKeeps ==
  ASSUME IInv, NEW p \in PEs,
         \/ NoChange(p) \/ NoSubscription(p) \/ NoUpdate(p) \/ EndIteration(p)
         \/ BroadcastDead(p) \/ PersistPartitions(p) \/ MarkTerminated(p)
  PROVE  IInv'
<1>1. \E to \in {"publish", "recv", "poll", "change", "leave", "persist", "mark", "gone"} :
        SetCtx(p, [ctx[p] EXCEPT !.pc = to])
  BY DEF NoChange, NoSubscription, NoUpdate, EndIteration, BroadcastDead,
         PersistPartitions, MarkTerminated
<1> QED
  BY <1>1, GoingOnKeeps

\* A step that entered a partition, or saw new producers of one, may have pulled
\* vertices of exited PEs.
LEMMA WindowStepKeeps ==
  ASSUME IInv, NEW p \in PEs, NEW q \in Parts,
         handle_new_subscription(p, q) \/ ExistingChanged(p, q)
  PROVE  IInv'
<1> DEFINE c == ctx[p]
           S == IF handle_new_subscription(p, q) THEN dir.terminated[q]
                ELSE dir.terminated[q] \ c.dead_info[q]
           told == [c EXCEPT !.todo = @ \ {q},
                             !.producer_info[q] = dir.producers[q],
                             !.dead_info[q] = dir.terminated[q],
                             !.skip[q] = 0, !.interval[q] = 1]
           d == [told EXCEPT !.mirror = PullVertices(c, S, q)]
<1>0. IsContext(c) /\ MirrorsKept(c)
  BY DEF IInv
<1>1. SetCtx(p, d) /\ c.pc = "subscribe"
  BY DEF handle_new_subscription, ExistingChanged, Looks, At
<1>2. DOMAIN told = Fields /\ told.subscribed = c.subscribed /\ told.pc = c.pc
  BY <1>0 DEF IsContext, Fields
<1> HIDE DEF told, S
<1>3. IsContext(d)
  BY <1>2 DEF IsContext, Fields, PullVertices
<1>4. d.mirror = PullVertices(c, S, q) /\ d.subscribed = c.subscribed /\ d.pc = "subscribe"
  BY <1>1, <1>2 DEF Fields
<1> HIDE DEF d
<1>5. MirrorsKept(d)
  BY <1>0, <1>4, PullingKeeps DEF MirrorsKept
<1> QED
  BY <1>1, <1>3, <1>5, OneContext

\* The end of the subscriptions: every mirror is in a partition that is kept
\* or still to be left.
LEMMA SubscribeDoneKeeps ==
  ASSUME IInv, NEW p \in PEs, SubscribeDone(p)
  PROVE  IInv'
<1> DEFINE c == ctx[p]
           d == [c EXCEPT !.pc = "unsubscribe", !.todo = c.subscribed \ c.new_subscribed]
<1>0. IsContext(c) /\ MirrorsKept(c)
  BY DEF IInv
<1>1. SetCtx(p, d)
  BY DEF SubscribeDone
<1>2. IsContext(d)
  BY <1>0 DEF IsContext, Fields
<1>3. /\ d.mirror = c.mirror /\ d.subscribed = c.subscribed
      /\ d.new_subscribed = c.new_subscribed /\ d.todo = c.subscribed \ c.new_subscribed
  BY <1>0 DEF IsContext, Fields
<1> HIDE DEF d
<1>4. MirrorsKept(d)
  BY <1>0, <1>3 DEF MirrorsKept
<1> QED
  BY <1>1, <1>2, <1>4, OneContext

\* A partition is left: what was mirrored of it is gone.
LEMMA UnsubscriptionKeeps ==
  ASSUME IInv, NEW p \in PEs, NEW q \in Parts, handle_new_unsubscription(p, q)
  PROVE  IInv'
<1> DEFINE c == ctx[p]
           d == [c EXCEPT !.todo = @ \ {q}, !.mirror = Dropped(c, p, q),
                          !.producer_info[q] = Row, !.dead_info[q] = {}]
<1>0. IsContext(c) /\ MirrorsKept(c)
  BY DEF IInv
<1>1. SetCtx(p, d) /\ c.pc = "unsubscribe"
  BY DEF handle_new_unsubscription, At
<1>2. IsContext(d)
  BY <1>0 DEF IsContext, Fields, Dropped
<1>3. /\ d.mirror = Dropped(c, p, q) /\ d.subscribed = c.subscribed
      /\ d.new_subscribed = c.new_subscribed /\ d.todo = c.todo \ {q}
  BY <1>0 DEF IsContext, Fields
<1> HIDE DEF d
<1>4. ASSUME NEW o \in PEs, d.mirror[o] # None
      PROVE  d.mirror[o] = c.mirror[o] /\ c.mirror[o].part # q
  BY <1>3, <1>4 DEF Dropped
<1>5. MirrorsKept(d)
  BY <1>0, <1>1, <1>3, <1>4 DEF MirrorsKept
<1> QED
  BY <1>1, <1>2, <1>5, OneContext

\* The window is done: all partitions to leave have been, so every mirror is in
\* one of the new partitions.
LEMMA WindowDoneKeeps ==
  ASSUME IInv, NEW p \in PEs, WindowDone(p)
  PROVE  IInv'
<1> DEFINE c == ctx[p]
           d == [c EXCEPT !.pc = "send", !.subscribed = c.new_subscribed, !.new_subscribed = {}]
<1>0. IsContext(c) /\ MirrorsKept(c)
  BY DEF IInv
<1>1. SetCtx(p, d) /\ c.pc = "unsubscribe" /\ c.todo = {}
  BY DEF WindowDone, At
<1>2. IsContext(d)
  BY <1>0 DEF IsContext, Fields
<1>3. d.mirror = c.mirror /\ d.subscribed = c.new_subscribed /\ d.pc = "send"
  BY <1>0 DEF IsContext, Fields
<1> HIDE DEF d
<1>4. MirrorsKept(d)
  BY <1>0, <1>1, <1>3 DEF MirrorsKept
<1> QED
  BY <1>1, <1>2, <1>4, OneContext

\* Updates are sent, with whatever waited in the buffers.
LEMMA SendKeeps ==
  ASSUME IInv, NEW p \in PEs, Send(p)
  PROVE  IInv'
<1> DEFINE c == Announced(p, ctx[p])
           d == [c EXCEPT !.pc = "subs", !.first = FALSE, !.needs_send = FALSE,
                          !.out = [o \in PEs |-> <<>>]]
<1>0. IsContext(ctx[p]) /\ MirrorsKept(ctx[p])
  BY DEF IInv
<1>1. SetCtx(p, d)
  BY DEF Send
<1>2. Alike(ctx[p], c)
  BY <1>0, AnnouncingKeeps
<1> HIDE DEF c
<1>3. Alike(ctx[p], d) /\ d.pc # "unsubscribe"
  BY <1>2 DEF Alike, IsContext, Fields
<1> QED
  BY <1>0, <1>1, <1>3, AlikeKeeps, OneContext

\* A subscription is taken in, and answered into the buffers.
LEMMA TakeSubscriptionKeeps ==
  ASSUME IInv, NEW p \in PEs, TakeSubscription(p)
  PROVE  IInv'
<1> DEFINE c == ctx[p]
           m == Head(mail.forward[p])
           e == send_all_vertices(p, c, m.pe, m.partition)
           d == IF m.entered THEN Subscribed(p, c, m) ELSE Unsubscribed(c, m)
<1>0. IsContext(c) /\ MirrorsKept(c)
  BY DEF IInv
<1>1. SetCtx(p, d) /\ c.pc = "subs"
  BY DEF TakeSubscription, At
<1>2. Alike(c, e) /\ e.pc = "subs"
  BY <1>0, <1>1 DEF send_all_vertices, Alike, IsContext, Fields
<1>3. Alike(c, c)
  BY <1>0 DEF Alike
<1>4. CASE m.entered
  <2> HIDE DEF e
  <2>1. d = c \/ d = [e EXCEPT !.remote_subs[m.partition] = @ \union {m.pe}]
    BY <1>4 DEF Subscribed, e
  <2>2. Alike(c, d) /\ d.pc = "subs"
    BY <1>1, <1>2, <1>3, <2>1 DEF Alike, IsContext, Fields
  <2> QED
    BY <1>0, <1>1, <2>2, AlikeKeeps, OneContext
<1>5. CASE ~m.entered
  <2>1. d = [c EXCEPT !.remote_subs[m.partition] = @ \ {m.pe}]
    BY <1>5 DEF Unsubscribed
  <2>2. Alike(c, d) /\ d.pc = "subs"
    BY <1>0, <1>1, <2>1 DEF Alike, IsContext, Fields
  <2> QED
    BY <1>0, <1>1, <2>2, AlikeKeeps, OneContext
<1> QED
  BY <1>4, <1>5

\* An update is taken in: a vertex elsewhere is not mirrored.
LEMMA TakeUpdateKeeps ==
  ASSUME IInv, NEW p \in PEs, TakeUpdate(p)
  PROVE  IInv'
<1> DEFINE c == ctx[p]
           m == Head(mail.update[p])
           taken == IF m.invalid THEN None ELSE Accepted(c.subscribed, m.part, m.ver)
           d == [c EXCEPT !.mirror[m.owner] = taken]
<1>0. IsContext(c) /\ MirrorsKept(c)
  BY DEF IInv
<1>1. SetCtx(p, d) /\ c.pc = "recv"
  BY DEF TakeUpdate, At, handle_deleted_vertex, handle_new_vertex
<1>2. taken # None => taken.part \in c.subscribed
  BY DEF Accepted
<1> HIDE DEF taken, m
<1>3. IsContext(d)
  BY <1>0 DEF IsContext, Fields
<1>4. d.mirror = [c.mirror EXCEPT ![m.owner] = taken] /\ d.subscribed = c.subscribed /\ d.pc = "recv"
  BY <1>0, <1>1 DEF IsContext, Fields
<1> HIDE DEF d
<1>5. ASSUME NEW o \in PEs PROVE d.mirror[o] = IF o = m.owner THEN taken ELSE c.mirror[o]
  BY <1>0, <1>4 DEF IsContext
<1>6. MirrorsKept(d)
  BY <1>0, <1>2, <1>4, <1>5 DEF MirrorsKept
<1> QED
  BY <1>1, <1>3, <1>6, OneContext

\* Every step keeps what is mirrored within the subscriptions.
LEMMA NextIInv == IInv /\ [Next]_vars => IInv'
<1> SUFFICES ASSUME IInv, [Next]_vars PROVE IInv'
  OBVIOUS
<1>1. CASE UNCHANGED vars
  BY <1>1 DEF vars, IInv, IsContext, MirrorsKept
<1>2. CASE Next
  <2>1. PICK p \in PEs : Step(p)
    BY <1>2 DEF Next
  <2> QED
    BY <2>1, ChangeVertexKeeps, PublishKeeps, ExistingKeeps, TakeDeadKeeps, PhaseKeeps,
       WindowStepKeeps, SubscribeDoneKeeps, UnsubscriptionKeeps,
       WindowDoneKeeps, SendKeeps, TakeSubscriptionKeeps, TakeUpdateKeeps DEF Step
<1> QED
  BY <1>1, <1>2

\* A PE never holds a vertex of a partition it is not subscribed to, of which
\* nobody would tell it the changes, however subscriptions, updates and exits
\* cross.
THEOREM MirrorsSubscribed == Spec => []MirrorsAreSubscribed
<1>1. IInv => MirrorsAreSubscribed
  BY DEF IInv, MirrorsKept, MirrorsAreSubscribed
<1> QED
  BY <1>1, InitIInv, NextIInv, PTL DEF Spec

-----------------------------------------------------------------------------
(* What is cached never goes back *)

\* The messages, and what is cached of a vertex.
UpdateMessages == [owner : PEs, part : Parts, ver : Nat, invalid : BOOLEAN]
Cached == [part : Parts, ver : Nat]

\* The messages of o in s are in the order of its versions; those in s are no
\* newer than those in t; none is newer or older than v.
Sorted(s, o) ==
  \A i, j \in DOMAIN s : i <= j /\ s[i].owner = o /\ s[j].owner = o => s[i].ver <= s[j].ver
NoNewer(s, t, o) ==
  \A i \in DOMAIN s, j \in DOMAIN t : s[i].owner = o /\ t[j].owner = o => s[i].ver <= t[j].ver
AtMost(s, o, v)  == \A i \in DOMAIN s : s[i].owner = o => s[i].ver <= v
AtLeast(s, o, v) == \A i \in DOMAIN s : s[i].owner = o => v <= s[i].ver

\* What is cached of o, what of o is in the mailbox and then in o's buffer, and
\* o's vertex itself follow each other in the order of o's versions.
InOrder(cached, box, buffer, o, v) ==
  /\ Sorted(box, o) /\ Sorted(buffer, o) /\ NoNewer(box, buffer, o)
  /\ AtMost(box, o, v) /\ AtMost(buffer, o, v)
  /\ cached # None => cached.ver <= v /\ AtLeast(box, o, cached.ver) /\ AtLeast(buffer, o, cached.ver)

\* The types of what the order is about.
OrderTypes ==
  /\ \A p \in PEs :
       /\ ctx[p].app \in Application /\ ctx[p].part \in Parts /\ ctx[p].ver \in Nat
       /\ ctx[p].mirror \in [PEs -> Cached \union {None}]
  /\ DOMAIN mail = {"forward", "update", "dead"}
  /\ mail.update \in [PEs -> Seq(UpdateMessages)]
  /\ DOMAIN dir = {"producers", "terminated", "vertex_partitions"}
  /\ dir.terminated \in [Parts -> SUBSET PEs]

\* All updates in s are of o.
OnlyOf(s, o) == \A i \in DOMAIN s : s[i].owner = o

\* What p buffers when its context is c is its own, and if p is live, in order
\* with what others have of it.
Posts(p, c) ==
  /\ c.out \in [PEs -> Seq(UpdateMessages)]
  /\ \A r \in PEs : OnlyOf(c.out[r], p)
  /\ p \in Live => \A r \in PEs :
       InOrder(ctx[r].mirror[p], mail.update[r], c.out[r], p, c.ver)

\* All post in order, and who is published as terminated is live no more.
OrderInv ==
  /\ OrderTypes
  /\ \A q \in Parts : dir.terminated[q] \intersect Live = {}
  /\ \A p \in PEs : Posts(p, ctx[p])

-----------------------------------------------------------------------------
(* Sequences of updates *)

\* An update behind a sequence of no newer ones.
LEMMA AppendOrder ==
  ASSUME NEW s \in Seq(UpdateMessages), NEW m \in UpdateMessages, NEW o
  PROVE  /\ Append(s, m) \in Seq(UpdateMessages)
         /\ OnlyOf(s, o) /\ m.owner = o => OnlyOf(Append(s, m), o)
         /\ \A v \in Nat : AtMost(s, o, v) /\ m.ver <= v => AtMost(Append(s, m), o, v)
         /\ \A v \in Nat : AtLeast(s, o, v) /\ v <= m.ver => AtLeast(Append(s, m), o, v)
         /\ Sorted(s, o) /\ AtMost(s, o, m.ver) => Sorted(Append(s, m), o)
         /\ \A b \in Seq(UpdateMessages) :
              NoNewer(b, s, o) /\ AtMost(b, o, m.ver) => NoNewer(b, Append(s, m), o)
<1> DEFINE t == Append(s, m)
<1>1. /\ t \in Seq(UpdateMessages) /\ Len(s) \in Nat
      /\ DOMAIN s = 1 .. Len(s) /\ DOMAIN t = 1 .. Len(s) + 1
      /\ \A i \in 1 .. Len(s) : t[i] = s[i]
      /\ t[Len(s) + 1] = m
  OBVIOUS
<1>2. ASSUME NEW i \in DOMAIN t
      PROVE  (i \in DOMAIN s /\ t[i] = s[i]) \/ (i = Len(s) + 1 /\ t[i] = m)
  <2>1. i \in 1 .. Len(s) + 1
    BY <1>1
  <2>2. i \in 1 .. Len(s) \/ i = Len(s) + 1
    BY <1>1, <2>1
  <2> HIDE DEF t
  <2> QED
    BY <1>1, <2>2
<1>3. m.ver \in Nat /\ \A i \in DOMAIN s : s[i].ver \in Nat
  <2>1. \A i \in DOMAIN s : s[i] \in UpdateMessages
    OBVIOUS
  <2>2. \A x \in UpdateMessages : x.ver \in Nat
    BY DEF UpdateMessages
  <2> QED
    BY <2>1, <2>2
<1> HIDE DEF t
<1>4. OnlyOf(s, o) /\ m.owner = o => OnlyOf(t, o)
  BY <1>2 DEF OnlyOf
<1>5. ASSUME NEW v \in Nat, AtMost(s, o, v), m.ver <= v PROVE AtMost(t, o, v)
  <2> SUFFICES ASSUME NEW i \in DOMAIN t, t[i].owner = o
               PROVE  t[i].ver <= v
    BY DEF AtMost
  <2> QED
    BY <1>2, <1>5 DEF AtMost
<1>6. ASSUME NEW v \in Nat, AtLeast(s, o, v), v <= m.ver PROVE AtLeast(t, o, v)
  <2> SUFFICES ASSUME NEW i \in DOMAIN t, t[i].owner = o
               PROVE  v <= t[i].ver
    BY DEF AtLeast
  <2> QED
    BY <1>2, <1>6 DEF AtLeast
<1>7. ASSUME Sorted(s, o), AtMost(s, o, m.ver) PROVE Sorted(t, o)
  <2> SUFFICES ASSUME NEW i \in DOMAIN t, NEW j \in DOMAIN t, i <= j,
                      t[i].owner = o, t[j].owner = o
               PROVE  t[i].ver <= t[j].ver
    BY DEF Sorted
  <2>1. CASE j = Len(s) + 1
    BY <1>1, <1>2, <1>3, <1>7, <2>1 DEF AtMost
  <2>2. CASE j \in DOMAIN s
    <3>1. i \in DOMAIN s
      BY <1>1, <2>2
    <3> QED
      BY <1>1, <1>7, <2>2, <3>1 DEF Sorted
  <2> QED
    BY <1>1, <2>1, <2>2
<1>8. \A b \in Seq(UpdateMessages) :
        NoNewer(b, s, o) /\ AtMost(b, o, m.ver) => NoNewer(b, t, o)
  BY <1>2 DEF NoNewer, AtMost
<1> QED
  BY <1>1, <1>4, <1>5, <1>6, <1>7, <1>8 DEF t

\* One sequence behind another.
LEMMA ConcatOrder ==
  ASSUME NEW s \in Seq(UpdateMessages), NEW t \in Seq(UpdateMessages), NEW o
  PROVE  /\ s \o t \in Seq(UpdateMessages)
         /\ \A v \in Nat : AtMost(s, o, v) /\ AtMost(t, o, v) => AtMost(s \o t, o, v)
         /\ \A v \in Nat : AtLeast(s, o, v) /\ AtLeast(t, o, v) => AtLeast(s \o t, o, v)
         /\ Sorted(s, o) /\ Sorted(t, o) /\ NoNewer(s, t, o) => Sorted(s \o t, o)
         /\ \A b \in Seq(UpdateMessages) :
              NoNewer(s, b, o) /\ NoNewer(t, b, o) => NoNewer(s \o t, b, o)
<1> DEFINE u == s \o t
<1>1. /\ u \in Seq(UpdateMessages) /\ Len(s) \in Nat /\ Len(t) \in Nat
      /\ DOMAIN s = 1 .. Len(s) /\ DOMAIN t = 1 .. Len(t) /\ DOMAIN u = 1 .. Len(s) + Len(t)
      /\ \A i \in 1 .. Len(s) + Len(t) : u[i] = IF i <= Len(s) THEN s[i] ELSE t[i - Len(s)]
  BY ConcatProperties
<1> HIDE DEF u
<1>2. ASSUME NEW i \in DOMAIN u, i > Len(s)
      PROVE  i - Len(s) \in DOMAIN t /\ u[i] = t[i - Len(s)]
  BY <1>1, <1>2
<1>3. ASSUME NEW i \in DOMAIN u, ~(i > Len(s))
      PROVE  i \in DOMAIN s /\ u[i] = s[i]
  BY <1>1, <1>3
<1>4. \A i \in DOMAIN u : (\E j \in DOMAIN s : u[i] = s[j]) \/ (\E j \in DOMAIN t : u[i] = t[j])
  BY <1>2, <1>3
<1>5. \A v \in Nat : AtMost(s, o, v) /\ AtMost(t, o, v) => AtMost(u, o, v)
  BY <1>4 DEF AtMost
<1>6. \A v \in Nat : AtLeast(s, o, v) /\ AtLeast(t, o, v) => AtLeast(u, o, v)
  BY <1>4 DEF AtLeast
<1>7. \A b \in Seq(UpdateMessages) :
        NoNewer(s, b, o) /\ NoNewer(t, b, o) => NoNewer(u, b, o)
  BY <1>4 DEF NoNewer
<1>8. ASSUME Sorted(s, o), Sorted(t, o), NoNewer(s, t, o) PROVE Sorted(u, o)
  <2> SUFFICES ASSUME NEW i \in DOMAIN u, NEW j \in DOMAIN u, i <= j,
                      u[i].owner = o, u[j].owner = o
               PROVE  u[i].ver <= u[j].ver
    BY DEF Sorted
  <2>1. CASE i > Len(s)
    <3>1. j > Len(s) /\ i - Len(s) <= j - Len(s)
      BY <1>1, <2>1
    <3> QED
      BY <1>2, <1>8, <2>1, <3>1 DEF Sorted
  <2>2. CASE ~(i > Len(s)) /\ j > Len(s)
    BY <1>2, <1>3, <1>8, <2>2 DEF NoNewer
  <2>3. CASE ~(i > Len(s)) /\ ~(j > Len(s))
    BY <1>3, <1>8, <2>3 DEF Sorted
  <2> QED
    BY <2>1, <2>2, <2>3
<1> QED
  BY <1>1, <1>5, <1>6, <1>7, <1>8 DEF u

\* What is behind the first update of a sequence in order is no older.
LEMMA TailOrder ==
  ASSUME NEW s \in Seq(UpdateMessages), s # <<>>, NEW o
  PROVE  /\ Tail(s) \in Seq(UpdateMessages) /\ Head(s) \in UpdateMessages
         /\ \A v \in Nat : AtMost(s, o, v) => AtMost(Tail(s), o, v)
         /\ \A v \in Nat : AtLeast(s, o, v) => AtLeast(Tail(s), o, v)
         /\ Sorted(s, o) => Sorted(Tail(s), o)
         /\ Head(s).owner = o /\ Sorted(s, o) => AtLeast(Tail(s), o, Head(s).ver)
         /\ \A b : NoNewer(s, b, o) => NoNewer(Tail(s), b, o)
         /\ Head(s).owner = o => /\ \A v \in Nat : AtMost(s, o, v) => Head(s).ver <= v
                                 /\ \A v \in Nat : AtLeast(s, o, v) => v <= Head(s).ver
                                 /\ \A b : NoNewer(s, b, o) => AtLeast(b, o, Head(s).ver)
<1> DEFINE t == Tail(s)
           h == Head(s)
<1>1. /\ t \in Seq(UpdateMessages) /\ h \in UpdateMessages /\ h = s[1]
      /\ Len(s) \in Nat \ {0} /\ DOMAIN s = 1 .. Len(s) /\ DOMAIN t = 1 .. Len(s) - 1
      /\ \A i \in 1 .. Len(s) - 1 : t[i] = s[i + 1]
  OBVIOUS
<1> HIDE DEF t, h
<1>2. \A i \in DOMAIN t : i + 1 \in DOMAIN s /\ t[i] = s[i + 1] /\ 1 <= i + 1
  BY <1>1
<1>3. 1 \in DOMAIN s
  BY <1>1
<1>4. \A v \in Nat : AtMost(s, o, v) => AtMost(t, o, v)
  BY <1>2 DEF AtMost
<1>5. \A v \in Nat : AtLeast(s, o, v) => AtLeast(t, o, v)
  BY <1>2 DEF AtLeast
<1>6. Sorted(s, o) => Sorted(t, o)
  <2> SUFFICES ASSUME Sorted(s, o), NEW i \in DOMAIN t, NEW j \in DOMAIN t, i <= j,
                      t[i].owner = o, t[j].owner = o
               PROVE  t[i].ver <= t[j].ver
    BY DEF Sorted
  <2>1. i + 1 <= j + 1
    BY <1>1
  <2> QED
    BY <1>2, <2>1 DEF Sorted
<1>7. h.owner = o /\ Sorted(s, o) => AtLeast(t, o, h.ver)
  BY <1>1, <1>2, <1>3 DEF Sorted, AtLeast
<1>8. \A b : NoNewer(s, b, o) => NoNewer(t, b, o)
  BY <1>2 DEF NoNewer
<1>9. h.owner = o => /\ \A v \in Nat : AtMost(s, o, v) => h.ver <= v
                     /\ \A v \in Nat : AtLeast(s, o, v) => v <= h.ver
                     /\ \A b : NoNewer(s, b, o) => AtLeast(b, o, h.ver)
  BY <1>1, <1>3 DEF AtMost, AtLeast, NoNewer
<1> QED
  BY <1>1, <1>4, <1>5, <1>6, <1>7, <1>8, <1>9 DEF t, h

\* A PE has no update of another in its buffers.
LEMMA OthersOrder ==
  ASSUME NEW s \in Seq(UpdateMessages), NEW p, OnlyOf(s, p), NEW o, o # p
  PROVE  /\ Sorted(s, o)
         /\ \A v : AtMost(s, o, v) /\ AtLeast(s, o, v)
         /\ \A b : NoNewer(b, s, o) /\ NoNewer(s, b, o)
BY DEF OnlyOf, Sorted, AtMost, AtLeast, NoNewer
\* A PE posts its vertex as it is.
LEMMA PostInOrder ==
  ASSUME NEW k \in Cached \union {None}, NEW box \in Seq(UpdateMessages),
         NEW buffer \in Seq(UpdateMessages), NEW o, NEW v \in Nat, InOrder(k, box, buffer, o, v),
         NEW m \in UpdateMessages, m.ver = v
  PROVE  InOrder(k, box, Append(buffer, m), o, v)
<1>1. k # None => k.ver \in Nat
  BY DEF Cached
<1>0. m.ver <= v
  OBVIOUS
<1> DEFINE b == Append(buffer, m)
<1>2. /\ AtMost(buffer, o, v) => AtMost(b, o, v)
      /\ \A w \in Nat : AtLeast(buffer, o, w) /\ w <= v => AtLeast(b, o, w)
      /\ Sorted(buffer, o) /\ AtMost(buffer, o, v) => Sorted(b, o)
      /\ NoNewer(box, buffer, o) /\ AtMost(box, o, v) => NoNewer(box, b, o)
  <2>1. /\ AtMost(buffer, o, v) /\ m.ver <= v => AtMost(b, o, v)
        /\ \A w \in Nat : AtLeast(buffer, o, w) /\ w <= m.ver => AtLeast(b, o, w)
        /\ Sorted(buffer, o) /\ AtMost(buffer, o, m.ver) => Sorted(b, o)
        /\ NoNewer(box, buffer, o) /\ AtMost(box, o, m.ver) => NoNewer(box, b, o)
    BY AppendOrder
  <2> QED
    BY <1>0, <2>1
<1> HIDE DEF b
<1> QED
  BY <1>1, <1>2 DEF InOrder, b

\* A buffer is flushed: o's own ...
LEMMA FlushInOrder ==
  ASSUME NEW k \in Cached \union {None}, NEW box \in Seq(UpdateMessages),
         NEW buffer \in Seq(UpdateMessages), NEW o, NEW v \in Nat, InOrder(k, box, buffer, o, v)
  PROVE  InOrder(k, box \o buffer, <<>>, o, v)
<1>1. k # None => k.ver \in Nat
  BY DEF Cached
<1> DEFINE b == box \o buffer
<1>2. /\ AtMost(box, o, v) /\ AtMost(buffer, o, v) => AtMost(b, o, v)
      /\ \A w \in Nat : AtLeast(box, o, w) /\ AtLeast(buffer, o, w) => AtLeast(b, o, w)
      /\ Sorted(box, o) /\ Sorted(buffer, o) /\ NoNewer(box, buffer, o) => Sorted(b, o)
  BY ConcatOrder
<1>3. /\ Sorted(<<>>, o) /\ NoNewer(b, <<>>, o) /\ AtMost(<<>>, o, v)
      /\ \A w : AtLeast(<<>>, o, w)
  BY DEF Sorted, NoNewer, AtMost, AtLeast
<1> HIDE DEF b
<1> QED
  BY <1>1, <1>2, <1>3 DEF InOrder, b

\* ... or that of another PE p.
LEMMA OthersFlushInOrder ==
  ASSUME NEW k \in Cached \union {None}, NEW box \in Seq(UpdateMessages),
         NEW buffer \in Seq(UpdateMessages), NEW o, NEW v \in Nat, InOrder(k, box, buffer, o, v),
         NEW batch \in Seq(UpdateMessages), NEW p, OnlyOf(batch, p), p # o
  PROVE  InOrder(k, box \o batch, buffer, o, v)
<1>1. k # None => k.ver \in Nat
  BY DEF Cached
<1>2. /\ Sorted(batch, o) /\ NoNewer(box, batch, o) /\ NoNewer(batch, buffer, o)
      /\ \A w : AtMost(batch, o, w) /\ AtLeast(batch, o, w)
  BY OthersOrder
<1> DEFINE b == box \o batch
<1>3. /\ AtMost(box, o, v) /\ AtMost(batch, o, v) => AtMost(b, o, v)
      /\ \A w \in Nat : AtLeast(box, o, w) /\ AtLeast(batch, o, w) => AtLeast(b, o, w)
      /\ Sorted(box, o) /\ Sorted(batch, o) /\ NoNewer(box, batch, o) => Sorted(b, o)
      /\ NoNewer(box, buffer, o) /\ NoNewer(batch, buffer, o) => NoNewer(b, buffer, o)
  BY ConcatOrder
<1> HIDE DEF b
<1> QED
  BY <1>1, <1>2, <1>3 DEF InOrder, b

\* An update is taken from the mailbox; it is no older than what is cached, and
\* what is behind it no older than it.
LEMMA TakeInOrder ==
  ASSUME NEW k \in Cached \union {None}, NEW box \in Seq(UpdateMessages), box # <<>>,
         NEW buffer \in Seq(UpdateMessages), NEW o, NEW v \in Nat, InOrder(k, box, buffer, o, v)
  PROVE  /\ InOrder(k, Tail(box), buffer, o, v)
         /\ Head(box).owner = o =>
              /\ \A j : j # None => (j.ver = Head(box).ver => InOrder(j, Tail(box), buffer, o, v))
              /\ k # None => k.ver <= Head(box).ver
<1>1. k # None => k.ver \in Nat
  BY DEF Cached
<1> DEFINE t == Tail(box)
           h == Head(box)
<1>2. /\ AtMost(box, o, v) => AtMost(t, o, v)
      /\ \A w \in Nat : AtLeast(box, o, w) => AtLeast(t, o, w)
      /\ Sorted(box, o) => Sorted(t, o)
      /\ NoNewer(box, buffer, o) => NoNewer(t, buffer, o)
      /\ h.owner = o => /\ Sorted(box, o) => AtLeast(t, o, h.ver)
                        /\ AtMost(box, o, v) => h.ver <= v
                        /\ \A w \in Nat : AtLeast(box, o, w) => w <= h.ver
                        /\ NoNewer(box, buffer, o) => AtLeast(buffer, o, h.ver)
  BY TailOrder
<1> HIDE DEF t, h
<1>3. InOrder(k, t, buffer, o, v)
  BY <1>1, <1>2 DEF InOrder
<1>4. ASSUME h.owner = o, NEW j, j # None, j.ver = h.ver PROVE InOrder(j, t, buffer, o, v)
  BY <1>2, <1>4 DEF InOrder
<1>5. h.owner = o /\ k # None => k.ver <= h.ver
  BY <1>1, <1>2 DEF InOrder
<1> QED
  BY <1>3, <1>4, <1>5 DEF t, h

\* The vertex changes, or what is cached of it is dropped.
LEMMA NewerInOrder ==
  ASSUME NEW k \in Cached \union {None}, NEW box \in Seq(UpdateMessages),
         NEW buffer \in Seq(UpdateMessages), NEW o, NEW v \in Nat, InOrder(k, box, buffer, o, v)
  PROVE  /\ InOrder(k, box, buffer, o, v + 1)
         /\ InOrder(None, box, buffer, o, v)
<1>1. k # None => k.ver \in Nat
  BY DEF Cached
<1>2. \A s \in Seq(UpdateMessages) : \A i \in DOMAIN s : s[i].ver \in Nat
  <2>1. \A x \in UpdateMessages : x.ver \in Nat
    BY DEF UpdateMessages
  <2> QED
    BY <2>1
<1>3. /\ AtMost(box, o, v) => AtMost(box, o, v + 1)
      /\ AtMost(buffer, o, v) => AtMost(buffer, o, v + 1)
  BY <1>2 DEF AtMost
<1> QED
  BY <1>1, <1>3 DEF InOrder

-----------------------------------------------------------------------------
(* Steps *)

\* A PE in its loop.
InLoop(c) == c.pc \notin {"leave", "persist", "mark", "gone"}

\* What NeverGoesBack says of a step.
NoOlder ==
  \A p \in PEs, o \in Live :
    ctx[p].mirror[o] # None /\ ctx'[p].mirror[o] # None =>
      ctx'[p].mirror[o].ver >= ctx[p].mirror[o].ver

\* In d, p has a context of the types the order is about.
OrderContext(d) ==
  /\ d.app \in Application /\ d.part \in Parts /\ d.ver \in Nat
  /\ d.mirror \in [PEs -> Cached \union {None}]

\* The types hold after a step of p; nobody comes back to life.
LEMMA OrderTypesStep ==
  ASSUME IInv, OrderInv, NEW p \in PEs, NEW d, SetCtx(p, d), InLoop(d) => InLoop(ctx[p]),
         OrderContext(d),
         DOMAIN mail' = DOMAIN mail, mail'.update \in [PEs -> Seq(UpdateMessages)],
         DOMAIN dir' = DOMAIN dir, dir'.terminated \in [Parts -> SUBSET PEs],
         \A q \in Parts : dir'.terminated[q] \subseteq
                            dir.terminated[q] \union (IF InLoop(d) THEN {} ELSE {p})
  PROVE  /\ OrderTypes'
         /\ \A q \in Parts : dir'.terminated[q] \intersect Live' = {}
         /\ Live' \subseteq Live
         /\ \A r \in PEs : ctx'[r] = IF r = p THEN d ELSE ctx[r]
<1>1. \A r \in PEs : ctx'[r] = IF r = p THEN d ELSE ctx[r]
  BY DEF IInv, SetCtx
<1>2. /\ Live = {r \in PEs : InLoop(ctx[r])}
      /\ Live' = {r \in PEs : InLoop(ctx'[r])}
  BY DEF Live, InLoop
<1>3. Live' \subseteq Live
  BY <1>1, <1>2
<1>4. \A q \in Parts : dir'.terminated[q] \intersect Live' = {}
  <2>1. p \in Live' => InLoop(d)
    BY <1>1, <1>2
  <2>2. \A q \in Parts : dir.terminated[q] \intersect Live = {}
    BY DEF OrderInv
  <2> QED
    BY <1>3, <2>1, <2>2
<1>5. OrderTypes'
  BY <1>1 DEF OrderInv, OrderTypes, OrderContext
<1> QED
  BY <1>1, <1>3, <1>4, <1>5

\* A step that leaves the mailboxes of updates alone, drops what it drops of
\* the mirrors of live PEs, and posts in order.
LEMMA PostingStep ==
  ASSUME IInv, OrderInv, NEW p \in PEs, NEW d, SetCtx(p, d), InLoop(d) => InLoop(ctx[p]),
         OrderContext(d),
         DOMAIN mail' = DOMAIN mail, mail'.update = mail.update,
         DOMAIN dir' = DOMAIN dir, dir'.terminated \in [Parts -> SUBSET PEs],
         \A q \in Parts : dir'.terminated[q] \subseteq
                            dir.terminated[q] \union (IF InLoop(d) THEN {} ELSE {p}),
         \A o \in Live : d.mirror[o] = ctx[p].mirror[o] \/ d.mirror[o] = None,
         Posts(p, d)
  PROVE  OrderInv' /\ NoOlder
<1>1. /\ OrderTypes'
      /\ \A q \in Parts : dir'.terminated[q] \intersect Live' = {}
      /\ Live' \subseteq Live
      /\ \A r \in PEs : ctx'[r] = IF r = p THEN d ELSE ctx[r]
  <2>1. mail'.update \in [PEs -> Seq(UpdateMessages)]
    BY DEF OrderInv, OrderTypes
  <2> QED
    BY <2>1, OrderTypesStep
<1>2. \A r \in PEs, o \in Live :
        ctx'[r].mirror[o] = ctx[r].mirror[o] \/ ctx'[r].mirror[o] = None
  BY <1>1
<1>3. ASSUME NEW o \in PEs PROVE Posts(o, ctx'[o])
  <2>1. Posts(o, ctx[o])
    BY DEF OrderInv
  <2> QED
    BY <1>1, <2>1
<1>4. ASSUME NEW o \in PEs, o \in Live', NEW r \in PEs
      PROVE  InOrder(ctx'[r].mirror[o], mail'.update[r], ctx'[o].out[r], o, ctx'[o].ver)
  <2>1. o \in Live
    BY <1>1, <1>4
  <2>2. InOrder(ctx[r].mirror[o], mail.update[r], ctx'[o].out[r], o, ctx'[o].ver)
    BY <1>3, <2>1 DEF Posts
  <2>3. CASE ctx'[r].mirror[o] = ctx[r].mirror[o]
    BY <2>2, <2>3
  <2>4. CASE ctx'[r].mirror[o] = None
    <3>1. /\ ctx[r].mirror[o] \in Cached \union {None}
          /\ mail.update[r] \in Seq(UpdateMessages)
      BY DEF OrderInv, OrderTypes
    <3>2. ctx'[o].out[r] \in Seq(UpdateMessages) /\ ctx'[o].ver \in Nat
      BY <1>1, <1>3 DEF Posts, OrderTypes
    <3> QED
      BY <2>2, <2>4, <3>1, <3>2, NewerInOrder
  <2> QED
    BY <1>2, <2>1, <2>3, <2>4
<1>5. ASSUME NEW o \in PEs PROVE Posts(o, ctx[o])'
  <2>1. /\ ctx'[o].out \in [PEs -> Seq(UpdateMessages)]
        /\ \A r \in PEs : OnlyOf(ctx'[o].out[r], o)
    BY <1>3 DEF Posts
  <2> QED
    BY <1>4, <2>1 DEF Posts
<1>6. OrderInv'
  BY <1>1, <1>5 DEF OrderInv
<1>7. NoOlder
  <2> SUFFICES ASSUME NEW r \in PEs, NEW o \in Live,
                      ctx[r].mirror[o] # None, ctx'[r].mirror[o] # None
               PROVE  ctx'[r].mirror[o].ver >= ctx[r].mirror[o].ver
    BY DEF NoOlder
  <2>1. ctx'[r].mirror[o] = ctx[r].mirror[o]
    BY <1>2
  <2>2. ctx[r].mirror[o] \in Cached
    BY DEF OrderInv, OrderTypes, Live
  <2> QED
    BY <2>1, <2>2 DEF Cached
<1> QED
  BY <1>6, <1>7

\* As far as the updates go, d is c.
SameView(c, d) == d.app = c.app /\ d.part = c.part /\ d.ver = c.ver /\ d.out = c.out

\* A step that leaves the updates alone.
LEMMA QuietStep ==
  ASSUME IInv, OrderInv, NEW p \in PEs, NEW d, SetCtx(p, d), InLoop(d) => InLoop(ctx[p]),
         SameView(ctx[p], d), d.mirror \in [PEs -> Cached \union {None}],
         \A o \in Live : d.mirror[o] = ctx[p].mirror[o] \/ d.mirror[o] = None,
         DOMAIN mail' = DOMAIN mail, mail'.update = mail.update,
         DOMAIN dir' = DOMAIN dir, dir'.terminated \in [Parts -> SUBSET PEs],
         \A q \in Parts : dir'.terminated[q] \subseteq
                            dir.terminated[q] \union (IF InLoop(d) THEN {} ELSE {p})
  PROVE  OrderInv' /\ NoOlder
<1>1. OrderContext(d)
  BY DEF OrderInv, OrderTypes, OrderContext, SameView
<1>2. Posts(p, d)
  BY DEF OrderInv, Posts, SameView
<1> QED
  BY <1>1, <1>2, PostingStep

\* A step that leaves the mirrors alone as well.
LEMMA QuieterStep ==
  ASSUME IInv, OrderInv, NEW p \in PEs, NEW d, SetCtx(p, d), InLoop(d) => InLoop(ctx[p]),
         SameView(ctx[p], d), d.mirror = ctx[p].mirror,
         DOMAIN mail' = DOMAIN mail, mail'.update = mail.update,
         DOMAIN dir' = DOMAIN dir, dir'.terminated = dir.terminated
  PROVE  OrderInv' /\ NoOlder
<1>1. d.mirror \in [PEs -> Cached \union {None}] /\ dir'.terminated \in [Parts -> SUBSET PEs]
  BY DEF OrderInv, OrderTypes
<1> QED
  BY <1>1, QuietStep

\* The mailboxes and the directory have their parts.
LEMMA Shapes ==
  OrderInv => DOMAIN mail = {"forward", "update", "dead"}
              /\ DOMAIN dir = {"producers", "terminated", "vertex_partitions"}
BY DEF OrderInv, OrderTypes

\* The next phase begins.
LEMMA PhaseKeepsOrder ==
  ASSUME IInv, OrderInv, NEW p \in PEs,
         NoChange(p) \/ NoSubscription(p) \/ NoUpdate(p) \/ EndIteration(p) \/ BroadcastDead(p)
           \/ PersistPartitions(p)
  PROVE  OrderInv' /\ NoOlder
<1> DEFINE c == ctx[p]
           d(to) == [c EXCEPT !.pc = to]
<1>1. PICK to : SetCtx(p, d(to)) /\ (InLoop(c) \/ to \in {"persist", "mark"})
  BY DEF NoChange, NoSubscription, NoUpdate, EndIteration, BroadcastDead, PersistPartitions, At,
         InLoop
<1>2. /\ SameView(c, d(to)) /\ d(to).mirror = c.mirror /\ d(to).pc = to
  BY DEF IInv, IsContext, Fields, SameView
<1>3. /\ DOMAIN mail' = DOMAIN mail /\ mail'.update = mail.update
      /\ DOMAIN dir' = DOMAIN dir /\ dir'.terminated = dir.terminated
  BY Shapes DEF NoChange, NoSubscription, NoUpdate, EndIteration, BroadcastDead, PersistPartitions
<1> HIDE DEF d, c
<1>4. InLoop(d(to)) => InLoop(c)
  BY <1>1, <1>2 DEF InLoop
<1> QED
  BY <1>1, <1>2, <1>3, <1>4, QuieterStep DEF c

\* The exited PE's partition is published; it is live no more.
LEMMA MarkKeepsOrder ==
  ASSUME IInv, OrderInv, NEW p \in PEs, MarkTerminated(p)
  PROVE  OrderInv' /\ NoOlder
<1> DEFINE c == ctx[p]
           d == [c EXCEPT !.pc = "gone"]
<1>1. SetCtx(p, d) /\ mail' = mail
      /\ dir' = [dir EXCEPT !.terminated[c.part] = @ \union {p}]
  BY DEF MarkTerminated
<1>2. SameView(c, d) /\ d.mirror = c.mirror /\ ~InLoop(d)
  BY DEF IInv, IsContext, Fields, SameView, InLoop
<1>3. /\ DOMAIN dir' = DOMAIN dir
      /\ dir'.terminated = [dir.terminated EXCEPT ![c.part] = @ \union {p}]
  BY <1>1, Shapes
<1>4. /\ c.mirror \in [PEs -> Cached \union {None}]
      /\ dir.terminated \in [Parts -> SUBSET PEs] /\ c.part \in Parts
  BY DEF OrderInv, OrderTypes
<1> HIDE DEF d, c
<1>5. /\ dir'.terminated \in [Parts -> SUBSET PEs]
      /\ \A q \in Parts : dir'.terminated[q] \subseteq dir.terminated[q] \union {p}
  BY <1>3, <1>4
<1> QED
  BY <1>1, <1>2, <1>3, <1>4, <1>5, QuietStep DEF c

\* The window is computed, or visited without a look at the vertices.
LEMMA WindowKeepsOrder ==
  ASSUME IInv, OrderInv, NEW p \in PEs, NEW q \in Parts,
         Publish(p) \/ ExistingSkipped(p, q) \/ ExistingUnchanged(p, q) \/ SubscribeDone(p)
           \/ WindowDone(p)
  PROVE  OrderInv' /\ NoOlder
<1> DEFINE c == ctx[p]
<1>1. PICK d : /\ SetCtx(p, d) /\ SameView(c, d) /\ d.mirror = c.mirror
               /\ InLoop(c) /\ InLoop(d)
  <2> DEFINE published(subs) == [c EXCEPT !.pc = "subscribe", !.produced = {c.part},
                                          !.new_subscribed = subs, !.todo = subs]
             skipped == [c EXCEPT !.todo = @ \ {q}, !.skip[q] = @ - 1]
             looked == [c EXCEPT !.todo = @ \ {q}, !.interval[q] = backoff(c, q),
                                 !.skip[q] = backoff(c, q) - 1]
             all == [c EXCEPT !.pc = "unsubscribe", !.todo = c.subscribed \ c.new_subscribed]
             done == [c EXCEPT !.pc = "send", !.subscribed = c.new_subscribed,
                               !.new_subscribed = {}]
  <2>0. DOMAIN c = Fields
    BY DEF IInv, IsContext
  <2>1. CASE Publish(p)
    <3>1. \E subs : SetCtx(p, published(subs))
      BY <2>1 DEF Publish
    <3>2. \A subs : /\ SameView(c, published(subs)) /\ published(subs).mirror = c.mirror
                    /\ InLoop(published(subs))
      BY <2>0 DEF SameView, InLoop, Fields
    <3>3. InLoop(c)
      BY <2>1 DEF Publish, At, InLoop
    <3> QED
      BY <3>1, <3>2, <3>3
  <2>2. CASE ExistingSkipped(p, q)
    <3>1. SetCtx(p, skipped) /\ c.pc = "subscribe"
      BY <2>2 DEF ExistingSkipped, At
    <3>2. SameView(c, skipped) /\ skipped.mirror = c.mirror /\ InLoop(skipped) /\ InLoop(c)
      BY <2>0, <3>1 DEF SameView, InLoop, Fields
    <3> QED
      BY <3>1, <3>2
  <2>3. CASE ExistingUnchanged(p, q)
    <3>1. SetCtx(p, looked) /\ c.pc = "subscribe"
      BY <2>3 DEF ExistingUnchanged, Looks, At
    <3>2. SameView(c, looked) /\ looked.mirror = c.mirror /\ InLoop(looked) /\ InLoop(c)
      BY <2>0, <3>1 DEF SameView, InLoop, Fields
    <3> QED
      BY <3>1, <3>2
  <2>4. CASE SubscribeDone(p)
    <3>1. SetCtx(p, all) /\ c.pc = "subscribe"
      BY <2>4 DEF SubscribeDone, At
    <3>2. SameView(c, all) /\ all.mirror = c.mirror /\ InLoop(all) /\ InLoop(c)
      BY <2>0, <3>1 DEF SameView, InLoop, Fields
    <3> QED
      BY <3>1, <3>2
  <2>5. CASE WindowDone(p)
    <3>1. SetCtx(p, done) /\ c.pc = "unsubscribe"
      BY <2>5 DEF WindowDone, At
    <3>2. SameView(c, done) /\ done.mirror = c.mirror /\ InLoop(done) /\ InLoop(c)
      BY <2>0, <3>1 DEF SameView, InLoop, Fields
    <3> QED
      BY <3>1, <3>2
  <2> QED
    BY <2>1, <2>2, <2>3, <2>4, <2>5
<1>2. /\ DOMAIN mail' = DOMAIN mail /\ mail'.update = mail.update
      /\ DOMAIN dir' = DOMAIN dir /\ dir'.terminated = dir.terminated
  BY Shapes DEF Publish, ExistingSkipped, ExistingUnchanged, SubscribeDone, WindowDone
<1> QED
  BY <1>1, <1>2, QuieterStep

\* Vertices are pulled only from PEs that are live no more.
LEMMA PullKeepsOrder ==
  ASSUME IInv, OrderInv, NEW p \in PEs, NEW q \in Parts,
         handle_new_subscription(p, q) \/ ExistingChanged(p, q)
  PROVE  OrderInv' /\ NoOlder
<1> DEFINE c == ctx[p]
           S == IF handle_new_subscription(p, q) THEN dir.terminated[q]
                ELSE dir.terminated[q] \ c.dead_info[q]
           told == [c EXCEPT !.todo = @ \ {q},
                             !.producer_info[q] = dir.producers[q],
                             !.dead_info[q] = dir.terminated[q],
                             !.skip[q] = 0, !.interval[q] = 1]
           d == [told EXCEPT !.mirror = PullVertices(c, S, q)]
<1>1. SetCtx(p, d) /\ c.pc = "subscribe"
  BY DEF handle_new_subscription, ExistingChanged, Looks, At
<1>2. /\ DOMAIN mail' = DOMAIN mail /\ mail'.update = mail.update /\ dir' = dir
  BY Shapes DEF handle_new_subscription, ExistingChanged
<1>3. DOMAIN told = Fields /\ SameView(c, told) /\ told.pc = c.pc
  BY DEF IInv, IsContext, Fields, SameView
<1>4. S \subseteq dir.terminated[q] /\ dir.terminated[q] \intersect Live = {}
  BY DEF OrderInv
<1> HIDE DEF told, S
<1>5. d.mirror = PullVertices(c, S, q) /\ SameView(c, d) /\ d.pc = "subscribe"
  BY <1>1, <1>3 DEF Fields, SameView
<1> HIDE DEF d
<1>6. ASSUME NEW o \in PEs
      PROVE  /\ d.mirror[o] \in Cached \union {None}
             /\ o \in Live => d.mirror[o] = c.mirror[o]
  <2>1. c.mirror[o] \in Cached \union {None} /\ ctx[o].part \in Parts /\ ctx[o].ver \in Nat
    BY DEF OrderInv, OrderTypes
  <2>2. Accepted(c.subscribed, ctx[o].part, ctx[o].ver) \in Cached \union {None}
    BY <2>1 DEF Accepted, Cached
  <2> QED
    BY <1>4, <1>5, <2>1, <2>2 DEF PullVertices
<1>7. d.mirror \in [PEs -> Cached \union {None}]
  BY <1>5, <1>6 DEF PullVertices
<1>8. InLoop(c) /\ InLoop(d)
  BY <1>1, <1>5 DEF InLoop
<1>9. dir'.terminated \in [Parts -> SUBSET PEs]
  BY <1>2 DEF OrderInv, OrderTypes
<1>10. \A o \in Live : d.mirror[o] = c.mirror[o]
  BY <1>6 DEF Live
<1> QED
  BY <1>1, <1>2, <1>5, <1>7, <1>8, <1>9, <1>10, QuietStep

\* A partition is left: its vertices are dropped.
LEMMA LeavingKeepsOrder ==
  ASSUME IInv, OrderInv, NEW p \in PEs, NEW q \in Parts, handle_new_unsubscription(p, q)
  PROVE  OrderInv' /\ NoOlder
<1> DEFINE c == ctx[p]
           d == [c EXCEPT !.todo = @ \ {q}, !.mirror = Dropped(c, p, q),
                          !.producer_info[q] = Row, !.dead_info[q] = {}]
<1>1. SetCtx(p, d) /\ c.pc = "unsubscribe"
  BY DEF handle_new_unsubscription, At
<1>2. /\ DOMAIN mail' = DOMAIN mail /\ mail'.update = mail.update /\ dir' = dir
  BY Shapes DEF handle_new_unsubscription
<1>3. SameView(c, d) /\ d.mirror = Dropped(c, p, q) /\ d.pc = c.pc
  BY DEF IInv, IsContext, Fields, SameView
<1>4. c.mirror \in [PEs -> Cached \union {None}]
  BY DEF OrderInv, OrderTypes
<1> HIDE DEF d
<1>5. \A o \in PEs : d.mirror[o] = c.mirror[o] \/ d.mirror[o] = None
  BY <1>3 DEF Dropped
<1>6. d.mirror \in [PEs -> Cached \union {None}]
  BY <1>3, <1>4, <1>5 DEF Dropped
<1>7. InLoop(c) /\ InLoop(d)
  BY <1>1, <1>3 DEF InLoop
<1>8. dir'.terminated \in [Parts -> SUBSET PEs]
  BY <1>2 DEF OrderInv, OrderTypes
<1>9. \A o \in Live : d.mirror[o] = c.mirror[o] \/ d.mirror[o] = None
  BY <1>5 DEF Live
<1> QED
  BY <1>1, <1>2, <1>3, <1>6, <1>7, <1>8, <1>9, QuietStep

\* An exit is taken note of.
LEMMA TakeDeadKeepsOrder ==
  ASSUME IInv, OrderInv, NEW p \in PEs, TakeDead(p)
  PROVE  OrderInv' /\ NoOlder
<1> DEFINE c == ctx[p]
           d(x) == [c EXCEPT !.all_dead = @ \union {x},
                             !.remote_subs = [q \in Parts |-> @[q] \ {x}]]
<1>1. PICK x : SetCtx(p, d(x))
  BY DEF TakeDead
<1>2. c.pc = "poll" /\ DOMAIN mail' = DOMAIN mail /\ mail'.update = mail.update /\ dir' = dir
  BY Shapes DEF TakeDead, At
<1>3. SameView(c, d(x)) /\ d(x).mirror = c.mirror /\ d(x).pc = c.pc
  BY DEF IInv, IsContext, Fields, SameView
<1>4. InLoop(c)
  BY <1>2 DEF InLoop
<1> HIDE DEF d
<1> QED
  BY <1>1, <1>2, <1>3, <1>4, QuieterStep

\* The vertex changes: it is newer than all that is known of it.
LEMMA ChangeKeepsOrder ==
  ASSUME IInv, OrderInv, NEW p \in PEs, NEW q \in ctx[p].app.goes[ctx[p].part],
         ChangeVertex(p, q)
  PROVE  OrderInv' /\ NoOlder
<1> DEFINE c == ctx[p]
           d == [c EXCEPT !.pc = "publish", !.part = q, !.prev_part = c.part,
                          !.ver = @ + 1, !.needs_send = TRUE]
<1>1. SetCtx(p, d) /\ c.pc = "change" /\ mail' = mail /\ dir' = dir
  BY DEF ChangeVertex, At
<1>2. /\ d.pc = "publish" /\ d.part = q /\ d.ver = c.ver + 1
      /\ d.app = c.app /\ d.out = c.out /\ d.mirror = c.mirror
  BY DEF IInv, IsContext, Fields
<1>3. /\ c.app \in Application /\ c.part \in Parts /\ c.ver \in Nat
      /\ c.mirror \in [PEs -> Cached \union {None}]
      /\ dir.terminated \in [Parts -> SUBSET PEs]
  BY DEF OrderInv, OrderTypes
<1>4. q \in Parts
  <2>1. c.app.goes \in [Parts -> SUBSET Parts]
    BY <1>3 DEF Application
  <2> QED
    BY <1>3, <2>1
<1> HIDE DEF d
<1>5. OrderContext(d)
  BY <1>2, <1>3, <1>4 DEF OrderContext
<1>6. Posts(p, d)
  <2>1. Posts(p, c)
    BY DEF OrderInv
  <2>2. ASSUME NEW r \in PEs, p \in Live
        PROVE  InOrder(ctx[r].mirror[p], mail.update[r], d.out[r], p, d.ver)
    <3>1. InOrder(ctx[r].mirror[p], mail.update[r], c.out[r], p, c.ver)
      BY <2>1, <2>2 DEF Posts
    <3>2. /\ ctx[r].mirror[p] \in Cached \union {None}
          /\ mail.update[r] \in Seq(UpdateMessages) /\ c.out[r] \in Seq(UpdateMessages)
      BY <2>1 DEF OrderInv, OrderTypes, Posts
    <3> QED
      BY <1>2, <1>3, <3>1, <3>2, NewerInOrder
  <2> QED
    BY <1>2, <2>1, <2>2 DEF Posts
<1>7. InLoop(c)
  BY <1>1 DEF InLoop
<1> QED
  BY <1>1, <1>2, <1>3, <1>5, <1>6, <1>7, PostingStep

\* Posting to some PEs is posting in order, if what is posted is of the
\* version that the vertex has.
LEMMA PostingInOrder ==
  ASSUME OrderInv, NEW p \in PEs, NEW c, Posts(p, c), c.ver \in Nat,
         NEW S, NEW m \in UpdateMessages, m.owner = p, m.ver = c.ver,
         NEW d, d.ver = c.ver, d.out = SendAll(c.out, S, m)
  PROVE  Posts(p, d)
<1>1. ASSUME NEW r \in PEs
      PROVE  /\ d.out[r] \in Seq(UpdateMessages)
             /\ OnlyOf(d.out[r], p)
             /\ p \in Live => InOrder(ctx[r].mirror[p], mail.update[r], d.out[r], p, d.ver)
  <2>1. /\ c.out[r] \in Seq(UpdateMessages) /\ OnlyOf(c.out[r], p)
        /\ p \in Live => InOrder(ctx[r].mirror[p], mail.update[r], c.out[r], p, c.ver)
    BY DEF Posts
  <2>2. ctx[r].mirror[p] \in Cached \union {None} /\ mail.update[r] \in Seq(UpdateMessages)
    BY DEF OrderInv, OrderTypes
  <2>3. CASE d.out[r] = c.out[r]
    BY <2>1, <2>3
  <2>4. CASE d.out[r] = Append(c.out[r], m)
    <3>1. Append(c.out[r], m) \in Seq(UpdateMessages) /\ OnlyOf(Append(c.out[r], m), p)
      BY <2>1, AppendOrder
    <3>2. p \in Live =>
            InOrder(ctx[r].mirror[p], mail.update[r], Append(c.out[r], m), p, c.ver)
      BY <2>1, <2>2, PostInOrder
    <3> QED
      BY <2>4, <3>1, <3>2
  <2> QED
    BY <2>3, <2>4 DEF SendAll
<1>2. d.out \in [PEs -> Seq(UpdateMessages)]
  BY <1>1 DEF SendAll
<1> QED
  BY <1>1, <1>2 DEF Posts

\* Everything of a context but its buffers.
SameButOut(c, d) ==
  /\ IsContext(d) /\ d.app = c.app /\ d.part = c.part /\ d.ver = c.ver /\ d.mirror = c.mirror
  /\ d.pc = c.pc /\ d.needs_send = c.needs_send

\* The updates that are sent are of the vertex as it is.
LEMMA UpdatesOfNow ==
  ASSUME NEW p \in PEs, NEW c, OrderContext(c)
  PROVE  /\ Update(p, c) \in UpdateMessages /\ Invalidate(p, c) \in UpdateMessages
         /\ Update(p, c).owner = p /\ Update(p, c).ver = c.ver
         /\ Invalidate(p, c).owner = p /\ Invalidate(p, c).ver = c.ver
BY DEF Update, Invalidate, UpdateMessages, OrderContext

\* A message for the subscribers is posted in order.
LEMMA ToSubscribersInOrder ==
  ASSUME OrderInv, NEW p \in PEs, NEW c, IsContext(c), Posts(p, c), c.ver \in Nat,
         NEW q, NEW m \in UpdateMessages, m.owner = p, m.ver = c.ver
  PROVE  /\ Posts(p, ToSubscribers(p, c, q, m))
         /\ SameButOut(c, ToSubscribers(p, c, q, m))
<1> DEFINE S == c.remote_subs[q] \ ({p} \union c.all_dead)
           d == [c EXCEPT !.out = SendAll(c.out, S, m)]
<1>1. d = ToSubscribers(p, c, q, m)
  BY DEF ToSubscribers
<1>2. SameButOut(c, d) /\ d.out = SendAll(c.out, S, m)
  BY DEF IsContext, Fields, SameButOut
<1> HIDE DEF d, S
<1>3. Posts(p, d)
  BY <1>2, PostingInOrder DEF SameButOut
<1> QED
  BY <1>1, <1>2, <1>3

\* So is all that send_vertex_updates posts.
LEMMA AnnouncedInOrder ==
  ASSUME IInv, OrderInv, NEW p \in PEs
  PROVE  Posts(p, Announced(p, ctx[p])) /\ SameButOut(ctx[p], Announced(p, ctx[p]))
<1> DEFINE c == ctx[p]
           e == Invalidated(p, c)
<1>1. /\ IsContext(c) /\ Posts(p, c) /\ OrderContext(c) /\ c.ver \in Nat /\ SameButOut(c, c)
  BY DEF IInv, OrderInv, OrderTypes, OrderContext, SameButOut
<1> HIDE DEF c
<1>2. Posts(p, e) /\ SameButOut(c, e)
  <2>1. /\ Invalidate(p, c) \in UpdateMessages
        /\ Invalidate(p, c).owner = p /\ Invalidate(p, c).ver = c.ver
    BY <1>1, UpdatesOfNow
  <2>2. \A q : /\ Posts(p, ToSubscribers(p, c, q, Invalidate(p, c)))
               /\ SameButOut(c, ToSubscribers(p, c, q, Invalidate(p, c)))
    BY <1>1, <2>1, ToSubscribersInOrder
  <2> QED
    BY <1>1, <2>2 DEF Invalidated
<1> HIDE DEF e
<1>3. Posts(p, Updated(p, e)) /\ SameButOut(e, Updated(p, e))
  <2>1. OrderContext(e) /\ IsContext(e) /\ e.ver \in Nat
    BY <1>1, <1>2 DEF OrderContext, SameButOut
  <2>2. Update(p, e) \in UpdateMessages /\ Update(p, e).owner = p /\ Update(p, e).ver = e.ver
    BY <2>1, UpdatesOfNow
  <2> QED
    BY <1>2, <2>1, <2>2, ToSubscribersInOrder DEF Updated
<1>4. SameButOut(c, Updated(p, e))
  BY <1>2, <1>3 DEF SameButOut
<1> QED
  BY <1>1, <1>3, <1>4 DEF Announced, c, e

\* A subscription is taken in; a new one is answered with the vertex as it is.
LEMMA TakeSubscriptionKeepsOrder ==
  ASSUME IInv, OrderInv, NEW p \in PEs, TakeSubscription(p)
  PROVE  OrderInv' /\ NoOlder
<1> DEFINE c == ctx[p]
           m == Head(mail.forward[p])
           e == send_all_vertices(p, c, m.pe, m.partition)
           d == IF m.entered THEN Subscribed(p, c, m) ELSE Unsubscribed(c, m)
<1>1. SetCtx(p, d) /\ c.pc = "subs"
  BY DEF TakeSubscription, At
<1>2. DOMAIN mail' = DOMAIN mail /\ mail'.update = mail.update /\ dir' = dir
  BY Shapes DEF TakeSubscription
<1>3. /\ IsContext(c) /\ Posts(p, c) /\ OrderContext(c) /\ c.ver \in Nat /\ SameButOut(c, c)
      /\ dir.terminated \in [Parts -> SUBSET PEs]
  BY DEF IInv, OrderInv, OrderTypes, OrderContext, SameButOut
<1> HIDE DEF m
<1>4. Posts(p, e) /\ SameButOut(c, e)
  <2> DEFINE u == Update(p, c)
             f == [c EXCEPT !.out[m.pe] = Append(@, u)]
  <2>1. u \in UpdateMessages /\ u.owner = p /\ u.ver = c.ver
    BY <1>3, UpdatesOfNow
  <2>2. c.out \in [PEs -> Seq(UpdateMessages)]
    BY <1>3 DEF Posts
  <2>3. e = c \/ e = f
    BY DEF send_all_vertices
  <2> HIDE DEF u, e
  <2>4. SameButOut(c, f) /\ f.out = [c.out EXCEPT ![m.pe] = Append(@, u)]
    BY <1>3 DEF IsContext, Fields, SameButOut
  <2> HIDE DEF f
  <2>5. f.out = SendAll(c.out, {m.pe}, u)
    BY <2>2, <2>4 DEF SendAll
  <2>6. Posts(p, f)
    BY <1>3, <2>1, <2>4, <2>5, PostingInOrder, SMTT(20) DEF SameButOut
  <2> QED
    BY <1>3, <2>3, <2>4, <2>6
<1> HIDE DEF e
<1>5. Posts(p, d) /\ OrderContext(d) /\ d.pc = c.pc /\ d.mirror = c.mirror
  <2> DEFINE s == [e EXCEPT !.remote_subs[m.partition] = @ \union {m.pe}]
             u == [c EXCEPT !.remote_subs[m.partition] = @ \ {m.pe}]
  <2>1. d = c \/ d = s \/ d = u
    BY DEF Subscribed, Unsubscribed, e
  <2>2. s.out = e.out /\ SameButOut(e, s)
    BY <1>4 DEF IsContext, Fields, SameButOut
  <2>3. u.out = c.out /\ SameButOut(c, u)
    BY <1>3 DEF IsContext, Fields, SameButOut
  <2> HIDE DEF s, u, d
  <2>4. Posts(p, s) /\ Posts(p, u)
    BY <1>3, <1>4, <2>2, <2>3 DEF Posts, SameButOut
  <2> QED
    BY <1>3, <1>4, <2>1, <2>2, <2>3, <2>4 DEF SameButOut, OrderContext
<1>6. InLoop(c)
  BY <1>1 DEF InLoop
<1> HIDE DEF d
<1> QED
  BY <1>1, <1>2, <1>3, <1>5, <1>6, PostingStep

\* The buffers are flushed: behind what is in the mailboxes.
LEMMA SendKeepsOrder ==
  ASSUME IInv, OrderInv, NEW p \in PEs, Send(p)
  PROVE  OrderInv' /\ NoOlder
<1> DEFINE c == Announced(p, ctx[p])
           d == [c EXCEPT !.pc = "subs", !.first = FALSE, !.needs_send = FALSE,
                          !.out = [o \in PEs |-> <<>>]]
<1>1. /\ SetCtx(p, d) /\ ctx[p].pc = "send" /\ dir' = dir
      /\ mail' = [mail EXCEPT !.update = [o \in PEs |-> Flushed(@[o], c.out[o])]]
  BY DEF Send, At
<1>2. Posts(p, c) /\ SameButOut(ctx[p], c)
  BY AnnouncedInOrder
<1> HIDE DEF c
<1>3. /\ d.pc = "subs" /\ d.out = [o \in PEs |-> <<>>]
      /\ d.app = c.app /\ d.part = c.part /\ d.ver = c.ver /\ d.mirror = ctx[p].mirror
  BY <1>2 DEF SameButOut, IsContext, Fields
<1> HIDE DEF d
<1>4. /\ DOMAIN mail' = DOMAIN mail
      /\ mail'.update = [o \in PEs |-> mail.update[o] \o c.out[o]]
  BY <1>1, Shapes DEF Flushed
<1>5. /\ mail.update \in [PEs -> Seq(UpdateMessages)] /\ c.out \in [PEs -> Seq(UpdateMessages)]
      /\ dir.terminated \in [Parts -> SUBSET PEs]
      /\ \A r, o \in PEs : ctx[r].mirror[o] \in Cached \union {None}
      /\ \A r \in PEs : ctx[r].ver \in Nat
  BY <1>2 DEF OrderInv, OrderTypes, Posts
<1>6. mail'.update \in [PEs -> Seq(UpdateMessages)]
  <2>1. \A o \in PEs : mail.update[o] \o c.out[o] \in Seq(UpdateMessages)
    BY <1>5, ConcatProperties
  <2> QED
    BY <1>4, <2>1
<1>7. OrderContext(d)
  BY <1>2, <1>3 DEF SameButOut, OrderContext, OrderInv, OrderTypes
<1>8. InLoop(d) => InLoop(ctx[p])
  BY <1>1 DEF InLoop
<1>9. /\ OrderTypes'
      /\ \A q \in Parts : dir'.terminated[q] \intersect Live' = {}
      /\ Live' \subseteq Live
      /\ \A r \in PEs : ctx'[r] = IF r = p THEN d ELSE ctx[r]
  BY <1>1, <1>4, <1>5, <1>6, <1>7, <1>8, OrderTypesStep, ZenonT(30)
<1>10. \A r \in PEs : ctx'[r].mirror = ctx[r].mirror /\ ctx'[r].ver = ctx[r].ver
  BY <1>2, <1>3, <1>9 DEF SameButOut
<1>11. ASSUME NEW o \in PEs
       PROVE  /\ ctx'[o].out \in [PEs -> Seq(UpdateMessages)]
              /\ \A r \in PEs : OnlyOf(ctx'[o].out[r], o)
  <2>1. CASE o = p
    <3>1. ctx'[o].out = [r \in PEs |-> <<>>]
      BY <1>3, <1>9, <2>1
    <3>2. <<>> \in Seq(UpdateMessages) /\ OnlyOf(<<>>, o)
      BY DEF OnlyOf
    <3> QED
      BY <3>1, <3>2
  <2>2. CASE o # p
    BY <1>9, <2>2 DEF OrderInv, Posts
  <2> QED
    BY <2>1, <2>2
<1>12. ASSUME NEW o \in PEs, o \in Live', NEW r \in PEs
       PROVE  InOrder(ctx'[r].mirror[o], mail'.update[r], ctx'[o].out[r], o, ctx'[o].ver)
  <2>0. o \in Live /\ Posts(o, ctx[o])
    BY <1>9, <1>12 DEF OrderInv
  <2>1. mail'.update[r] = mail.update[r] \o c.out[r]
    BY <1>4
  <2>2. /\ ctx[r].mirror[o] \in Cached \union {None}
        /\ mail.update[r] \in Seq(UpdateMessages) /\ c.out[r] \in Seq(UpdateMessages)
        /\ ctx[o].out[r] \in Seq(UpdateMessages) /\ ctx[o].ver \in Nat
    BY <1>5, <2>0 DEF Posts
  <2>3. CASE o = p
    <3>1. InOrder(ctx[r].mirror[o], mail.update[r], c.out[r], o, ctx[o].ver)
      BY <1>2, <2>0, <2>3 DEF Posts, SameButOut
    <3>2. InOrder(ctx[r].mirror[o], mail.update[r] \o c.out[r], <<>>, o, ctx[o].ver)
      BY <2>2, <3>1, FlushInOrder
    <3>3. ctx'[o].out[r] = <<>>
      BY <1>3, <1>9, <2>3
    <3> QED
      BY <1>10, <2>1, <3>2, <3>3
  <2>4. CASE o # p
    <3>1. InOrder(ctx[r].mirror[o], mail.update[r], ctx[o].out[r], o, ctx[o].ver)
      BY <2>0 DEF Posts
    <3>2. OnlyOf(c.out[r], p)
      BY <1>2 DEF Posts
    <3>3. InOrder(ctx[r].mirror[o], mail.update[r] \o c.out[r], ctx[o].out[r], o, ctx[o].ver)
      BY <2>2, <2>4, <3>1, <3>2, OthersFlushInOrder
    <3>4. ctx'[o].out[r] = ctx[o].out[r]
      BY <1>9, <2>4
    <3> QED
      BY <1>10, <2>1, <3>3, <3>4
  <2> QED
    BY <2>3, <2>4
<1>13. ASSUME NEW o \in PEs PROVE Posts(o, ctx[o])'
  BY <1>11, <1>12 DEF Posts
<1>14. NoOlder
  <2>1. \A r \in PEs, o \in Live : ctx[r].mirror[o] # None => ctx[r].mirror[o].ver \in Nat
    BY <1>5 DEF Cached, Live
  <2> QED
    BY <1>10, <2>1 DEF NoOlder
<1> QED
  BY <1>9, <1>13, <1>14 DEF OrderInv

\* An update is taken in: no older than what is cached, and no newer than what
\* is behind it.
LEMMA TakeUpdateKeepsOrder ==
  ASSUME IInv, OrderInv, NEW p \in PEs, TakeUpdate(p)
  PROVE  OrderInv' /\ NoOlder
<1> DEFINE c == ctx[p]
           m == Head(mail.update[p])
           taken == IF m.invalid THEN None ELSE Accepted(c.subscribed, m.part, m.ver)
           d == [c EXCEPT !.mirror[m.owner] = taken]
<1>1. /\ SetCtx(p, d) /\ c.pc = "recv" /\ dir' = dir /\ mail.update[p] # <<>>
      /\ mail' = [mail EXCEPT !.update[p] = Tail(@)]
  BY DEF TakeUpdate, At, handle_deleted_vertex, handle_new_vertex
<1>2. /\ mail.update \in [PEs -> Seq(UpdateMessages)] /\ dir.terminated \in [Parts -> SUBSET PEs]
      /\ \A r, o \in PEs : ctx[r].mirror[o] \in Cached \union {None}
      /\ \A r \in PEs : ctx[r].ver \in Nat
  BY DEF OrderInv, OrderTypes
<1>3. m \in UpdateMessages /\ Tail(mail.update[p]) \in Seq(UpdateMessages)
  BY <1>1, <1>2, TailOrder
<1>4. taken \in Cached \union {None} /\ (taken # None => taken.ver = m.ver)
  BY <1>3 DEF Accepted, Cached, UpdateMessages
<1> HIDE DEF taken
<1>5. /\ DOMAIN mail' = DOMAIN mail
      /\ mail'.update \in [PEs -> Seq(UpdateMessages)]
      /\ \A r \in PEs : mail'.update[r] = IF r = p THEN Tail(mail.update[p]) ELSE mail.update[r]
  <2>1. DOMAIN mail' = DOMAIN mail /\ mail'.update = [mail.update EXCEPT ![p] = Tail(@)]
    BY <1>1, Shapes
  <2> QED
    BY <1>2, <1>3, <2>1
<1>6. SameView(c, d) /\ d.pc = c.pc /\ d.mirror = [c.mirror EXCEPT ![m.owner] = taken]
  BY DEF IInv, IsContext, Fields, SameView
<1> HIDE DEF d
<1>7. \A o \in PEs : d.mirror[o] = IF o = m.owner THEN taken ELSE c.mirror[o]
  BY <1>6 DEF OrderInv, OrderTypes
<1>8. OrderContext(d)
  <2>1. c.mirror \in [PEs -> Cached \union {None}]
    BY DEF OrderInv, OrderTypes
  <2>2. d.mirror \in [PEs -> Cached \union {None}]
    BY <1>4, <1>6, <2>1
  <2> QED
    BY <1>6, <2>2 DEF OrderInv, OrderTypes, OrderContext, SameView
<1>9. /\ OrderTypes'
      /\ \A q \in Parts : dir'.terminated[q] \intersect Live' = {}
      /\ Live' \subseteq Live
      /\ \A r \in PEs : ctx'[r] = IF r = p THEN d ELSE ctx[r]
  <2>1. InLoop(c)
    BY <1>1 DEF InLoop
  <2> QED
    BY <1>1, <1>2, <1>5, <1>8, <2>1, OrderTypesStep
<1>10. ASSUME NEW o \in PEs
       PROVE  /\ ctx'[o].out = ctx[o].out /\ ctx'[o].ver = ctx[o].ver
              /\ Posts(o, ctx[o])
  BY <1>6, <1>9 DEF SameView, OrderInv
<1>11. ASSUME NEW o \in Live, NEW r \in PEs
       PROVE  /\ InOrder(ctx'[r].mirror[o], mail'.update[r], ctx[o].out[r], o, ctx[o].ver)
              /\ ctx[r].mirror[o] # None /\ ctx'[r].mirror[o] # None =>
                   ctx'[r].mirror[o].ver >= ctx[r].mirror[o].ver
  <2>1. o \in PEs /\ InOrder(ctx[r].mirror[o], mail.update[r], ctx[o].out[r], o, ctx[o].ver)
    BY <1>10 DEF Posts, Live
  <2>2. /\ ctx[r].mirror[o] \in Cached \union {None}
        /\ mail.update[r] \in Seq(UpdateMessages)
        /\ ctx[o].out[r] \in Seq(UpdateMessages) /\ ctx[o].ver \in Nat
    BY <1>2, <1>10, <2>1 DEF Posts
  <2>3. ctx[r].mirror[o] # None => ctx[r].mirror[o].ver \in Nat
    BY <2>2 DEF Cached
  <2>4. CASE r # p
    BY <1>5, <1>9, <2>1, <2>3, <2>4
  <2>5. CASE r = p
    <3>1. /\ InOrder(ctx[r].mirror[o], Tail(mail.update[r]), ctx[o].out[r], o, ctx[o].ver)
          /\ m.owner = o =>
               /\ \A j : j # None => (j.ver = m.ver =>
                    InOrder(j, Tail(mail.update[r]), ctx[o].out[r], o, ctx[o].ver))
               /\ ctx[r].mirror[o] # None => ctx[r].mirror[o].ver <= m.ver
      BY <1>1, <2>1, <2>2, <2>5, TakeInOrder
    <3>2. InOrder(None, Tail(mail.update[r]), ctx[o].out[r], o, ctx[o].ver)
      BY <3>1 DEF InOrder
    <3>3. m.ver \in Nat
      BY <1>3 DEF UpdateMessages
    <3>4. /\ mail'.update[r] = Tail(mail.update[r])
          /\ ctx'[r].mirror[o] = IF o = m.owner THEN taken ELSE ctx[r].mirror[o]
      BY <1>5, <1>7, <1>9, <2>1, <2>5
    <3> HIDE DEF m
    <3>5. CASE o = m.owner /\ taken # None
      BY <1>4, <2>3, <3>1, <3>3, <3>4, <3>5
    <3>6. CASE o = m.owner /\ taken = None
      BY <3>2, <3>4, <3>6
    <3>7. CASE o # m.owner
      BY <2>3, <3>1, <3>4, <3>7
    <3> QED
      BY <3>5, <3>6, <3>7
  <2> QED
    BY <2>4, <2>5
<1>12. ASSUME NEW o \in PEs PROVE Posts(o, ctx[o])'
  BY <1>9, <1>10, <1>11 DEF Posts
<1>13. NoOlder
  BY <1>11 DEF NoOlder
<1> QED
  BY <1>9, <1>12, <1>13 DEF OrderInv

\* At the start nothing is posted and nobody is terminated.
LEMMA InitOrder == Init => OrderInv
<1> SUFFICES ASSUME NEW program \in Programs, ctx = [p \in PEs |-> Fresh(program[p])], Init
             PROVE  OrderInv
  BY DEF Init
<1>1. ASSUME NEW p \in PEs
      PROVE  /\ ctx[p].app \in Application /\ ctx[p].part \in Parts /\ ctx[p].ver = 0
             /\ ctx[p].out = [o \in PEs |-> <<>>] /\ ctx[p].mirror = [o \in PEs |-> None]
  <2>1. program[p] \in Application
    BY SubscriptionsAssumption
  <2>2. program[p].starts \in Parts
    BY <2>1 DEF Application
  <2> QED
    BY <2>1, <2>2 DEF Fresh
<1>2. /\ DOMAIN mail = {"forward", "update", "dead"}
      /\ mail.update = [p \in PEs |-> <<>>]
      /\ DOMAIN dir = {"producers", "terminated", "vertex_partitions"}
      /\ dir.terminated = [q \in Parts |-> {}]
  BY DEF Init
<1>3. OrderTypes
  BY <1>1, <1>2 DEF OrderTypes
<1>4. ASSUME NEW p \in PEs PROVE Posts(p, ctx[p])
  <2>0. <<>> \in Seq(UpdateMessages)
    OBVIOUS
  <2>1. ctx[p].out \in [PEs -> Seq(UpdateMessages)] /\ \A r \in PEs : ctx[p].out[r] = <<>>
    BY <1>1, <2>0, ZenonT(30)
  <2>2. \A r \in PEs : ctx[r].mirror[p] = None /\ mail.update[r] = <<>>
    BY <1>1, <1>2
  <2> QED
    BY <2>1, <2>2 DEF Posts, OnlyOf, InOrder, Sorted, NoNewer, AtMost, AtLeast
<1> QED
  BY <1>2, <1>3, <1>4 DEF OrderInv

\* Every step keeps the order and goes back on no mirror.
LEMMA NextOrder == IInv /\ OrderInv /\ [Next]_vars => OrderInv' /\ NoOlder
<1> SUFFICES ASSUME IInv, OrderInv, [Next]_vars PROVE OrderInv' /\ NoOlder
  OBVIOUS
<1>1. CASE UNCHANGED vars
  <2>1. OrderInv'
    BY <1>1 DEF vars, OrderInv, OrderTypes, Posts, Live
  <2>2. \A p \in PEs, o \in Live : ctx[p].mirror[o] \in Cached \union {None}
    BY DEF OrderInv, OrderTypes, Live
  <2> QED
    BY <1>1, <2>1, <2>2 DEF vars, NoOlder, Cached
<1>2. CASE Next
  <2>1. PICK p \in PEs : Step(p)
    BY <1>2 DEF Next
  <2>2. CASE \E q \in ctx[p].app.goes[ctx[p].part] : ChangeVertex(p, q)
    BY <2>2, ChangeKeepsOrder
  <2>3. ASSUME NEW q \in Parts,
               \/ handle_new_subscription(p, q) \/ ExistingSkipped(p, q)
               \/ ExistingUnchanged(p, q) \/ ExistingChanged(p, q)
               \/ handle_new_unsubscription(p, q)
               \/ Publish(p) \/ SubscribeDone(p) \/ WindowDone(p)
        PROVE  OrderInv' /\ NoOlder
    BY <2>3, PullKeepsOrder, WindowKeepsOrder, LeavingKeepsOrder
  <2>4. CASE Publish(p) \/ SubscribeDone(p) \/ WindowDone(p)
    <3>1. ctx[p].part \in Parts
      BY DEF OrderInv, OrderTypes
    <3> QED
      BY <2>3, <2>4, <3>1
  <2>5. CASE \/ NoChange(p) \/ NoSubscription(p) \/ NoUpdate(p) \/ EndIteration(p)
             \/ BroadcastDead(p) \/ PersistPartitions(p)
    BY <2>5, PhaseKeepsOrder
  <2>6. CASE Send(p) \/ TakeSubscription(p) \/ TakeUpdate(p) \/ TakeDead(p) \/ MarkTerminated(p)
    BY <2>6, SendKeepsOrder, TakeSubscriptionKeepsOrder, TakeUpdateKeepsOrder,
       TakeDeadKeepsOrder, MarkKeepsOrder
  <2> QED
    BY <2>1, <2>2, <2>3, <2>4, <2>5, <2>6 DEF Step
<1> QED
  BY <1>1, <1>2

\* What a PE has cached of a live PE's vertex is never replaced by an older
\* state of it, although answers to subscriptions and updates reach its mailbox
\* by way of a buffer that is flushed only once an iteration.
THEOREM MirrorsNeverGoBack == Spec => NeverGoesBack
<1>1. IInv /\ OrderInv /\ [Next]_vars =>
        [\A p \in PEs, o \in Live :
           ctx[p].mirror[o] # None /\ ctx'[p].mirror[o] # None =>
             ctx'[p].mirror[o].ver >= ctx[p].mirror[o].ver]_vars
  BY NextOrder DEF NoOlder
<1>2. IInv /\ [Next]_vars => IInv'
  BY NextIInv
<1>3. IInv /\ OrderInv /\ [Next]_vars => OrderInv'
  BY NextOrder
<1> QED
  BY <1>1, <1>2, <1>3, InitIInv, InitOrder, PTL DEF Spec, NeverGoesBack
-----------------------------------------------------------------------------
(* What holds behind a sequence of messages *)

\* What holds once the messages in f have been taken, if those in G make it
\* true, those in B false, and it is base before.
Outcome(f, base, G, B) ==
  \/ \E i \in DOMAIN f : f[i] \in G /\ \A j \in DOMAIN f : f[j] \in B => j < i
  \/ base /\ \A j \in DOMAIN f : f[j] \notin B

\* A message taken is as good as one in front.
LEMMA OutcomeTail ==
  ASSUME NEW X, NEW f \in Seq(X), f # <<>>, NEW base \in BOOLEAN, NEW G, NEW B,
         G \intersect B = {}
  PROVE  /\ Head(f) \in G => (Outcome(f, base, G, B) <=> Outcome(Tail(f), TRUE, G, B))
         /\ Head(f) \in B => (Outcome(f, base, G, B) <=> Outcome(Tail(f), FALSE, G, B))
         /\ Head(f) \notin G \union B =>
              (Outcome(f, base, G, B) <=> Outcome(Tail(f), base, G, B))
<1> DEFINE t == Tail(f)
<1>1. /\ t \in Seq(X) /\ Len(f) \in Nat \ {0} /\ DOMAIN f = 1 .. Len(f)
      /\ DOMAIN t = 1 .. Len(f) - 1 /\ Head(f) = f[1]
      /\ \A i \in 1 .. Len(f) - 1 : t[i] = f[i + 1]
  OBVIOUS
<1> HIDE DEF t
<1>2. ASSUME NEW b \in BOOLEAN, Outcome(t, b, G, B),
             b => f[1] \in G \/ (base /\ f[1] \notin B)
      PROVE  Outcome(f, base, G, B)
  <2>1. CASE \E i \in DOMAIN t : t[i] \in G /\ \A j \in DOMAIN t : t[j] \in B => j < i
    <3>1. PICK i \in DOMAIN t : t[i] \in G /\ \A j \in DOMAIN t : t[j] \in B => j < i BY <2>1
    <3>2. i + 1 \in DOMAIN f /\ f[i + 1] \in G BY <1>1, <3>1
    <3>3. ASSUME NEW j \in DOMAIN f, f[j] \in B PROVE j < i + 1
      <4>1. CASE j = 1 BY <1>1, <3>1, <4>1
      <4>2. CASE j # 1
        <5>1. j - 1 \in DOMAIN t /\ t[j - 1] = f[j] BY <1>1, <4>2
        <5> QED BY <1>1, <3>1, <3>3, <5>1
      <4> QED BY <4>1, <4>2
    <3> QED BY <3>2, <3>3 DEF Outcome
  <2>2. CASE b /\ \A j \in DOMAIN t : t[j] \notin B
    <3>1. ASSUME NEW j \in DOMAIN f, j # 1 PROVE f[j] \notin B
      <4>1. j - 1 \in DOMAIN t /\ t[j - 1] = f[j] BY <1>1, <3>1
      <4> QED BY <2>2, <4>1
    <3>2. CASE f[1] \in G
      <4>1. f[1] \notin B /\ 1 \in DOMAIN f BY <1>1, <3>2
      <4>2. \A j \in DOMAIN f : f[j] \in B => j < 1 BY <3>1, <4>1
      <4> QED BY <3>2, <4>1, <4>2 DEF Outcome
    <3>3. CASE base /\ f[1] \notin B BY <3>1, <3>3 DEF Outcome
    <3> QED BY <1>2, <2>2, <3>2, <3>3
  <2> QED BY <1>2, <2>1, <2>2 DEF Outcome
<1>3. ASSUME NEW b \in BOOLEAN, Outcome(f, base, G, B),
             f[1] \in G \/ (base /\ f[1] \notin B) => b
      PROVE  Outcome(t, b, G, B)
  <2>1. CASE \E i \in DOMAIN f : f[i] \in G /\ \A j \in DOMAIN f : f[j] \in B => j < i
    <3>1. PICK i \in DOMAIN f : f[i] \in G /\ \A j \in DOMAIN f : f[j] \in B => j < i BY <2>1
    <3>2. \A j \in DOMAIN t : j + 1 \in DOMAIN f /\ t[j] = f[j + 1] BY <1>1
    <3>3. CASE i = 1
      <4>1. \A j \in DOMAIN t : t[j] \notin B BY <1>1, <3>1, <3>2, <3>3
      <4> QED BY <1>3, <3>1, <3>3, <4>1 DEF Outcome
    <3>4. CASE i # 1
      <4>1. i - 1 \in DOMAIN t /\ t[i - 1] = f[i] BY <1>1, <3>4
      <4>2. \A j \in DOMAIN t : t[j] \in B => j < i - 1
        <5> SUFFICES ASSUME NEW j \in DOMAIN t, t[j] \in B PROVE j < i - 1 OBVIOUS
        <5>1. j + 1 < i BY <3>1, <3>2
        <5> QED BY <1>1, <5>1
      <4> QED BY <3>1, <4>1, <4>2 DEF Outcome
    <3> QED BY <3>3, <3>4
  <2>2. CASE base /\ \A j \in DOMAIN f : f[j] \notin B
    <3>1. \A j \in DOMAIN t : t[j] \notin B BY <1>1, <2>2
    <3>2. f[1] \notin B BY <1>1, <2>2
    <3> QED BY <1>3, <2>2, <3>1, <3>2 DEF Outcome
  <2> QED BY <1>3, <2>1, <2>2 DEF Outcome
<1>4. f[1] \in G => f[1] \notin B OBVIOUS
<1>5. CASE f[1] \in G
  <2>1. Outcome(t, TRUE, G, B) => Outcome(f, base, G, B) BY <1>2, <1>5
  <2>2. Outcome(f, base, G, B) => Outcome(t, TRUE, G, B) BY <1>3, <1>5
  <2> QED BY <1>1, <1>4, <1>5, <2>1, <2>2 DEF t
<1>6. CASE f[1] \in B
  <2>1. Outcome(t, FALSE, G, B) => Outcome(f, base, G, B) BY <1>2, <1>6
  <2>2. Outcome(f, base, G, B) => Outcome(t, FALSE, G, B) BY <1>3, <1>4, <1>6
  <2> QED BY <1>1, <1>4, <1>6, <2>1, <2>2 DEF t
<1>7. CASE f[1] \notin G \union B
  <2>1. Outcome(t, base, G, B) => Outcome(f, base, G, B) BY <1>2, <1>7
  <2>2. Outcome(f, base, G, B) => Outcome(t, base, G, B) BY <1>3, <1>7
  <2> QED BY <1>1, <1>7, <2>1, <2>2 DEF t
<1> QED BY <1>5, <1>6, <1>7

\* Messages behind others take up what those have made of it.
LEMMA OutcomeConcat ==
  ASSUME NEW X, NEW f \in Seq(X), NEW g \in Seq(X), NEW base \in BOOLEAN, NEW G, NEW B,
         NEW b \in BOOLEAN, b <=> Outcome(f, base, G, B)
  PROVE  Outcome(f \o g, base, G, B) <=> Outcome(g, b, G, B)
<1> DEFINE h == f \o g
<1>1. /\ Len(f) \in Nat /\ Len(g) \in Nat /\ DOMAIN f = 1 .. Len(f) /\ DOMAIN g = 1 .. Len(g)
      /\ DOMAIN h = 1 .. Len(f) + Len(g)
      /\ \A i \in 1 .. Len(f) : h[i] = f[i]
      /\ \A i \in 1 .. Len(g) : h[Len(f) + i] = g[i]
  OBVIOUS
<1> HIDE DEF h
<1>2. ASSUME NEW j \in DOMAIN h, j \notin DOMAIN f
      PROVE  j - Len(f) \in DOMAIN g /\ h[j] = g[j - Len(f)]
  <2>1. j - Len(f) \in 1 .. Len(g) /\ Len(f) + (j - Len(f)) = j BY <1>1, <1>2
  <2> QED BY <1>1, <2>1
<1>3. (\A j \in DOMAIN h : h[j] \notin B) <=>
        (\A j \in DOMAIN f : f[j] \notin B) /\ (\A j \in DOMAIN g : g[j] \notin B)
  <2>1. \A j \in DOMAIN f : j \in DOMAIN h /\ h[j] = f[j] BY <1>1
  <2>2. \A j \in DOMAIN g : Len(f) + j \in DOMAIN h /\ h[Len(f) + j] = g[j] BY <1>1
  <2> QED BY <1>2, <2>1, <2>2
<1>4. ASSUME NEW i \in DOMAIN g, g[i] \in G, \A j \in DOMAIN g : g[j] \in B => j < i
      PROVE  Outcome(h, base, G, B)
  <2>1. Len(f) + i \in DOMAIN h /\ h[Len(f) + i] \in G BY <1>1, <1>4
  <2>2. ASSUME NEW j \in DOMAIN h, h[j] \in B PROVE j < Len(f) + i
    <3>1. CASE j \in DOMAIN f BY <1>1, <1>4, <3>1
    <3>2. CASE j \notin DOMAIN f
      <4>1. j - Len(f) < i BY <1>2, <1>4, <2>2, <3>2
      <4> QED BY <1>1, <1>4, <4>1
    <3> QED BY <3>1, <3>2
  <2> QED BY <2>1, <2>2 DEF Outcome
<1>5. ASSUME NEW i \in DOMAIN f, f[i] \in G, \A j \in DOMAIN f : f[j] \in B => j < i,
             \A j \in DOMAIN g : g[j] \notin B
      PROVE  Outcome(h, base, G, B)
  <2>1. i \in DOMAIN h /\ h[i] \in G BY <1>1, <1>5
  <2>2. \A j \in DOMAIN h : h[j] \in B => j < i BY <1>1, <1>2, <1>5
  <2> QED BY <2>1, <2>2 DEF Outcome
<1>6. Outcome(g, b, G, B) => Outcome(h, base, G, B)
  <2> SUFFICES ASSUME Outcome(g, b, G, B) PROVE Outcome(h, base, G, B) OBVIOUS
  <2>1. CASE \E i \in DOMAIN g : g[i] \in G /\ \A j \in DOMAIN g : g[j] \in B => j < i
    BY <1>4, <2>1
  <2>2. CASE b /\ \A j \in DOMAIN g : g[j] \notin B
    <3>1. Outcome(f, base, G, B) BY <2>2
    <3>2. CASE \E i \in DOMAIN f : f[i] \in G /\ \A j \in DOMAIN f : f[j] \in B => j < i
      BY <1>5, <2>2, <3>2
    <3>3. CASE base /\ \A j \in DOMAIN f : f[j] \notin B
      BY <1>3, <2>2, <3>3 DEF Outcome
    <3> QED BY <3>1, <3>2, <3>3 DEF Outcome
  <2> QED BY <2>1, <2>2 DEF Outcome
<1>7. Outcome(h, base, G, B) => Outcome(g, b, G, B)
  <2> SUFFICES ASSUME Outcome(h, base, G, B) PROVE Outcome(g, b, G, B) OBVIOUS
  <2>1. CASE \E i \in DOMAIN h : h[i] \in G /\ \A j \in DOMAIN h : h[j] \in B => j < i
    <3>1. PICK i \in DOMAIN h : h[i] \in G /\ \A j \in DOMAIN h : h[j] \in B => j < i BY <2>1
    <3>2. CASE i \in DOMAIN f
      <4>1. \A j \in DOMAIN f : f[j] \in B => j < i BY <1>1, <3>1
      <4>2. b BY <1>1, <3>1, <3>2, <4>1 DEF Outcome
      <4>3. ASSUME NEW j \in DOMAIN g, g[j] \in B PROVE FALSE
        <5>1. Len(f) + j < i BY <1>1, <3>1, <4>3
        <5> QED BY <1>1, <3>2, <5>1
      <4> QED BY <4>2, <4>3 DEF Outcome
    <3>3. CASE i \notin DOMAIN f
      <4>1. i - Len(f) \in DOMAIN g /\ g[i - Len(f)] \in G BY <1>2, <3>1, <3>3
      <4>2. \A j \in DOMAIN g : g[j] \in B => j < i - Len(f)
        <5> SUFFICES ASSUME NEW j \in DOMAIN g, g[j] \in B PROVE j < i - Len(f) OBVIOUS
        <5>1. Len(f) + j < i BY <1>1, <3>1
        <5> QED BY <1>1, <5>1
      <4> QED BY <4>1, <4>2 DEF Outcome
    <3> QED BY <3>2, <3>3
  <2>2. CASE base /\ \A j \in DOMAIN h : h[j] \notin B
    <3>1. b BY <1>3, <2>2 DEF Outcome
    <3> QED BY <1>3, <2>2, <3>1 DEF Outcome
  <2> QED BY <2>1, <2>2 DEF Outcome
<1> QED BY <1>6, <1>7 DEF h

\* One message behind the others decides, if it is one of G or B.
LEMMA OutcomeAppend ==
  ASSUME NEW X, NEW f \in Seq(X), NEW m \in X, NEW base \in BOOLEAN, NEW G, NEW B,
         G \intersect B = {}
  PROVE  /\ m \in G => Outcome(Append(f, m), base, G, B)
         /\ m \in B => ~Outcome(Append(f, m), base, G, B)
         /\ m \notin G \union B =>
              (Outcome(Append(f, m), base, G, B) <=> Outcome(f, base, G, B))
<1>1. PICK g : g = <<m>> OBVIOUS
<1>2. g \in Seq(X) /\ Append(f, m) = f \o g BY <1>1
<1>3. PICK b \in BOOLEAN : b <=> Outcome(f, base, G, B) OBVIOUS
<1>4. Outcome(f \o g, base, G, B) <=> Outcome(g, b, G, B) BY <1>2, <1>3, OutcomeConcat
<1>5. DOMAIN g = {1} /\ g[1] = m BY <1>1
<1>6. Outcome(g, b, G, B) <=> m \in G \/ (b /\ m \notin B) BY <1>5 DEF Outcome
<1> QED BY <1>2, <1>3, <1>4, <1>6

\* A sequence without any such message changes nothing.
LEMMA OutcomeOthers ==
  ASSUME NEW f, NEW base \in BOOLEAN, NEW G, NEW B,
         \A i \in DOMAIN f : f[i] \notin G \union B
  PROVE  Outcome(f, base, G, B) <=> base
BY DEF Outcome
-----------------------------------------------------------------------------
(* What each step does *)

\* d is c but for the fields F.
Same(c, d, F) == \A f \in Fields \ F : d[f] = c[f]

\* A step of p changes nothing but the fields F of its context.
Only(p, F) == (\A r \in PEs \ {p} : ctx'[r] = ctx[r]) /\ Same(ctx[p], ctx'[p], F)

Visiting(c) == c.pc \in {"subscribe", "unsubscribe"}
InWindow(c) == c.pc \in {"publish", "subscribe", "unsubscribe"}

\* The step neither visits partitions nor changes what is known of them.
OutsideWindow(p) ==
  /\ ~InWindow(ctx[p]) /\ ~Visiting(ctx'[p])
  /\ \A f \in {"app", "produced", "subscribed", "new_subscribed", "todo", "producer_info"} :
       ctx'[p][f] = ctx[p][f]
  /\ dir'.producers = dir.producers

\* The next phase begins.
LEMMA PhaseIs ==
  ASSUME IInv, OrderInv, NEW p \in PEs,
         \/ NoChange(p) \/ NoSubscription(p) \/ NoUpdate(p) \/ EndIteration(p)
         \/ BroadcastDead(p) \/ PersistPartitions(p) \/ MarkTerminated(p)
  PROVE  /\ Only(p, {"pc"}) /\ OutsideWindow(p)
         /\ ~InWindow(ctx[p]) /\ ctx[p].pc # "send"
         /\ InLoop(ctx'[p]) => InLoop(ctx[p])
         /\ mail'.forward = mail.forward /\ mail'.update = mail.update
         /\ \/ mail'.dead = mail.dead
            \/ mail'.dead = [o \in PEs |-> mail.dead[o] \union {p}] /\ ~InLoop(ctx'[p])
<1>1. /\ DOMAIN ctx = PEs /\ DOMAIN ctx[p] = Fields
      /\ DOMAIN mail = {"forward", "update", "dead"}
      /\ DOMAIN dir = {"producers", "terminated", "vertex_partitions"}
  BY Shapes DEF IInv, IsContext
<1>2. PICK from, to \in {"change", "publish", "subs", "recv", "poll", "leave", "persist", "mark", "gone"} :
        /\ ctx[p].pc = from /\ ctx' = [ctx EXCEPT ![p] = [ctx[p] EXCEPT !.pc = to]]
        /\ from \notin {"publish", "gone"}
        /\ from \in {"leave", "persist", "mark"} <=> to \in {"persist", "mark", "gone"}
        /\ BroadcastDead(p) => to = "persist"
  BY DEF NoChange, NoSubscription, NoUpdate, EndIteration, BroadcastDead, PersistPartitions,
         MarkTerminated, At, SetCtx
<1>3. Only(p, {"pc"}) /\ ctx'[p].pc = to
  BY <1>1, <1>2 DEF Only, Same, Fields
<1>4. /\ mail'.forward = mail.forward /\ mail'.update = mail.update
      /\ dir'.producers = dir.producers
      /\ \/ mail'.dead = mail.dead
         \/ BroadcastDead(p) /\ mail'.dead = [o \in PEs |-> mail.dead[o] \union {p}]
  BY <1>1 DEF NoChange, NoSubscription, NoUpdate, EndIteration, BroadcastDead, PersistPartitions,
              MarkTerminated
<1>5. OutsideWindow(p)
  BY <1>2, <1>3, <1>4 DEF Only, Same, Fields, OutsideWindow, InWindow, Visiting
<1>6. ~InWindow(ctx[p]) /\ ctx[p].pc # "send" /\ (InLoop(ctx'[p]) => InLoop(ctx[p]))
  BY <1>2, <1>3 DEF InWindow, InLoop
<1>7. BroadcastDead(p) => ~InLoop(ctx'[p])
  BY <1>2, <1>3 DEF InLoop
<1> QED
  BY <1>3, <1>4, <1>5, <1>6, <1>7

\* The vertex changes.
LEMMA ChangeIs ==
  ASSUME IInv, OrderInv, NEW p \in PEs, NEW q, ChangeVertex(p, q)
  PROVE  /\ Only(p, {"pc", "part", "prev_part", "ver", "needs_send"}) /\ OutsideWindow(p)
         /\ ctx[p].pc = "change" /\ ctx'[p].pc = "publish"
         /\ ctx'[p].part = q /\ ctx'[p].prev_part = ctx[p].part
         /\ ctx'[p].ver = ctx[p].ver + 1 /\ ctx'[p].needs_send = TRUE
         /\ ctx[p].ver < ctx[p].app.changes
         /\ mail' = mail /\ dir' = dir
<1>1. DOMAIN ctx = PEs /\ DOMAIN ctx[p] = Fields
  BY DEF IInv, IsContext
<1> QED
  BY <1>1 DEF ChangeVertex, SetCtx, At, Only, Same, Fields, OutsideWindow, InWindow, Visiting

\* The window is computed, and the directory told.
LEMMA PublishIs ==
  ASSUME IInv, OrderInv, NEW p \in PEs, Publish(p)
  PROVE  /\ Only(p, {"pc", "produced", "new_subscribed", "todo"})
         /\ ctx[p].pc = "publish" /\ ctx'[p].pc = "subscribe"
         /\ ctx'[p].produced = {ctx[p].part} /\ ctx'[p].todo = ctx'[p].new_subscribed
         /\ \E near \in Near(ctx[p]) :
              ctx'[p].new_subscribed =
                UNION {ctx[p].app.might_interact[q] : q \in {ctx[p].part} \union near}
         /\ dir'.producers = [q \in Parts |->
              PublishRow(dir.producers[q], p, q \in ctx[p].produced, q = ctx[p].part)]
         /\ mail' = mail
<1>1. /\ DOMAIN ctx = PEs /\ DOMAIN ctx[p] = Fields
      /\ DOMAIN dir = {"producers", "terminated", "vertex_partitions"}
  BY Shapes DEF IInv, IsContext
<1>2. /\ ctx[p].pc = "publish" /\ mail' = mail
      /\ dir'.producers = [q \in Parts |->
           PublishRow(dir.producers[q], p, q \in ctx[p].produced, q = ctx[p].part)]
  BY <1>1 DEF Publish, At
<1>3. PICK near \in Near(ctx[p]) :
        \E subs : /\ subs = UNION {ctx[p].app.might_interact[q] : q \in {ctx[p].part} \union near}
                  /\ ctx' = [ctx EXCEPT ![p] = [ctx[p] EXCEPT !.pc = "subscribe",
                       !.produced = {ctx[p].part}, !.new_subscribed = subs, !.todo = subs]]
  BY DEF Publish, SetCtx, add_interacting_partitions
<1>4. PICK subs :
        /\ subs = UNION {ctx[p].app.might_interact[q] : q \in {ctx[p].part} \union near}
        /\ ctx' = [ctx EXCEPT ![p] = [ctx[p] EXCEPT !.pc = "subscribe",
                     !.produced = {ctx[p].part}, !.new_subscribed = subs, !.todo = subs]]
  BY <1>3
<1>5. /\ Only(p, {"pc", "produced", "new_subscribed", "todo"})
      /\ ctx'[p].pc = "subscribe" /\ ctx'[p].produced = {ctx[p].part}
      /\ ctx'[p].new_subscribed = subs /\ ctx'[p].todo = subs
  BY <1>1, <1>4 DEF Only, Same, Fields
<1> QED
  BY <1>2, <1>4, <1>5

\* What p learns of q where it looks at the row.
Learns(p, q) ==
  /\ Only(p, {"todo", "producer_info", "dead_info", "skip", "interval", "mirror"})
  /\ ctx[p].pc = "subscribe" /\ q \in ctx[p].todo
  /\ ctx'[p].todo = ctx[p].todo \ {q}
  /\ ctx'[p].producer_info = [ctx[p].producer_info EXCEPT ![q] = dir.producers[q]]
  /\ \E S \in SUBSET dir.terminated[q] : ctx'[p].mirror = PullVertices(ctx[p], S, q)
  /\ \E S \in SUBSET dir.producers[q].pes :
       /\ NewProducers(ctx[p], q) \subseteq S
       /\ mail'.forward = SendAll(mail.forward, S, Change(p, q, TRUE))
  /\ dir' = dir /\ mail'.update = mail.update /\ mail'.dead = mail.dead

\* A partition is entered, or its row has changed.
LEMMA LearnIs ==
  ASSUME IInv, OrderInv, NEW p \in PEs, NEW q \in Parts,
         handle_new_subscription(p, q) \/ ExistingChanged(p, q)
  PROVE  Learns(p, q)
<1> DEFINE c == ctx[p]
           told == [c EXCEPT !.todo = @ \ {q},
                             !.producer_info[q] = dir.producers[q],
                             !.dead_info[q] = dir.terminated[q],
                             !.skip[q] = 0, !.interval[q] = 1]
<1>1. /\ DOMAIN ctx = PEs /\ DOMAIN c = Fields /\ dir.terminated[q] \in SUBSET PEs
      /\ DOMAIN mail = {"forward", "update", "dead"}
  BY Shapes DEF IInv, IsContext, OrderInv, OrderTypes
<1>2. PICK S : /\ S \in SUBSET dir.terminated[q]
               /\ SetCtx(p, [told EXCEPT !.mirror = PullVertices(c, S, q)])
  <2>1. CASE handle_new_subscription(p, q)
    <3>1. SetCtx(p, [told EXCEPT !.mirror = PullVertices(c, dir.terminated[q], q)])
      BY <2>1 DEF handle_new_subscription
    <3> HIDE DEF told
    <3> QED BY <3>1
  <2>2. CASE ExistingChanged(p, q)
    <3>1. SetCtx(p, [told EXCEPT !.mirror =
                        PullVertices(c, dir.terminated[q] \ c.dead_info[q], q)])
      BY <2>2 DEF ExistingChanged
    <3> HIDE DEF told
    <3> QED BY <3>1
  <2> QED BY <2>1, <2>2
<1>3. /\ c.pc = "subscribe" /\ dir' = dir /\ q \in c.todo
      /\ mail'.update = mail.update /\ mail'.dead = mail.dead
      /\ \/ mail'.forward = SendAll(mail.forward, dir.producers[q].pes, Change(p, q, TRUE))
         \/ mail'.forward = SendAll(mail.forward, NewProducers(c, q), Change(p, q, TRUE))
  BY <1>1 DEF handle_new_subscription, ExistingChanged, Looks, At
<1>4. PICK pulled : pulled = PullVertices(c, S, q) OBVIOUS
<1>5. ctx' = [ctx EXCEPT ![p] = [told EXCEPT !.mirror = pulled]]
  BY <1>2, <1>4 DEF SetCtx
<1>6. /\ Only(p, {"todo", "producer_info", "dead_info", "skip", "interval", "mirror"})
      /\ ctx'[p].todo = c.todo \ {q} /\ ctx'[p].mirror = pulled
      /\ ctx'[p].producer_info = [c.producer_info EXCEPT ![q] = dir.producers[q]]
  BY <1>1, <1>5 DEF Only, Same, Fields
<1>7. NewProducers(c, q) \subseteq dir.producers[q].pes
  BY DEF NewProducers
<1>8. \E T \in SUBSET dir.producers[q].pes :
        /\ NewProducers(c, q) \subseteq T
        /\ mail'.forward = SendAll(mail.forward, T, Change(p, q, TRUE))
  BY <1>3, <1>7
<1> QED
  BY <1>2, <1>3, <1>4, <1>6, <1>8 DEF Learns

\* Nothing to learn of a partition
LEMMA SkipIs ==
  ASSUME IInv, OrderInv, NEW p \in PEs, NEW q,
         ExistingSkipped(p, q) \/ ExistingUnchanged(p, q)
  PROVE  /\ Only(p, {"todo", "skip", "interval"}) /\ ctx[p].pc = "subscribe"
         /\ q \in ctx[p].subscribed /\ ctx'[p].todo = ctx[p].todo \ {q}
         /\ mail' = mail /\ dir' = dir
<1>1. DOMAIN ctx = PEs /\ DOMAIN ctx[p] = Fields
  BY DEF IInv, IsContext
<1>2. CASE ExistingSkipped(p, q)
  BY <1>1, <1>2 DEF ExistingSkipped, SetCtx, At, Only, Same, Fields
<1>3. CASE ExistingUnchanged(p, q)
  BY <1>1, <1>3 DEF ExistingUnchanged, Looks, SetCtx, At, Only, Same, Fields
<1> QED
  BY <1>2, <1>3

\* The partitions to leave are listed.
LEMMA SubscribeDoneIs ==
  ASSUME IInv, OrderInv, NEW p \in PEs, SubscribeDone(p)
  PROVE  /\ Only(p, {"pc", "todo"})
         /\ ctx[p].pc = "subscribe" /\ ctx[p].todo = {} /\ ctx'[p].pc = "unsubscribe"
         /\ ctx'[p].todo = ctx[p].subscribed \ ctx[p].new_subscribed
         /\ mail' = mail /\ dir' = dir
<1>1. DOMAIN ctx = PEs /\ DOMAIN ctx[p] = Fields
  BY DEF IInv, IsContext
<1> QED
  BY <1>1 DEF SubscribeDone, SetCtx, At, Only, Same, Fields

\* A partition is left.
LEMMA UnsubscriptionIs ==
  ASSUME IInv, OrderInv, NEW p \in PEs, NEW q, handle_new_unsubscription(p, q)
  PROVE  /\ Only(p, {"todo", "mirror", "producer_info", "dead_info"})
         /\ ctx[p].pc = "unsubscribe" /\ q \in ctx[p].todo /\ ctx'[p].todo = ctx[p].todo \ {q}
         /\ ctx'[p].mirror = Dropped(ctx[p], p, q)
         /\ ctx'[p].producer_info = [ctx[p].producer_info EXCEPT ![q] = Row]
         /\ mail'.forward = SendAll(mail.forward, ctx[p].producer_info[q].pes, Change(p, q, FALSE))
         /\ mail'.update = mail.update /\ mail'.dead = mail.dead /\ dir' = dir
<1>1. /\ DOMAIN ctx = PEs /\ DOMAIN ctx[p] = Fields
      /\ DOMAIN mail = {"forward", "update", "dead"}
  BY Shapes DEF IInv, IsContext
<1> QED
  BY <1>1 DEF handle_new_unsubscription, SetCtx, At, Only, Same, Fields

\* The new window is entered.
LEMMA WindowDoneIs ==
  ASSUME IInv, OrderInv, NEW p \in PEs, WindowDone(p)
  PROVE  /\ Only(p, {"pc", "subscribed", "new_subscribed"})
         /\ ctx[p].pc = "unsubscribe" /\ ctx[p].todo = {} /\ ctx'[p].pc = "send"
         /\ ctx'[p].subscribed = ctx[p].new_subscribed /\ ctx'[p].new_subscribed = {}
         /\ mail' = mail /\ dir' = dir
<1>1. DOMAIN ctx = PEs /\ DOMAIN ctx[p] = Fields
  BY DEF IInv, IsContext
<1> QED
  BY <1>1 DEF WindowDone, SetCtx, At, Only, Same, Fields

\* The dead are known.
LEMMA TakeDeadIs ==
  ASSUME IInv, OrderInv, NEW p \in PEs, TakeDead(p)
  PROVE  /\ Only(p, {"all_dead", "remote_subs"}) /\ OutsideWindow(p)
         /\ ctx[p].pc = "poll"
         /\ \E d \in mail.dead[p] :
              /\ ctx'[p].all_dead = ctx[p].all_dead \union {d}
              /\ ctx'[p].remote_subs = [q \in Parts |-> ctx[p].remote_subs[q] \ {d}]
         /\ mail'.forward = mail.forward /\ mail'.update = mail.update /\ dir' = dir
         /\ \E d \in mail.dead[p] : mail'.dead = [mail.dead EXCEPT ![p] = @ \ {d}]
<1>1. /\ DOMAIN ctx = PEs /\ DOMAIN ctx[p] = Fields
      /\ DOMAIN mail = {"forward", "update", "dead"}
  BY Shapes DEF IInv, IsContext
<1>2. PICK d \in mail.dead[p] :
        /\ mail' = [mail EXCEPT !.dead[p] = @ \ {d}]
        /\ ctx' = [ctx EXCEPT ![p] = [ctx[p] EXCEPT !.all_dead = @ \union {d},
                     !.remote_subs = [q \in Parts |-> @[q] \ {d}]]]
  BY DEF TakeDead, SetCtx
<1>3. ctx[p].pc = "poll" /\ dir' = dir
  BY DEF TakeDead, At
<1>4. /\ Only(p, {"all_dead", "remote_subs"})
      /\ ctx'[p].all_dead = ctx[p].all_dead \union {d}
      /\ ctx'[p].remote_subs = [q \in Parts |-> ctx[p].remote_subs[q] \ {d}]
  BY <1>1, <1>2 DEF Only, Same, Fields
<1>5. /\ mail'.forward = mail.forward /\ mail'.update = mail.update
      /\ mail'.dead = [mail.dead EXCEPT ![p] = @ \ {d}]
  BY <1>1, <1>2
<1>6. OutsideWindow(p)
  BY <1>3, <1>4 DEF Only, Same, Fields, OutsideWindow, InWindow, Visiting
<1> QED
  BY <1>3, <1>4, <1>5, <1>6

\* An update is taken in.
LEMMA TakeUpdateIs ==
  ASSUME IInv, OrderInv, NEW p \in PEs, TakeUpdate(p)
  PROVE  /\ Only(p, {"mirror"}) /\ OutsideWindow(p) /\ ctx[p].pc = "recv"
         /\ mail.update[p] # <<>> /\ mail'.update = [mail.update EXCEPT ![p] = Tail(@)]
         /\ mail'.forward = mail.forward /\ mail'.dead = mail.dead /\ dir' = dir
         /\ LET m == Head(mail.update[p])
            IN  ctx'[p].mirror = [ctx[p].mirror EXCEPT ![m.owner] =
                  IF m.invalid THEN None ELSE Accepted(ctx[p].subscribed, m.part, m.ver)]
<1>1. /\ DOMAIN ctx = PEs /\ DOMAIN ctx[p] = Fields
      /\ DOMAIN mail = {"forward", "update", "dead"}
  BY Shapes DEF IInv, IsContext
<1>2. PICK m, taken :
        /\ m = Head(mail.update[p])
        /\ taken = IF m.invalid THEN None ELSE Accepted(ctx[p].subscribed, m.part, m.ver)
  OBVIOUS
<1>3. /\ ctx' = [ctx EXCEPT ![p] = [ctx[p] EXCEPT !.mirror[m.owner] = taken]]
      /\ mail.update[p] # <<>> /\ ctx[p].pc = "recv" /\ dir' = dir
      /\ mail' = [mail EXCEPT !.update[p] = Tail(@)]
  BY <1>2 DEF TakeUpdate, SetCtx, At, handle_deleted_vertex, handle_new_vertex
<1>4. Only(p, {"mirror"}) /\ ctx'[p].mirror = [ctx[p].mirror EXCEPT ![m.owner] = taken]
  BY <1>1, <1>3 DEF Only, Same, Fields
<1>5. /\ mail'.forward = mail.forward /\ mail'.dead = mail.dead
      /\ mail'.update = [mail.update EXCEPT ![p] = Tail(@)]
  BY <1>1, <1>3
<1>6. OutsideWindow(p)
  BY <1>3, <1>4 DEF Only, Same, Fields, OutsideWindow, InWindow, Visiting
<1> QED
  BY <1>2, <1>3, <1>4, <1>5, <1>6
\* The messages for subscribers, by the PE they go to
Receives(p, c, q, r) == r \in c.remote_subs[q] \ ({p} \union c.all_dead)

\* What p buffers for r when it announces its vertex
Announces(p, c, r) ==
  LET t == c.out[r]
      u == IF c.prev_part \notin {HVR_INVALID_PARTITION, c.part} /\ Receives(p, c, c.prev_part, r)
           THEN Append(t, Invalidate(p, c)) ELSE t
  IN  IF ~c.needs_send THEN t
      ELSE IF Receives(p, c, c.part, r) THEN Append(u, Update(p, c)) ELSE u

\* Updates are sent, and the buffers flushed.
LEMMA SendIs ==
  ASSUME IInv, OrderInv, NEW p \in PEs, Send(p)
  PROVE  /\ Only(p, {"pc", "first", "needs_send", "out"}) /\ OutsideWindow(p)
         /\ ctx[p].pc = "send" /\ ctx'[p].pc = "subs" /\ ctx'[p].needs_send = FALSE
         /\ ctx'[p].out = [o \in PEs |-> <<>>]
         /\ mail'.update = [r \in PEs |-> mail.update[r] \o Announces(p, ctx[p], r)]
         /\ mail'.forward = mail.forward /\ mail'.dead = mail.dead /\ dir' = dir
<1> DEFINE c == ctx[p]
           i == Invalidated(p, c)
           a == Announced(p, c)
<1>1. /\ DOMAIN ctx = PEs /\ DOMAIN c = Fields
      /\ DOMAIN mail = {"forward", "update", "dead"}
  BY Shapes DEF IInv, IsContext
<1>2. /\ Same(c, i, {"out"}) /\ DOMAIN i = Fields
      /\ \A r \in PEs : i.out[r] =
           IF c.prev_part \notin {HVR_INVALID_PARTITION, c.part} /\ Receives(p, c, c.prev_part, r)
           THEN Append(c.out[r], Invalidate(p, c)) ELSE c.out[r]
  BY <1>1 DEF Invalidated, ToSubscribers, Same, Fields, SendAll, Receives
<1> HIDE DEF i
<1>3. Update(p, i) = Update(p, c) /\ i.part = c.part
  BY <1>2 DEF Update, Same, Fields
<1>4. /\ Same(c, Updated(p, i), {"out"}) /\ DOMAIN Updated(p, i) = Fields
      /\ \A r \in PEs : Updated(p, i).out[r] =
           IF Receives(p, c, c.part, r) THEN Append(i.out[r], Update(p, c)) ELSE i.out[r]
  <2>1. PICK S : S = i.remote_subs[i.part] \ ({p} \union i.all_dead) OBVIOUS
  <2>2. Updated(p, i) = [i EXCEPT !.out = SendAll(@, S, Update(p, c))]
    BY <1>3, <2>1 DEF Updated, ToSubscribers
  <2>3. \A r : r \in S <=> Receives(p, c, c.part, r)
    BY <1>2, <1>3, <2>1 DEF Receives, Same, Fields
  <2>4. PICK u : u = Updated(p, i) OBVIOUS
  <2>5. Same(i, u, {"out"}) /\ DOMAIN u = Fields /\ u.out = SendAll(i.out, S, Update(p, c))
    BY <1>2, <2>2, <2>4 DEF Same, Fields
  <2>6. Same(c, u, {"out"})
    BY <1>2, <2>5 DEF Same
  <2> QED
    BY <2>3, <2>4, <2>5, <2>6 DEF SendAll
<1>5. /\ Same(c, a, {"out"}) /\ DOMAIN a = Fields
      /\ \A r \in PEs : a.out[r] = Announces(p, c, r)
  <2>1. CASE c.needs_send = TRUE
    <3>1. a = Updated(p, i)
      BY <2>1 DEF Announced, i
    <3> HIDE DEF a, c
    <3> QED
      BY <1>2, <1>4, <2>1, <3>1 DEF Announces
  <2>2. CASE ~c.needs_send
    <3>1. a = c
      BY <2>2 DEF Announced
    <3> QED
      BY <1>1, <2>2, <3>1 DEF Announces, Same
  <2> QED
    BY <2>1, <2>2 DEF Announced
<1> HIDE DEF a
<1>6. /\ SetCtx(p, [a EXCEPT !.pc = "subs", !.first = FALSE, !.needs_send = FALSE,
                             !.out = [o \in PEs |-> <<>>]])
      /\ mail' = [mail EXCEPT !.update = [o \in PEs |-> Flushed(@[o], a.out[o])]]
      /\ c.pc = "send" /\ dir' = dir
  BY DEF Send, At, a
<1>7. /\ Only(p, {"pc", "first", "needs_send", "out"})
      /\ ctx'[p].pc = "subs" /\ ctx'[p].needs_send = FALSE
      /\ ctx'[p].out = [o \in PEs |-> <<>>]
  BY <1>1, <1>5, <1>6 DEF SetCtx, Only, Same, Fields
<1>8. /\ mail'.forward = mail.forward /\ mail'.dead = mail.dead
      /\ mail'.update = [r \in PEs |-> mail.update[r] \o Announces(p, c, r)]
  BY <1>1, <1>5, <1>6 DEF Flushed
<1>9. OutsideWindow(p)
  BY <1>6, <1>7 DEF Only, Same, Fields, OutsideWindow, InWindow, Visiting
<1> QED
  BY <1>6, <1>7, <1>8, <1>9

\* Changes of subscriptions
Changes == [pe : PEs, partition : Parts, entered : BOOLEAN]

\* A subscription is answered if it is new and there is something to send.
Answers(p, c, m) ==
  /\ m.entered /\ m.pe \notin c.remote_subs[m.partition]
  /\ m.pe # p /\ c.part = m.partition /\ m.pe \notin c.all_dead

\* The lists of subscribers once m is taken in
Listed(subs, m) ==
  [subs EXCEPT ![m.partition] = IF m.entered THEN @ \union {m.pe} ELSE @ \ {m.pe}]

\* A subscription is taken in.
LEMMA TakeSubscriptionIs ==
  ASSUME IInv, OrderInv, NEW p \in PEs, TakeSubscription(p),
         NEW m \in Changes, m = Head(mail.forward[p]),
         ctx[p].remote_subs \in [Parts -> SUBSET PEs]
  PROVE  /\ Only(p, {"out", "remote_subs"}) /\ OutsideWindow(p) /\ ctx[p].pc = "subs"
         /\ ctx'[p].remote_subs = Listed(ctx[p].remote_subs, m)
         /\ \A r \in PEs : ctx'[p].out[r] =
              IF Answers(p, ctx[p], m) /\ r = m.pe
              THEN Append(ctx[p].out[r], Update(p, ctx[p])) ELSE ctx[p].out[r]
         /\ mail.forward[p] # <<>> /\ mail'.forward = [mail.forward EXCEPT ![p] = Tail(@)]
         /\ mail'.update = mail.update /\ mail'.dead = mail.dead /\ dir' = dir
<1> DEFINE c == ctx[p]
<1>1. /\ DOMAIN ctx = PEs /\ DOMAIN c = Fields
      /\ DOMAIN mail = {"forward", "update", "dead"} /\ c.out \in [PEs -> Seq(UpdateMessages)]
  BY Shapes DEF IInv, IsContext, OrderInv, Posts
<1>2. m.partition \in Parts
  BY DEF Changes
<1>3. PICK d : d = IF m.entered THEN Subscribed(p, c, m) ELSE Unsubscribed(c, m) OBVIOUS
<1>4. /\ c.pc = "subs" /\ dir' = dir /\ mail.forward[p] # <<>>
      /\ mail' = [mail EXCEPT !.forward[p] = Tail(@)] /\ ctx' = [ctx EXCEPT ![p] = d]
  BY <1>3 DEF TakeSubscription, SetCtx, At
<1>5. /\ Same(c, d, {"out", "remote_subs"})
      /\ d.remote_subs = Listed(c.remote_subs, m)
      /\ \A r \in PEs : d.out[r] =
           IF Answers(p, c, m) /\ r = m.pe
           THEN Append(c.out[r], Update(p, c)) ELSE c.out[r]
  <2>1. CASE Answers(p, c, m)
    <3>1. d = [c EXCEPT !.out[m.pe] = Append(@, Update(p, c)),
                        !.remote_subs[m.partition] = @ \union {m.pe}]
      <4>1. send_all_vertices(p, c, m.pe, m.partition)
              = [c EXCEPT !.out[m.pe] = Append(@, Update(p, c))]
        BY <2>1 DEF send_all_vertices, Answers
      <4> QED
        BY <1>1, <1>3, <2>1, <4>1 DEF Subscribed, Answers, Fields
    <3> QED
      BY <1>1, <1>2, <2>1, <3>1 DEF Same, Fields, Answers, Listed
  <2>2. CASE m.entered /\ m.pe \notin c.remote_subs[m.partition] /\ ~Answers(p, c, m)
    <3>1. d = [c EXCEPT !.remote_subs[m.partition] = @ \union {m.pe}]
      <4>1. send_all_vertices(p, c, m.pe, m.partition) = c
        BY <2>2 DEF send_all_vertices, Answers
      <4> QED
        BY <1>3, <2>2, <4>1 DEF Subscribed, Answers
    <3> QED
      BY <1>1, <1>2, <2>2, <3>1 DEF Same, Fields, Answers, Listed
  <2>3. CASE m.entered /\ m.pe \in c.remote_subs[m.partition]
    <3>1. d = c
      BY <1>3, <2>3 DEF Subscribed, Answers
    <3>2. c.remote_subs = Listed(c.remote_subs, m)
      BY <2>3 DEF Listed
    <3> QED
      BY <2>3, <3>1, <3>2 DEF Same, Answers, Listed
  <2>4. CASE ~m.entered
    <3>1. d = [c EXCEPT !.remote_subs[m.partition] = @ \ {m.pe}]
      BY <1>3, <2>4 DEF Unsubscribed
    <3> QED
      BY <1>1, <1>2, <2>4, <3>1 DEF Same, Fields, Answers, Listed
  <2> QED
    BY <2>1, <2>2, <2>3, <2>4
<1>6. /\ mail'.update = mail.update /\ mail'.dead = mail.dead
      /\ mail'.forward = [mail.forward EXCEPT ![p] = Tail(@)]
  BY <1>1, <1>4
<1>7. Only(p, {"out", "remote_subs"}) /\ ctx'[p] = d
  BY <1>1, <1>4, <1>5 DEF Only
<1>8. OutsideWindow(p)
  BY <1>4, <1>7 DEF Only, Same, Fields, OutsideWindow, InWindow, Visiting
<1> QED
  BY <1>4, <1>5, <1>6, <1>7, <1>8
-----------------------------------------------------------------------------
(* Who believes, and who is counted as, what *)

Enters(p, q) == {m \in Changes : m.pe = p /\ m.partition = q /\ m.entered}
Leaves(p, q) == {m \in Changes : m.pe = p /\ m.partition = q /\ ~m.entered}

\* o counts p as a subscriber of q, or will have once its messages are taken.
Counted(p, o, q) == p \in ctx[o].remote_subs[q]
Counts(p, o, q) == Outcome(mail.forward[o], Counted(p, o, q), Enters(p, q), Leaves(p, q))

\* The partitions whose producers c has told that it subscribes.
Believed(c) ==
  IF c.pc = "subscribe" THEN c.subscribed \union (c.new_subscribed \ c.todo)
  ELSE IF c.pc = "unsubscribe" THEN c.new_subscribed \union c.todo
  ELSE c.subscribed

\* The rest of the types, with what the phases say of the partitions to visit.
SubContext(c) ==
  /\ c.prev_part \in Parts \union {HVR_INVALID_PARTITION} /\ c.needs_send \in BOOLEAN
  /\ c.produced \subseteq Parts /\ c.subscribed \subseteq Parts
  /\ c.new_subscribed \subseteq Parts /\ c.todo \subseteq Parts
  /\ c.producer_info \in [Parts -> RowType]
  /\ c.remote_subs \in [Parts -> SUBSET PEs]
  /\ c.pc = "subscribe" => c.todo \subseteq c.new_subscribed
  /\ c.pc = "unsubscribe" => c.todo \subseteq c.subscribed \ c.new_subscribed
  /\ c.pc # "publish" => c.produced = {c.part}
  /\ c.needs_send => InWindow(c) \/ c.pc = "send"
SubTypes ==
  /\ \A p \in PEs : SubContext(ctx[p])
  /\ dir.producers \in [Parts -> RowType]
  /\ mail.forward \in [PEs -> Seq(Changes)]
  /\ mail.dead \in [PEs -> SUBSET PEs]

\* The programs stay what they are, and have fixed ends.
AppsInv == HasFixedEnds([p \in PEs |-> ctx[p].app])

\* A row lists its producers; who has a row's number has the row.
KnownRow(r, row) ==
  /\ r.seq_no <= row.seq_no
  /\ r.seq_no = row.seq_no => r.pes = row.pes
DirInv ==
  \A q \in Parts :
    /\ dir.producers[q].pes = {p \in PEs : q \in ctx[p].produced}
    /\ dir.producers[q].seq_no = 0 => dir.producers[q].pes = {}
    /\ \A p \in PEs :
         /\ KnownRow(ctx[p].producer_info[q], dir.producers[q])
         /\ q \notin Believed(ctx[p]) => ctx[p].producer_info[q] = Row

\* Who is known to be dead is.
DeadInv == \A o, d \in PEs : d \in ctx[o].all_dead \union mail.dead[o] => ~InLoop(ctx[d])

\* A producer that p knows counts p.
CountInv ==
  \A p \in PEs, o \in PEs, q \in Parts :
    InLoop(ctx[p]) /\ o \in ctx[p].producer_info[q].pes => Counts(p, o, q)

\* The window of a PE that keeps it
Window(app) == app.might_interact[app.starts]
WindowKept(c, W) ==
  /\ c.subscribed \subseteq W
  /\ Visiting(c) => c.new_subscribed = W
  /\ ~InWindow(c) => c.subscribed = W
EntersOnly(p, f, W) == \A i \in DOMAIN f : f[i].pe = p => f[i].entered /\ f[i].partition \in W

\* Who enters only partitions of W is counted, and will be, in those only.
EntersOnlyIn(a, o, W) ==
  /\ \A q \in Parts : Counted(a, o, q) => q \in W
  /\ EntersOnly(a, mail.forward[o], W)
WindowInv ==
  \A p \in PEs : KeepsWindow(ctx[p].app) =>
    /\ WindowKept(ctx[p], Window(ctx[p].app))
    /\ \A o \in PEs : EntersOnlyIn(p, o, Window(ctx[p].app))

\* Who counts p, of those that stay where they are, is a producer that p knows.
StillInv ==
  \A o \in PEs : StaysPut(ctx[o].app) =>
    /\ ctx[o].part = ctx[o].app.starts
    /\ ctx[o].prev_part \in {ctx[o].part, HVR_INVALID_PARTITION}
    /\ \A p \in PEs :
         /\ InLoop(ctx[p]) /\ Counts(p, o, ctx[o].part) =>
              o \in ctx[p].producer_info[ctx[o].part].pes
         /\ o \in ctx[p].producer_info[ctx[o].part].pes => ctx[o].part \in ctx[o].produced

\* A PE that interacts with its own partition subscribes to it.
HomeKept(c) ==
  /\ Visiting(c) => c.part \in c.new_subscribed
  /\ ~InWindow(c) => c.part \in c.subscribed
HomeInv == \A p \in PEs : InteractsAtHome(ctx[p].app) => HomeKept(ctx[p])

AgreeInv ==
  SubTypes /\ AppsInv /\ DirInv /\ DeadInv /\ CountInv /\ WindowInv /\ StillInv /\ HomeInv

\* ... whose type is known
LEMMA TakesOne ==
  ASSUME IInv, OrderInv, SubTypes, NEW p \in PEs, TakeSubscription(p)
  PROVE  \E m \in Changes :
           /\ Only(p, {"out", "remote_subs"}) /\ OutsideWindow(p) /\ ctx[p].pc = "subs"
           /\ ctx'[p].remote_subs = Listed(ctx[p].remote_subs, m)
           /\ ctx'[p].remote_subs \in [Parts -> SUBSET PEs]
           /\ \A r \in PEs : ctx'[p].out[r] =
                IF Answers(p, ctx[p], m) /\ r = m.pe
                THEN Append(ctx[p].out[r], Update(p, ctx[p])) ELSE ctx[p].out[r]
           /\ m = Head(mail.forward[p]) /\ mail.forward[p] # <<>>
           /\ mail'.forward = [mail.forward EXCEPT ![p] = Tail(@)]
           /\ mail'.update = mail.update /\ mail'.dead = mail.dead /\ dir' = dir
<1>1. PICK m : m = Head(mail.forward[p]) OBVIOUS
<1>2. mail.forward[p] \in Seq(Changes) /\ mail.forward[p] # <<>>
  BY DEF SubTypes, TakeSubscription
<1>3. m \in Changes
  BY <1>1, <1>2
<1>4. /\ m.partition \in Parts /\ m.pe \in PEs
      /\ ctx[p].remote_subs \in [Parts -> SUBSET PEs]
  BY <1>3 DEF Changes, SubTypes, SubContext
<1>5. /\ Only(p, {"out", "remote_subs"}) /\ OutsideWindow(p) /\ ctx[p].pc = "subs"
      /\ ctx'[p].remote_subs = Listed(ctx[p].remote_subs, m)
      /\ mail'.forward = [mail.forward EXCEPT ![p] = Tail(@)]
      /\ mail'.update = mail.update /\ mail'.dead = mail.dead /\ dir' = dir
  BY <1>1, <1>3, <1>4, TakeSubscriptionIs
<1>6. \A r \in PEs : ctx'[p].out[r] =
        IF Answers(p, ctx[p], m) /\ r = m.pe
        THEN Append(ctx[p].out[r], Update(p, ctx[p])) ELSE ctx[p].out[r]
  BY <1>1, <1>3, <1>4, TakeSubscriptionIs, ZenonT(30)
<1>7. ctx'[p].remote_subs \in [Parts -> SUBSET PEs]
  <2>1. CASE m.entered
    BY <1>4, <1>5, <2>1 DEF Listed
  <2>2. CASE ~m.entered
    BY <1>4, <1>5, <2>2 DEF Listed
  <2> QED
    BY <2>1, <2>2
<1> QED
  BY <1>1, <1>2, <1>3, <1>5, <1>6, <1>7

\* A change of a's subscriptions is of one partition, and one of the two kinds.
LEMMA ChangeKinds ==
  ASSUME NEW a \in PEs, NEW s \in Parts, NEW e \in BOOLEAN, NEW p, NEW q
  PROVE  /\ Change(a, s, e) \in Changes
         /\ Change(a, s, e) \in Enters(p, q) <=> p = a /\ q = s /\ e
         /\ Change(a, s, e) \in Leaves(p, q) <=> p = a /\ q = s /\ ~e
         /\ Enters(p, q) \intersect Leaves(p, q) = {}
BY DEF Change, Changes, Enters, Leaves

\* A message sent decides for its sender and its partition.
LEMMA CountsSent ==
  ASSUME SubTypes, NEW a \in PEs, NEW s \in Parts, NEW e \in BOOLEAN, NEW S,
         mail'.forward = SendAll(mail.forward, S, Change(a, s, e)),
         NEW p \in PEs, NEW o \in PEs, NEW q \in Parts,
         ctx'[o].remote_subs = ctx[o].remote_subs
  PROVE  /\ o \in S /\ p = a /\ q = s => (Counts(p, o, q)' <=> e)
         /\ ~(o \in S /\ p = a /\ q = s) => (Counts(p, o, q)' <=> Counts(p, o, q))
<1>1. PICK f : f = mail.forward[o] OBVIOUS
<1>2. PICK b \in BOOLEAN : b <=> Counted(p, o, q)
  OBVIOUS
<1>3. f \in Seq(Changes)
  BY <1>1 DEF SubTypes
<1>4. b <=> Counted(p, o, q)'
  BY <1>2 DEF Counted
<1>5. mail'.forward[o] = IF o \in S THEN Append(f, Change(a, s, e)) ELSE f
  BY <1>1 DEF SendAll
<1>6. Counts(p, o, q) <=> Outcome(f, b, Enters(p, q), Leaves(p, q))
  BY <1>1, <1>2 DEF Counts, Outcome
<1>7. Counts(p, o, q)' <=> Outcome(mail'.forward[o], b, Enters(p, q), Leaves(p, q))
  BY <1>4 DEF Counts, Outcome
<1>8. CASE o \in S
  <2>1. PICK m \in Changes : m = Change(a, s, e)
    BY ChangeKinds
  <2>2. /\ m \in Enters(p, q) => Outcome(Append(f, m), b, Enters(p, q), Leaves(p, q))
        /\ m \in Leaves(p, q) => ~Outcome(Append(f, m), b, Enters(p, q), Leaves(p, q))
        /\ m \notin Enters(p, q) \union Leaves(p, q) =>
             (Outcome(Append(f, m), b, Enters(p, q), Leaves(p, q))
                <=> Outcome(f, b, Enters(p, q), Leaves(p, q)))
    BY <1>3, ChangeKinds, OutcomeAppend
  <2> QED
    BY <1>5, <1>6, <1>7, <1>8, <2>1, <2>2, ChangeKinds
<1>9. CASE o \notin S
  BY <1>5, <1>6, <1>7, <1>9
<1> QED
  BY <1>8, <1>9

\* A message taken has been counted already.
LEMMA CountsTaken ==
  ASSUME IInv, OrderInv, SubTypes, NEW r \in PEs, TakeSubscription(r),
         NEW p \in PEs, NEW o \in PEs, NEW q \in Parts
  PROVE  Counts(p, o, q)' <=> Counts(p, o, q)
<1>1. PICK f : f = mail.forward[r] OBVIOUS
<1>2. PICK m : m = Head(f) OBVIOUS
<1>3. f \in Seq(Changes) /\ f # <<>>
  BY <1>1 DEF SubTypes, TakeSubscription
<1>4. m \in Changes
  BY <1>2, <1>3
<1>5. /\ m.pe \in PEs /\ m.partition \in Parts /\ m.entered \in BOOLEAN
      /\ ctx[r].remote_subs \in [Parts -> SUBSET PEs] /\ m = Head(mail.forward[r])
  BY <1>1, <1>2, <1>4 DEF Changes, SubTypes, SubContext
<1>6. /\ Only(r, {"out", "remote_subs"})
      /\ ctx'[r].remote_subs = Listed(ctx[r].remote_subs, m)
      /\ mail'.forward = [mail.forward EXCEPT ![r] = Tail(@)]
  BY <1>4, <1>5, TakeSubscriptionIs
<1>7. CASE o # r
  <2>1. mail'.forward[o] = mail.forward[o] /\ ctx'[o] = ctx[o]
    BY <1>6, <1>7 DEF Only
  <2> QED
    BY <2>1 DEF Counts, Counted
<1>8. CASE o = r
  <2>1. PICK b \in BOOLEAN : b <=> Counted(p, o, q)
    OBVIOUS
  <2>2. PICK n \in BOOLEAN : n <=> Counted(p, o, q)'
    OBVIOUS
  <2>3. mail'.forward[o] = Tail(f)
    BY <1>1, <1>6, <1>8 DEF SubTypes
  <2>4. Counts(p, o, q) <=> Outcome(f, b, Enters(p, q), Leaves(p, q))
    BY <1>1, <1>8, <2>1 DEF Counts, Outcome
  <2>5. Counts(p, o, q)' <=> Outcome(Tail(f), n, Enters(p, q), Leaves(p, q))
    BY <2>2, <2>3 DEF Counts, Outcome
  <2>6. /\ m \in Enters(p, q) <=> m.pe = p /\ m.partition = q /\ m.entered
        /\ m \in Leaves(p, q) <=> m.pe = p /\ m.partition = q /\ ~m.entered
    BY <1>4 DEF Enters, Leaves
  <2>7. n <=> IF m.pe = p /\ m.partition = q THEN m.entered ELSE b
    <3>1. PICK S, L : S = ctx[r].remote_subs /\ L = ctx'[r].remote_subs
      OBVIOUS
    <3>2. S \in [Parts -> SUBSET PEs] /\ L = Listed(S, m)
      BY <1>5, <1>6, <3>1
    <3>3. (b <=> p \in S[q]) /\ (n <=> p \in L[q])
      BY <1>8, <2>1, <2>2, <3>1 DEF Counted
    <3>4. CASE q = m.partition
      <4>1. L[q] = IF m.entered THEN S[q] \union {m.pe} ELSE S[q] \ {m.pe}
        BY <1>5, <3>2, <3>4 DEF Listed
      <4> QED
        BY <1>5, <3>3, <3>4, <4>1
    <3>5. CASE q # m.partition
      <4>1. L[q] = S[q]
        BY <1>5, <3>2, <3>5 DEF Listed
      <4> QED
        BY <3>3, <3>5, <4>1
    <3> QED
      BY <3>4, <3>5
  <2>0. Enters(p, q) \intersect Leaves(p, q) = {}
    BY DEF Enters, Leaves
  <2>8. /\ m \in Enters(p, q) => (Outcome(f, b, Enters(p, q), Leaves(p, q))
                                   <=> Outcome(Tail(f), TRUE, Enters(p, q), Leaves(p, q)))
        /\ m \in Leaves(p, q) => (Outcome(f, b, Enters(p, q), Leaves(p, q))
                                   <=> Outcome(Tail(f), FALSE, Enters(p, q), Leaves(p, q)))
        /\ m \notin Enters(p, q) \union Leaves(p, q) =>
             (Outcome(f, b, Enters(p, q), Leaves(p, q))
                <=> Outcome(Tail(f), b, Enters(p, q), Leaves(p, q)))
    BY <1>2, <1>3, <2>0, OutcomeTail
  <2>9. CASE m \in Enters(p, q)
    <3>1. n = TRUE BY <2>6, <2>7, <2>9
    <3> QED BY <2>4, <2>5, <2>8, <2>9, <3>1
  <2>10. CASE m \in Leaves(p, q)
    <3>1. n = FALSE BY <2>6, <2>7, <2>10
    <3> QED BY <2>4, <2>5, <2>8, <2>10, <3>1
  <2>11. CASE m \notin Enters(p, q) \union Leaves(p, q)
    <3>1. n = b BY <1>5, <2>6, <2>7, <2>11
    <3> QED BY <2>4, <2>5, <2>8, <2>11, <3>1
  <2> QED
    BY <2>9, <2>10, <2>11
<1> QED
  BY <1>7, <1>8

\* Nobody comes back to life.
Ages(p) == InLoop(ctx'[p]) => InLoop(ctx[p])

\* The step changes neither what p knows of producers nor, but for the dead, who
\* counts whom.
Aside(p) ==
  /\ \A r \in PEs \ {p} : ctx'[r] = ctx[r]
  /\ ctx'[p].app = ctx[p].app /\ ctx'[p].producer_info = ctx[p].producer_info
  /\ Ages(p)
  /\ \A a, o \in PEs, q \in Parts :
       /\ Counts(a, o, q)' => Counts(a, o, q)
       /\ InLoop(ctx[a]) /\ Counts(a, o, q) => Counts(a, o, q)'

\* No message about subscriptions is sent or taken, and nobody gets a subscriber.
Silent(p) ==
  /\ mail'.forward = mail.forward
  /\ \A r \in PEs, q \in Parts : ctx'[r].remote_subs[q] \subseteq ctx[r].remote_subs[q]

\* No message is sent or taken, and the lists of subscribers are as they were.
LEMMA SilentAside ==
  ASSUME NEW p \in PEs, NEW F, Only(p, F), F \intersect {"app", "producer_info", "remote_subs"} = {},
         Ages(p), mail'.forward = mail.forward
  PROVE  Aside(p) /\ Silent(p)
<1>1. /\ \A r \in PEs \ {p} : ctx'[r] = ctx[r]
      /\ \A f \in {"app", "producer_info", "remote_subs"} : ctx'[p][f] = ctx[p][f]
  BY DEF Only, Same, Fields
<1>2. \A r \in PEs : ctx'[r].remote_subs = ctx[r].remote_subs
  BY <1>1
<1>3. ASSUME NEW a \in PEs, NEW o \in PEs, NEW q \in Parts
      PROVE  Counts(a, o, q)' <=> Counts(a, o, q)
  BY <1>2 DEF Counts, Counted, Outcome
<1> QED
  BY <1>1, <1>2, <1>3 DEF Aside, Silent

\* The steps that touch neither
LEMMA QuietAside ==
  ASSUME IInv, OrderInv, NEW p \in PEs,
         \/ \E q \in Parts :
              ChangeVertex(p, q) \/ ExistingSkipped(p, q) \/ ExistingUnchanged(p, q)
         \/ NoChange(p) \/ NoSubscription(p) \/ NoUpdate(p) \/ EndIteration(p)
         \/ BroadcastDead(p) \/ PersistPartitions(p) \/ MarkTerminated(p)
         \/ Publish(p) \/ SubscribeDone(p) \/ WindowDone(p) \/ Send(p) \/ TakeUpdate(p)
  PROVE  Aside(p) /\ Silent(p)
<1>1. CASE \E q \in Parts : ChangeVertex(p, q)
  <2>1. Only(p, {"pc", "part", "prev_part", "ver", "needs_send"}) /\ ctx[p].pc = "change" /\ mail' = mail
    BY <1>1, ChangeIs
  <2> QED
    BY <2>1, SilentAside DEF Ages, InLoop
<1>2. CASE \E q \in Parts : ExistingSkipped(p, q) \/ ExistingUnchanged(p, q)
  <2>1. Only(p, {"todo", "skip", "interval"}) /\ ctx[p].pc = "subscribe" /\ mail' = mail
    BY <1>2, SkipIs
  <2> QED
    BY <2>1, SilentAside DEF Ages, InLoop
<1>3. CASE \/ NoChange(p) \/ NoSubscription(p) \/ NoUpdate(p) \/ EndIteration(p)
           \/ BroadcastDead(p) \/ PersistPartitions(p) \/ MarkTerminated(p)
  <2>1. /\ Only(p, {"pc"}) /\ mail'.forward = mail.forward
        /\ InLoop(ctx'[p]) => InLoop(ctx[p])
    BY <1>3, PhaseIs
  <2> QED
    BY <2>1, SilentAside DEF Ages
<1>4. CASE Publish(p)
  <2>1. /\ Only(p, {"pc", "produced", "new_subscribed", "todo"})
        /\ ctx[p].pc = "publish" /\ mail' = mail
    BY <1>4, PublishIs
  <2> QED
    BY <2>1, SilentAside DEF Ages, InLoop
<1>5. CASE SubscribeDone(p)
  <2>1. Only(p, {"pc", "todo"}) /\ ctx[p].pc = "subscribe" /\ mail' = mail
    BY <1>5, SubscribeDoneIs
  <2> QED
    BY <2>1, SilentAside DEF Ages, InLoop
<1>6. CASE WindowDone(p)
  <2>1. Only(p, {"pc", "subscribed", "new_subscribed"}) /\ ctx[p].pc = "unsubscribe" /\ mail' = mail
    BY <1>6, WindowDoneIs
  <2> QED
    BY <2>1, SilentAside DEF Ages, InLoop
<1>7. CASE Send(p)
  <2>1. /\ Only(p, {"pc", "first", "needs_send", "out"}) /\ ctx[p].pc = "send"
        /\ mail'.forward = mail.forward
    BY <1>7, SendIs
  <2> QED
    BY <2>1, SilentAside DEF Ages, InLoop
<1>8. CASE TakeUpdate(p)
  <2>1. /\ Only(p, {"mirror"}) /\ ctx[p].pc = "recv" /\ mail'.forward = mail.forward
    BY <1>8, TakeUpdateIs
  <2> QED
    BY <2>1, SilentAside DEF Ages, InLoop
<1> QED
  BY <1>1, <1>2, <1>3, <1>4, <1>5, <1>6, <1>7, <1>8

\* A change of one's subscriptions was counted when it was sent, and the dead do
\* not count.
LEMMA CountingAside ==
  ASSUME IInv, OrderInv, SubTypes, DeadInv, NEW p \in PEs, TakeSubscription(p) \/ TakeDead(p)
  PROVE  Aside(p) /\ (Silent(p) \/ TakeSubscription(p))
<1>1. CASE TakeSubscription(p)
  <2>1. Only(p, {"out", "remote_subs"}) /\ ctx[p].pc = "subs"
    BY <1>1, TakesOne
  <2>2. /\ \A r \in PEs \ {p} : ctx'[r] = ctx[r]
        /\ ctx'[p].app = ctx[p].app /\ ctx'[p].producer_info = ctx[p].producer_info
    BY <2>1 DEF Only, Same, Fields
  <2> QED
    BY <1>1, <2>1, <2>2, CountsTaken DEF Aside, Ages, InLoop
<1>2. CASE TakeDead(p)
  <2>1. /\ Only(p, {"all_dead", "remote_subs"}) /\ ctx[p].pc = "poll"
        /\ mail'.forward = mail.forward
    BY <1>2, TakeDeadIs
  <2>2. PICK d \in mail.dead[p] :
          ctx'[p].remote_subs = [q \in Parts |-> ctx[p].remote_subs[q] \ {d}]
    BY <1>2, TakeDeadIs
  <2>3. /\ \A r \in PEs \ {p} : ctx'[r] = ctx[r]
        /\ ctx'[p].app = ctx[p].app /\ ctx'[p].producer_info = ctx[p].producer_info
    BY <2>1 DEF Only, Same, Fields
  <2>4. ~InLoop(ctx[d])
    BY DEF DeadInv, SubTypes
  <2>5. ASSUME NEW a \in PEs, NEW o \in PEs, NEW q \in Parts
        PROVE  Counted(a, o, q)' <=> Counted(a, o, q) /\ (o = p => a # d)
    BY <2>2, <2>3 DEF Counted
  <2>6. ASSUME NEW a \in PEs, NEW o \in PEs, NEW q \in Parts
        PROVE  /\ Counts(a, o, q)' => Counts(a, o, q)
               /\ InLoop(ctx[a]) /\ Counts(a, o, q) => Counts(a, o, q)'
    BY <2>1, <2>4, <2>5 DEF Counts, Outcome
  <2>7. Silent(p)
    BY <2>1, <2>2, <2>3 DEF Silent
  <2> QED
    BY <2>1, <2>3, <2>6, <2>7 DEF Aside, Ages, InLoop
<1> QED
  BY <1>1, <1>2

\* Each step is aside, or learns of a partition's producers, or leaves a partition.
LEMMA StepKinds ==
  ASSUME IInv, OrderInv, SubTypes, DeadInv, NEW p \in PEs, Step(p)
  PROVE  \/ Aside(p) /\ (Silent(p) \/ TakeSubscription(p))
         \/ \E q \in Parts : Learns(p, q) \/ handle_new_unsubscription(p, q)
<1>1. CASE \E q \in ctx[p].app.goes[ctx[p].part] : ChangeVertex(p, q)
  <2>1. PICK q \in ctx[p].app.goes[ctx[p].part] : ChangeVertex(p, q)
    BY <1>1
  <2>2. ctx[p].app \in Application /\ ctx[p].part \in Parts
    BY DEF OrderInv, OrderTypes
  <2>3. q \in Parts
    BY <2>1, <2>2 DEF Application
  <2> QED
    BY <2>1, <2>3, QuietAside
<1>2. ASSUME NEW q \in Parts,
             \/ handle_new_subscription(p, q) \/ ExistingSkipped(p, q)
             \/ ExistingUnchanged(p, q) \/ ExistingChanged(p, q)
             \/ handle_new_unsubscription(p, q)
      PROVE  (Aside(p) /\ Silent(p)) \/ Learns(p, q) \/ handle_new_unsubscription(p, q)
  BY <1>2, LearnIs, QuietAside
<1>3. CASE \/ NoChange(p) \/ NoSubscription(p) \/ NoUpdate(p) \/ EndIteration(p)
           \/ BroadcastDead(p) \/ PersistPartitions(p) \/ MarkTerminated(p)
           \/ Publish(p) \/ SubscribeDone(p) \/ WindowDone(p) \/ Send(p) \/ TakeUpdate(p)
  BY <1>3, QuietAside
<1>4. CASE TakeSubscription(p) \/ TakeDead(p)
  BY <1>4, CountingAside
<1> QED
  BY <1>1, <1>2, <1>3, <1>4 DEF Step

\* What p knows of producers, and who counts whom, where p looks at a row
LEMMA LearningCounts ==
  ASSUME SubTypes, NEW p \in PEs, NEW q \in Parts, Learns(p, q)
  PROVE  /\ \A r \in PEs \ {p} : ctx'[r] = ctx[r]
         /\ ctx'[p].app = ctx[p].app /\ ctx[p].pc = "subscribe" /\ ctx'[p].pc = "subscribe"
         /\ ctx'[p].producer_info = [ctx[p].producer_info EXCEPT ![q] = dir.producers[q]]
         /\ \E S \in SUBSET dir.producers[q].pes :
              /\ NewProducers(ctx[p], q) \subseteq S
              /\ \A a, o \in PEs, r \in Parts :
                   Counts(a, o, r)' <=> (o \in S /\ a = p /\ r = q) \/ Counts(a, o, r)
<1>1. /\ Only(p, {"todo", "producer_info", "dead_info", "skip", "interval", "mirror"})
      /\ ctx[p].pc = "subscribe"
      /\ ctx'[p].producer_info = [ctx[p].producer_info EXCEPT ![q] = dir.producers[q]]
  BY DEF Learns
<1>2. /\ \A r \in PEs \ {p} : ctx'[r] = ctx[r]
      /\ ctx'[p].app = ctx[p].app /\ ctx'[p].pc = ctx[p].pc
      /\ ctx'[p].remote_subs = ctx[p].remote_subs
  BY <1>1 DEF Only, Same, Fields
<1>3. PICK S \in SUBSET dir.producers[q].pes :
        /\ NewProducers(ctx[p], q) \subseteq S
        /\ mail'.forward = SendAll(mail.forward, S, Change(p, q, TRUE))
  BY DEF Learns
<1>4. \A r \in PEs : ctx'[r].remote_subs = ctx[r].remote_subs
  BY <1>2
<1>5. ASSUME NEW a \in PEs, NEW o \in PEs, NEW r \in Parts
      PROVE  Counts(a, o, r)' <=> (o \in S /\ a = p /\ r = q) \/ Counts(a, o, r)
  <2>1. PICK e \in BOOLEAN : e = TRUE OBVIOUS
  <2>2. mail'.forward = SendAll(mail.forward, S, Change(p, q, e))
    BY <1>3, <2>1
  <2>3. /\ o \in S /\ a = p /\ r = q => (Counts(a, o, r)' <=> e)
        /\ ~(o \in S /\ a = p /\ r = q) => (Counts(a, o, r)' <=> Counts(a, o, r))
    BY <1>4, <2>2, CountsSent
  <2> QED
    BY <2>1, <2>3
<1> QED
  BY <1>1, <1>2, <1>3, <1>5

\* ... and where p leaves a partition
LEMMA LeavingCounts ==
  ASSUME IInv, OrderInv, SubTypes, NEW p \in PEs, NEW q \in Parts, handle_new_unsubscription(p, q)
  PROVE  /\ \A r \in PEs \ {p} : ctx'[r] = ctx[r]
         /\ ctx'[p].app = ctx[p].app /\ ctx[p].pc = "unsubscribe" /\ ctx'[p].pc = "unsubscribe"
         /\ ctx'[p].producer_info = [ctx[p].producer_info EXCEPT ![q] = Row]
         /\ \A a, o \in PEs, r \in Parts :
              Counts(a, o, r)' <=>
                Counts(a, o, r) /\ ~(o \in ctx[p].producer_info[q].pes /\ a = p /\ r = q)
<1>1. /\ Only(p, {"todo", "mirror", "producer_info", "dead_info"})
      /\ ctx[p].pc = "unsubscribe"
      /\ ctx'[p].producer_info = [ctx[p].producer_info EXCEPT ![q] = Row]
      /\ mail'.forward = SendAll(mail.forward, ctx[p].producer_info[q].pes, Change(p, q, FALSE))
  BY UnsubscriptionIs
<1>2. /\ \A r \in PEs \ {p} : ctx'[r] = ctx[r]
      /\ ctx'[p].app = ctx[p].app /\ ctx'[p].pc = ctx[p].pc
      /\ ctx'[p].remote_subs = ctx[p].remote_subs
  BY <1>1 DEF Only, Same, Fields
<1>3. \A r \in PEs : ctx'[r].remote_subs = ctx[r].remote_subs
  BY <1>2
<1>4. PICK S : S = ctx[p].producer_info[q].pes OBVIOUS
<1>5. ASSUME NEW a \in PEs, NEW o \in PEs, NEW r \in Parts
      PROVE  Counts(a, o, r)' <=> Counts(a, o, r) /\ ~(o \in S /\ a = p /\ r = q)
  <2>1. PICK e \in BOOLEAN : e = FALSE OBVIOUS
  <2>2. mail'.forward = SendAll(mail.forward, S, Change(p, q, e))
    BY <1>1, <1>4, <2>1
  <2>3. /\ o \in S /\ a = p /\ r = q => (Counts(a, o, r)' <=> e)
        /\ ~(o \in S /\ a = p /\ r = q) => (Counts(a, o, r)' <=> Counts(a, o, r))
    BY <1>3, <2>2, CountsSent
  <2> QED
    BY <2>1, <2>3
<1> QED
  BY <1>1, <1>2, <1>4, <1>5

\* A producer that p knows counts p, after any step.
LEMMA CountNext ==
  ASSUME IInv, OrderInv, SubTypes, DeadInv, CountInv, NEW p \in PEs, Step(p)
  PROVE  CountInv'
<1> SUFFICES ASSUME NEW a \in PEs, NEW o \in PEs, NEW q \in Parts,
                    InLoop(ctx'[a]), o \in ctx'[a].producer_info[q].pes
             PROVE  Counts(a, o, q)'
  BY DEF CountInv
<1>1. CASE Aside(p)
  <2>1. InLoop(ctx[a]) /\ ctx'[a].producer_info = ctx[a].producer_info
    BY <1>1 DEF Aside, Ages
  <2> QED
    BY <1>1, <2>1 DEF Aside, CountInv
<1>2. ASSUME NEW s \in Parts, Learns(p, s)
      PROVE  Counts(a, o, q)'
  <2>1. PICK S \in SUBSET dir.producers[s].pes :
          /\ NewProducers(ctx[p], s) \subseteq S
          /\ \A b, c \in PEs, r \in Parts :
               Counts(b, c, r)' <=> (c \in S /\ b = p /\ r = s) \/ Counts(b, c, r)
    BY <1>2, LearningCounts
  <2>2. /\ \A r \in PEs \ {p} : ctx'[r] = ctx[r]
        /\ ctx[p].pc = "subscribe"
        /\ ctx'[p].producer_info = [ctx[p].producer_info EXCEPT ![s] = dir.producers[s]]
    BY <1>2, LearningCounts
  <2>3. InLoop(ctx[a])
    BY <2>2 DEF InLoop
  <2>4. CASE a = p /\ q = s
    <3>1. ctx[p].producer_info \in [Parts -> RowType]
      BY DEF SubTypes, SubContext
    <3>2. o \in dir.producers[s].pes
      BY <2>2, <2>4, <3>1
    <3>3. o \in S \/ o \in ctx[p].producer_info[q].pes
      BY <2>1, <2>4, <3>2 DEF NewProducers
    <3> QED
      BY <2>1, <2>3, <2>4, <3>3 DEF CountInv
  <2>5. CASE ~(a = p /\ q = s)
    <3>1. ctx'[a].producer_info[q] = ctx[a].producer_info[q]
      BY <2>2, <2>5 DEF SubTypes, SubContext
    <3> QED
      BY <2>1, <2>3, <3>1 DEF CountInv
  <2> QED
    BY <2>4, <2>5
<1>3. ASSUME NEW s \in Parts, handle_new_unsubscription(p, s)
      PROVE  Counts(a, o, q)'
  <2>1. /\ \A r \in PEs \ {p} : ctx'[r] = ctx[r]
        /\ ctx[p].pc = "unsubscribe"
        /\ ctx'[p].producer_info = [ctx[p].producer_info EXCEPT ![s] = Row]
        /\ \A b, c \in PEs, r \in Parts :
             Counts(b, c, r)' <=>
               Counts(b, c, r) /\ ~(c \in ctx[p].producer_info[s].pes /\ b = p /\ r = s)
    BY <1>3, LeavingCounts
  <2>2. InLoop(ctx[a])
    BY <2>1 DEF InLoop
  <2>3. ~(a = p /\ q = s) /\ ctx'[a].producer_info[q] = ctx[a].producer_info[q]
    <3>1. ctx[p].producer_info \in [Parts -> RowType]
      BY DEF SubTypes, SubContext
    <3>2. CASE a = p /\ q = s
      BY <2>1, <3>1, <3>2 DEF Row
    <3> QED
      BY <2>1, <3>1, <3>2
  <2> QED
    BY <2>1, <2>2, <2>3 DEF CountInv
<1> QED
  BY <1>1, <1>2, <1>3, StepKinds

\* A step leaves p's vertex, and what p produces, as they are.
StaysAsItIs(p) ==
  \A f \in {"part", "prev_part", "ver", "needs_send", "produced"} : ctx'[p][f] = ctx[p][f]

\* A step that leaves these fields alone leaves p's vertex as it is.
LEMMA OnlyStays ==
  ASSUME NEW p, NEW F, Only(p, F),
         F \intersect {"part", "prev_part", "ver", "needs_send", "produced"} = {}
  PROVE  StaysAsItIs(p)
BY DEF Only, Same, Fields, StaysAsItIs

\* All steps but the change, the window and the announcement leave it so.
LEMMA VertexSteps ==
  ASSUME IInv, OrderInv, SubTypes, NEW p \in PEs, Step(p)
  PROVE  \/ StaysAsItIs(p)
         \/ \E q \in ctx[p].app.goes[ctx[p].part] : ChangeVertex(p, q)
         \/ Publish(p) \/ Send(p)
<1>1. ASSUME NEW q \in Parts,
             \/ handle_new_subscription(p, q) \/ ExistingSkipped(p, q)
             \/ ExistingUnchanged(p, q) \/ ExistingChanged(p, q)
             \/ handle_new_unsubscription(p, q)
      PROVE  StaysAsItIs(p)
  <2>1. CASE handle_new_subscription(p, q) \/ ExistingChanged(p, q)
    <3>1. Only(p, {"todo", "producer_info", "dead_info", "skip", "interval", "mirror"})
      BY <2>1, LearnIs DEF Learns
    <3> QED
      BY <3>1, OnlyStays
  <2>2. CASE ExistingSkipped(p, q) \/ ExistingUnchanged(p, q)
    <3>1. Only(p, {"todo", "skip", "interval"})
      BY <2>2, SkipIs
    <3> QED
      BY <3>1, OnlyStays
  <2>3. CASE handle_new_unsubscription(p, q)
    <3>1. Only(p, {"todo", "mirror", "producer_info", "dead_info"})
      BY <2>3, UnsubscriptionIs
    <3> QED
      BY <3>1, OnlyStays
  <2> QED
    BY <1>1, <2>1, <2>2, <2>3
<1>2. CASE \/ NoChange(p) \/ NoSubscription(p) \/ NoUpdate(p) \/ EndIteration(p)
           \/ BroadcastDead(p) \/ PersistPartitions(p) \/ MarkTerminated(p)
  <2>1. Only(p, {"pc"})
    BY <1>2, PhaseIs
  <2> QED
    BY <2>1, OnlyStays
<1>3. CASE SubscribeDone(p) \/ WindowDone(p)
  <2>1. Only(p, {"pc", "todo"}) \/ Only(p, {"pc", "subscribed", "new_subscribed"})
    BY <1>3, SubscribeDoneIs, WindowDoneIs
  <2> QED
    BY <2>1, OnlyStays
<1>4. CASE TakeUpdate(p) \/ TakeDead(p)
  <2>1. Only(p, {"mirror"}) \/ Only(p, {"all_dead", "remote_subs"})
    BY <1>4, TakeUpdateIs, TakeDeadIs
  <2> QED
    BY <2>1, OnlyStays
<1>5. CASE TakeSubscription(p)
  <2>1. Only(p, {"out", "remote_subs"})
    BY <1>5, TakesOne
  <2> QED
    BY <2>1, OnlyStays
<1> QED
  BY <1>1, <1>2, <1>3, <1>4, <1>5 DEF Step

\* A step of p leaves the others alone, and p's application what it is.
LEMMA OthersStay ==
  ASSUME IInv, OrderInv, SubTypes, DeadInv, NEW p \in PEs, Step(p)
  PROVE  (\A r \in PEs \ {p} : ctx'[r] = ctx[r]) /\ ctx'[p].app = ctx[p].app /\ Ages(p)
<1>1. ASSUME NEW q \in Parts, Learns(p, q) \/ handle_new_unsubscription(p, q)
      PROVE  (\A r \in PEs \ {p} : ctx'[r] = ctx[r]) /\ ctx'[p].app = ctx[p].app /\ Ages(p)
  BY <1>1, LearningCounts, LeavingCounts DEF Ages, InLoop
<1> QED
  BY <1>1, StepKinds DEF Aside

\* A vertex that stays where it is, does; its PE produces its partition from the
\* first window on.
LEMMA StillStays ==
  ASSUME IInv, OrderInv, SubTypes, DeadInv, StillInv, NEW p \in PEs, Step(p), NEW o \in PEs,
         StaysPut(ctx[o].app)
  PROVE  /\ ctx'[o].part = ctx[o].part
         /\ ctx'[o].prev_part \in {ctx[o].part, HVR_INVALID_PARTITION}
         /\ ctx[o].part \in ctx[o].produced => ctx[o].part \in ctx'[o].produced
<1>0. ctx[o].prev_part \in {ctx[o].part, HVR_INVALID_PARTITION}
  BY DEF StillInv
<1>1. CASE o # p
  BY <1>0, <1>1, OthersStay
<1>2. CASE o = p
  <2>1. CASE StaysAsItIs(p)
    BY <1>0, <1>2, <2>1 DEF StaysAsItIs
  <2>2. CASE \E q \in ctx[p].app.goes[ctx[p].part] : ChangeVertex(p, q)
    <3>1. PICK q \in ctx[p].app.goes[ctx[p].part] : ChangeVertex(p, q)
      BY <2>2
    <3>2. ctx'[p].part = q /\ ctx'[p].prev_part = ctx[p].part
      BY <3>1, ChangeIs
    <3>3. ctx'[p].produced = ctx[p].produced
      <4>1. Only(p, {"pc", "part", "prev_part", "ver", "needs_send"})
        BY <3>1, ChangeIs
      <4> QED
        BY <4>1 DEF Only, Same, Fields
    <3>4. ctx[p].part \in Parts
      BY DEF OrderInv, OrderTypes
    <3> QED
      BY <1>2, <3>1, <3>2, <3>3, <3>4 DEF StaysPut
  <2>3. CASE Publish(p)
    <3>1. /\ Only(p, {"pc", "produced", "new_subscribed", "todo"})
          /\ ctx'[p].produced = {ctx[p].part}
      BY <2>3, PublishIs
    <3> QED
      BY <1>0, <1>2, <3>1 DEF Only, Same, Fields
  <2>4. CASE Send(p)
    <3>1. Only(p, {"pc", "first", "needs_send", "out"})
      BY <2>4, SendIs
    <3> QED
      BY <1>0, <1>2, <3>1 DEF Only, Same, Fields
  <2> QED
    BY <2>1, <2>2, <2>3, <2>4, VertexSteps
<1> QED
  BY <1>1, <1>2

\* Who counts p, of those that stay where they are, is known to p after any step.
LEMMA StillNext ==
  ASSUME IInv, OrderInv, SubTypes, DirInv, DeadInv, StillInv, NEW p \in PEs, Step(p)
  PROVE  StillInv'
<1>1. ASSUME NEW r \in PEs PROVE ctx'[r].app = ctx[r].app
  BY OthersStay
<1>2. ASSUME NEW o \in PEs, StaysPut(ctx[o].app), NEW a \in PEs, NEW q \in Parts, q = ctx[o].part
      PROVE  /\ InLoop(ctx'[a]) /\ Counts(a, o, q)' => o \in ctx'[a].producer_info[q].pes
             /\ o \in ctx'[a].producer_info[q].pes => q \in ctx'[o].produced
  <2>1. /\ InLoop(ctx[a]) /\ Counts(a, o, q) => o \in ctx[a].producer_info[q].pes
        /\ o \in ctx[a].producer_info[q].pes => q \in ctx[o].produced
    BY <1>2 DEF StillInv
  <2>2. q \in ctx[o].produced => q \in ctx'[o].produced
    BY <1>2, StillStays
  <2>3. InLoop(ctx'[a]) => InLoop(ctx[a])
    BY OthersStay DEF Ages
  <2>4. /\ InLoop(ctx'[a]) /\ Counts(a, o, q)' => o \in ctx'[a].producer_info[q].pes
        /\ o \in ctx'[a].producer_info[q].pes => q \in ctx[o].produced
    <3>1. CASE Aside(p)
      <4>1. ctx'[a].producer_info = ctx[a].producer_info
        BY <3>1 DEF Aside
      <4> QED
        BY <2>1, <2>3, <3>1, <4>1 DEF Aside
    <3>2. ASSUME NEW s \in Parts, Learns(p, s)
          PROVE  <2>4!:
      <4>1. PICK S \in SUBSET dir.producers[s].pes :
              /\ NewProducers(ctx[p], s) \subseteq S
              /\ \A b, c \in PEs, r \in Parts :
                   Counts(b, c, r)' <=> (c \in S /\ b = p /\ r = s) \/ Counts(b, c, r)
        BY <3>2, LearningCounts
      <4>2. /\ \A r \in PEs \ {p} : ctx'[r] = ctx[r]
            /\ ctx'[p].producer_info = [ctx[p].producer_info EXCEPT ![s] = dir.producers[s]]
            /\ ctx[p].producer_info \in [Parts -> RowType]
        BY <3>2, LearningCounts DEF SubTypes, SubContext
      <4>3. CASE a = p /\ s = q
        <5>1. ctx'[a].producer_info[q] = dir.producers[q]
          BY <4>2, <4>3
        <5>2. o \in dir.producers[q].pes <=> q \in ctx[o].produced
          BY DEF DirInv
        <5> QED
          BY <2>1, <2>3, <4>1, <4>3, <5>1, <5>2
      <4>4. CASE ~(a = p /\ s = q)
        <5>1. ctx'[a].producer_info[q] = ctx[a].producer_info[q]
          BY <4>2, <4>4
        <5> QED
          BY <2>1, <2>3, <4>1, <4>4, <5>1
      <4> QED
        BY <4>3, <4>4
    <3>3. ASSUME NEW s \in Parts, handle_new_unsubscription(p, s)
          PROVE  <2>4!:
      <4>1. /\ \A r \in PEs \ {p} : ctx'[r] = ctx[r]
            /\ ctx'[p].producer_info = [ctx[p].producer_info EXCEPT ![s] = Row]
            /\ ctx[p].producer_info \in [Parts -> RowType]
            /\ \A b, c \in PEs, r \in Parts :
                 Counts(b, c, r)' <=>
                   Counts(b, c, r) /\ ~(c \in ctx[p].producer_info[s].pes /\ b = p /\ r = s)
        BY <3>3, LeavingCounts DEF SubTypes, SubContext
      <4>2. CASE a = p /\ s = q
        <5>1. ctx'[a].producer_info[q] = Row
          BY <4>1, <4>2
        <5>2. o \notin Row.pes
          BY DEF Row
        <5> QED
          BY <2>1, <2>3, <4>1, <4>2, <5>1, <5>2
      <4>3. CASE ~(a = p /\ s = q)
        <5>1. ctx'[a].producer_info[q] = ctx[a].producer_info[q]
          BY <4>1, <4>3
        <5> QED
          BY <2>1, <2>3, <4>1, <4>3, <5>1
      <4> QED
        BY <4>2, <4>3
    <3> QED
      BY <3>1, <3>2, <3>3, StepKinds
  <2> QED
    BY <2>2, <2>4
<1>3. ASSUME NEW o \in PEs, StaysPut(ctx[o].app)
      PROVE  /\ ctx'[o].part = ctx[o].part /\ ctx[o].part = ctx[o].app.starts
             /\ ctx'[o].prev_part \in {ctx[o].part, HVR_INVALID_PARTITION}
  BY <1>3, StillStays DEF StillInv
<1>4. ASSUME NEW o \in PEs, StaysPut(ctx'[o].app)
      PROVE  /\ ctx'[o].part = ctx'[o].app.starts
             /\ ctx'[o].prev_part \in {ctx'[o].part, HVR_INVALID_PARTITION}
             /\ \A a \in PEs :
                  /\ InLoop(ctx'[a]) /\ Counts(a, o, ctx[o].part)' =>
                       o \in ctx'[a].producer_info[ctx'[o].part].pes
                  /\ o \in ctx'[a].producer_info[ctx'[o].part].pes =>
                       ctx'[o].part \in ctx'[o].produced
  <2>1. PICK q \in Parts : q = ctx[o].part
    BY DEF OrderInv, OrderTypes
  <2>2. ctx'[o].app = ctx[o].app /\ ctx'[o].part = q
    BY <1>1, <1>3, <1>4, <2>1
  <2> QED
    BY <1>2, <1>3, <1>4, <2>1, <2>2
<1> QED
  BY <1>4 DEF StillInv
-----------------------------------------------------------------------------
(* Types, the dead and the directory *)

\* Where the vertex, the phase and the window stay, and the lists keep their type.
LEMMA SameSubContext ==
  ASSUME NEW c, NEW d, SubContext(c), NEW F, Same(c, d, F),
         F \subseteq {"first", "out", "mirror", "all_dead", "remote_subs", "skip", "interval", "dead_info"},
         d.remote_subs \in [Parts -> SUBSET PEs]
  PROVE  SubContext(d)
BY DEF SubContext, Same, Fields, InWindow

\* Each step keeps the rest of p's types, and the phases' relations.
LEMMA SubContextNext ==
  ASSUME IInv, OrderInv, SubTypes, NEW p \in PEs, Step(p)
  PROVE  SubContext(ctx'[p])
<1>0. /\ SubContext(ctx[p]) /\ ctx[p].part \in Parts /\ ctx[p].app \in Application
      /\ \A o \in PEs : ctx[p].mirror[o] # None => ctx[p].mirror[o].part \in Parts
  BY DEF SubTypes, OrderInv, OrderTypes, Cached
<1>1. ASSUME NEW q \in Parts, handle_new_subscription(p, q) \/ ExistingChanged(p, q)
      PROVE  SubContext(ctx'[p])
  <2>1. Learns(p, q)
    BY <1>1, LearnIs
  <2>2. /\ Only(p, {"todo", "producer_info", "dead_info", "skip", "interval", "mirror"})
        /\ ctx[p].pc = "subscribe" /\ ctx'[p].todo = ctx[p].todo \ {q}
        /\ ctx'[p].producer_info = [ctx[p].producer_info EXCEPT ![q] = dir.producers[q]]
        /\ dir.producers[q] \in RowType
    BY <2>1 DEF Learns, SubTypes
  <2>3. ctx'[p].producer_info \in [Parts -> RowType]
    BY <1>0, <2>2 DEF SubContext
  <2> QED
    BY <1>0, <2>2, <2>3 DEF SubContext, Only, Same, Fields, InWindow
<1>2. ASSUME NEW q \in Parts, ExistingSkipped(p, q) \/ ExistingUnchanged(p, q)
      PROVE  SubContext(ctx'[p])
  <2>1. /\ Only(p, {"todo", "skip", "interval"}) /\ ctx[p].pc = "subscribe"
        /\ ctx'[p].todo = ctx[p].todo \ {q}
    BY <1>2, SkipIs
  <2> QED
    BY <1>0, <2>1 DEF SubContext, Only, Same, Fields, InWindow
<1>3. ASSUME NEW q \in Parts, handle_new_unsubscription(p, q)
      PROVE  SubContext(ctx'[p])
  <2>1. /\ Only(p, {"todo", "mirror", "producer_info", "dead_info"})
        /\ ctx[p].pc = "unsubscribe" /\ ctx'[p].todo = ctx[p].todo \ {q}
        /\ ctx'[p].producer_info = [ctx[p].producer_info EXCEPT ![q] = Row]
    BY <1>3, UnsubscriptionIs
  <2>2. ctx'[p].producer_info \in [Parts -> RowType]
    <3>1. Row \in RowType
      BY DEF Row, RowType
    <3> QED
      BY <1>0, <2>1, <3>1 DEF SubContext
  <2> QED
    BY <1>0, <2>1, <2>2 DEF SubContext, Only, Same, Fields, InWindow
<1>4. CASE \/ NoChange(p) \/ NoSubscription(p) \/ NoUpdate(p) \/ EndIteration(p)
           \/ BroadcastDead(p) \/ PersistPartitions(p) \/ MarkTerminated(p)
  <2>1. /\ Only(p, {"pc"}) /\ ~Visiting(ctx'[p]) /\ ~InWindow(ctx[p]) /\ ctx[p].pc # "send"
    BY <1>4, PhaseIs DEF OutsideWindow
  <2> QED
    BY <1>0, <2>1 DEF SubContext, Only, Same, Fields, InWindow, Visiting
<1>5. CASE \E q \in ctx[p].app.goes[ctx[p].part] : ChangeVertex(p, q)
  <2>1. /\ Only(p, {"pc", "part", "prev_part", "ver", "needs_send"})
        /\ ctx'[p].pc = "publish" /\ ctx'[p].prev_part = ctx[p].part /\ ctx'[p].needs_send = TRUE
    BY <1>5, ChangeIs
  <2> QED
    BY <1>0, <2>1 DEF SubContext, Only, Same, Fields, InWindow
<1>6. CASE Publish(p)
  <2>1. /\ Only(p, {"pc", "produced", "new_subscribed", "todo"}) /\ ctx'[p].pc = "subscribe"
        /\ ctx'[p].produced = {ctx[p].part} /\ ctx'[p].todo = ctx'[p].new_subscribed
    BY <1>6, PublishIs
  <2>2. PICK near \in Near(ctx[p]) :
          ctx'[p].new_subscribed =
            UNION {ctx[p].app.might_interact[q] : q \in {ctx[p].part} \union near}
    BY <1>6, PublishIs
  <2>3. near \subseteq Parts
    BY <1>0 DEF Near
  <2>4. ctx[p].app.might_interact \in [Parts -> SUBSET Parts]
    BY <1>0 DEF Application
  <2>5. ctx'[p].new_subscribed \subseteq Parts
    BY <1>0, <2>2, <2>3, <2>4
  <2> QED
    BY <1>0, <2>1, <2>5 DEF SubContext, Only, Same, Fields, InWindow
<1>7. CASE SubscribeDone(p)
  <2>1. /\ Only(p, {"pc", "todo"}) /\ ctx[p].pc = "subscribe" /\ ctx'[p].pc = "unsubscribe"
        /\ ctx'[p].todo = ctx[p].subscribed \ ctx[p].new_subscribed
    BY <1>7, SubscribeDoneIs
  <2> QED
    BY <1>0, <2>1 DEF SubContext, Only, Same, Fields, InWindow
<1>8. CASE WindowDone(p)
  <2>1. /\ Only(p, {"pc", "subscribed", "new_subscribed"}) /\ ctx[p].pc = "unsubscribe"
        /\ ctx'[p].pc = "send"
        /\ ctx'[p].subscribed = ctx[p].new_subscribed /\ ctx'[p].new_subscribed = {}
    BY <1>8, WindowDoneIs
  <2> QED
    BY <1>0, <2>1 DEF SubContext, Only, Same, Fields, InWindow
<1>9. CASE Send(p)
  <2>1. /\ Only(p, {"pc", "first", "needs_send", "out"})
        /\ ctx[p].pc = "send" /\ ctx'[p].pc = "subs" /\ ctx'[p].needs_send = FALSE
    BY <1>9, SendIs
  <2> QED
    BY <1>0, <2>1 DEF SubContext, Only, Same, Fields, InWindow
<1>10. CASE TakeUpdate(p)
  <2>1. Only(p, {"mirror"})
    BY <1>10, TakeUpdateIs
  <2>2. ctx'[p].remote_subs = ctx[p].remote_subs
    BY <2>1 DEF Only, Same, Fields
  <2> QED
    BY <1>0, <2>1, <2>2, SameSubContext DEF Only, SubContext
<1>11. CASE TakeDead(p)
  <2>1. Only(p, {"all_dead", "remote_subs"})
    BY <1>11, TakeDeadIs
  <2>2. PICK d : ctx'[p].remote_subs = [q \in Parts |-> ctx[p].remote_subs[q] \ {d}]
    BY <1>11, TakeDeadIs
  <2>3. ctx'[p].remote_subs \in [Parts -> SUBSET PEs]
    BY <1>0, <2>2 DEF SubContext
  <2> QED
    BY <1>0, <2>1, <2>3, SameSubContext DEF Only
<1>12. CASE TakeSubscription(p)
  <2>1. Only(p, {"out", "remote_subs"}) /\ ctx'[p].remote_subs \in [Parts -> SUBSET PEs]
    BY <1>12, TakesOne
  <2> QED
    BY <1>0, <2>1, SameSubContext DEF Only
<1> QED
  BY <1>1, <1>2, <1>3, <1>4, <1>5, <1>6, <1>7, <1>8, <1>9, <1>10, <1>11, <1>12 DEF Step

\* The mailboxes of subscriptions and of deaths keep their types, and the
\* directory; who is known to be dead is.
LEMMA SubTypesNext ==
  ASSUME IInv, OrderInv, SubTypes, NEW p \in PEs, Step(p), \A r \in PEs \ {p} : ctx'[r] = ctx[r]
  PROVE  SubTypes'
<1>1. \A r \in PEs : SubContext(ctx'[r])
  BY SubContextNext DEF SubTypes
<1>2. /\ dir.producers \in [Parts -> RowType] /\ mail.forward \in [PEs -> Seq(Changes)]
      /\ mail.dead \in [PEs -> SUBSET PEs]
  BY DEF SubTypes
<1>3. /\ dir'.producers \in [Parts -> RowType] /\ mail'.forward \in [PEs -> Seq(Changes)]
      /\ mail'.dead \in [PEs -> SUBSET PEs]
  <2>1. ASSUME NEW q \in Parts,
               \/ handle_new_subscription(p, q) \/ ExistingChanged(p, q)
               \/ handle_new_unsubscription(p, q)
        PROVE  <1>3!:
    <3>1. PICK e \in BOOLEAN : \E S : mail'.forward = SendAll(mail.forward, S, Change(p, q, e))
      <4>1. CASE handle_new_subscription(p, q) \/ ExistingChanged(p, q)
        <5>1. Learns(p, q)
          BY <4>1, LearnIs
        <5>2. PICK S \in SUBSET dir.producers[q].pes :
                /\ NewProducers(ctx[p], q) \subseteq S
                /\ mail'.forward = SendAll(mail.forward, S, Change(p, q, TRUE))
          BY <5>1 DEF Learns
        <5> QED
          BY <5>2
      <4>2. CASE handle_new_unsubscription(p, q)
        <5>1. mail'.forward = SendAll(mail.forward, ctx[p].producer_info[q].pes, Change(p, q, FALSE))
          BY <4>2, UnsubscriptionIs
        <5> QED
          BY <5>1
      <4> QED
        BY <2>1, <4>1, <4>2
    <3>2. Change(p, q, e) \in Changes
      BY DEF Change, Changes
    <3>3. mail'.forward \in [PEs -> Seq(Changes)]
      BY <1>2, <3>1, <3>2 DEF SendAll
    <3>4. dir' = dir /\ mail'.dead = mail.dead
      BY <2>1, LearnIs, UnsubscriptionIs DEF Learns
    <3> QED
      BY <1>2, <3>3, <3>4
  <2>2. ASSUME NEW q, \/ ExistingSkipped(p, q) \/ ExistingUnchanged(p, q) \/ ChangeVertex(p, q)
        PROVE  <1>3!:
    BY <1>2, <2>2, SkipIs, ChangeIs
  <2>3. CASE Publish(p)
    <3>1. /\ mail' = mail
          /\ dir'.producers = [q \in Parts |->
               PublishRow(dir.producers[q], p, q \in ctx[p].produced, q = ctx[p].part)]
      BY <2>3, PublishIs
    <3>2. ASSUME NEW row \in RowType, NEW was, NEW is
          PROVE  PublishRow(row, p, was, is) \in RowType
      BY DEF PublishRow, RowType
    <3> QED
      BY <1>2, <3>1, <3>2
  <2>4. CASE SubscribeDone(p) \/ WindowDone(p)
    BY <1>2, <2>4, SubscribeDoneIs, WindowDoneIs
  <2>5. CASE Send(p)
    BY <1>2, <2>5, SendIs
  <2>6. CASE TakeUpdate(p)
    <3>1. mail'.forward = mail.forward /\ mail'.dead = mail.dead /\ dir' = dir
      BY <2>6, TakeUpdateIs
    <3> QED
      BY <1>2, <3>1
  <2>7. CASE TakeDead(p)
    <3>1. mail'.forward = mail.forward /\ dir' = dir
      BY <2>7, TakeDeadIs
    <3>2. PICK d : mail'.dead = [mail.dead EXCEPT ![p] = @ \ {d}]
      BY <2>7, TakeDeadIs
    <3> QED
      BY <1>2, <3>1, <3>2
  <2>8. CASE TakeSubscription(p)
    <3>1. mail' = [mail EXCEPT !.forward[p] = Tail(@)] /\ mail.forward[p] # <<>> /\ dir' = dir
      BY <2>8 DEF TakeSubscription
    <3>2. Tail(mail.forward[p]) \in Seq(Changes)
      BY <1>2, <3>1
    <3>3. DOMAIN mail = {"forward", "update", "dead"}
      BY Shapes
    <3>4. mail'.forward = [mail.forward EXCEPT ![p] = Tail(@)] /\ mail'.dead = mail.dead
      BY <3>1, <3>3
    <3> QED
      BY <1>2, <3>1, <3>2, <3>4
  <2>9. CASE \/ NoChange(p) \/ NoSubscription(p) \/ NoUpdate(p) \/ EndIteration(p)
             \/ BroadcastDead(p) \/ PersistPartitions(p) \/ MarkTerminated(p)
    <3>1. /\ mail'.forward = mail.forward /\ dir'.producers = dir.producers
          /\ mail'.dead = mail.dead \/ mail'.dead = [o \in PEs |-> mail.dead[o] \union {p}]
      BY <2>9, PhaseIs DEF OutsideWindow
    <3> QED
      BY <1>2, <3>1
  <2> QED
    BY <2>1, <2>2, <2>3, <2>4, <2>5, <2>6, <2>7, <2>8, <2>9 DEF Step
<1> QED
  BY <1>1, <1>3 DEF SubTypes

\* Who is known to be dead is, after any step.
LEMMA DeadNext ==
  ASSUME IInv, OrderInv, SubTypes, DeadInv, NEW p \in PEs, Step(p)
  PROVE  DeadInv'
<1>1. /\ \A r \in PEs \ {p} : ctx'[r] = ctx[r]
      /\ InLoop(ctx'[p]) => InLoop(ctx[p])
  BY OthersStay DEF Ages
<1>2. /\ ctx'[p].all_dead \subseteq ctx[p].all_dead \union mail.dead[p]
      /\ \A o \in PEs : mail'.dead[o] \subseteq mail.dead[o] \union (IF InLoop(ctx'[p]) THEN {} ELSE {p})
  <2>0. mail.dead \in [PEs -> SUBSET PEs]
    BY DEF SubTypes
  <2>1. ASSUME NEW F, Only(p, F), "all_dead" \notin F, mail'.dead = mail.dead
        PROVE  <1>2!:
    <3>1. ctx'[p].all_dead = ctx[p].all_dead
      BY <2>1 DEF Only, Same, Fields
    <3> QED
      BY <2>1, <3>1
  <2>2. ASSUME NEW q \in Parts,
               \/ handle_new_subscription(p, q) \/ ExistingChanged(p, q)
               \/ handle_new_unsubscription(p, q) \/ ExistingSkipped(p, q) \/ ExistingUnchanged(p, q)
        PROVE  <1>2!:
    <3>1. \/ Only(p, {"todo", "producer_info", "dead_info", "skip", "interval", "mirror"})
          \/ Only(p, {"todo", "mirror", "producer_info", "dead_info"})
          \/ Only(p, {"todo", "skip", "interval"})
      BY <2>2, LearnIs, UnsubscriptionIs, SkipIs DEF Learns
    <3>2. mail'.dead = mail.dead
      BY <2>2, LearnIs, UnsubscriptionIs, SkipIs DEF Learns
    <3> QED
      BY <2>1, <3>1, <3>2
  <2>3. CASE \/ \E q \in ctx[p].app.goes[ctx[p].part] : ChangeVertex(p, q)
             \/ Publish(p) \/ SubscribeDone(p) \/ WindowDone(p)
    <3>1. \/ Only(p, {"pc", "part", "prev_part", "ver", "needs_send"})
          \/ Only(p, {"pc", "produced", "new_subscribed", "todo"})
          \/ Only(p, {"pc", "todo"}) \/ Only(p, {"pc", "subscribed", "new_subscribed"})
      BY <2>3, ChangeIs, PublishIs, SubscribeDoneIs, WindowDoneIs
    <3>2. mail' = mail
      BY <2>3, ChangeIs, PublishIs, SubscribeDoneIs, WindowDoneIs
    <3> QED
      BY <2>1, <3>1, <3>2
  <2>4. CASE Send(p) \/ TakeUpdate(p)
    <3>1. Only(p, {"pc", "first", "needs_send", "out"}) \/ Only(p, {"mirror"})
      BY <2>4, SendIs, TakeUpdateIs
    <3>2. mail'.dead = mail.dead
      BY <2>4, SendIs, TakeUpdateIs
    <3> QED
      BY <2>1, <3>1, <3>2
  <2>5. CASE TakeSubscription(p)
    <3>1. Only(p, {"out", "remote_subs"}) /\ mail'.dead = mail.dead
      BY <2>5, TakesOne
    <3> QED
      BY <2>1, <3>1
  <2>6. CASE TakeDead(p)
    <3>1. PICK d \in mail.dead[p] : ctx'[p].all_dead = ctx[p].all_dead \union {d}
      BY <2>6, TakeDeadIs
    <3>2. PICK e \in mail.dead[p] : mail'.dead = [mail.dead EXCEPT ![p] = @ \ {e}]
      BY <2>6, TakeDeadIs
    <3>3. \A o \in PEs : mail'.dead[o] \subseteq mail.dead[o]
      BY <2>0, <3>2
    <3> QED
      BY <3>1, <3>3
  <2>7. CASE \/ NoChange(p) \/ NoSubscription(p) \/ NoUpdate(p) \/ EndIteration(p)
             \/ BroadcastDead(p) \/ PersistPartitions(p) \/ MarkTerminated(p)
    <3>1. /\ Only(p, {"pc"})
          /\ \/ mail'.dead = mail.dead
             \/ mail'.dead = [o \in PEs |-> mail.dead[o] \union {p}] /\ ~InLoop(ctx'[p])
      BY <2>7, PhaseIs
    <3>2. ctx'[p].all_dead = ctx[p].all_dead
      BY <3>1 DEF Only, Same, Fields
    <3> QED
      BY <3>1, <3>2
  <2> QED
    BY <2>2, <2>3, <2>4, <2>5, <2>6, <2>7 DEF Step
<1>3. ASSUME NEW d \in PEs, ~InLoop(ctx[d]) PROVE ~InLoop(ctx'[d])
  BY <1>1, <1>3
<1>4. ASSUME NEW o \in PEs, NEW d \in PEs, d \in ctx'[o].all_dead \union mail'.dead[o]
      PROVE  ~InLoop(ctx'[d])
  <2>1. d \in ctx[o].all_dead \union mail.dead[o] \/ (d = p /\ ~InLoop(ctx'[p]))
    BY <1>1, <1>2, <1>4
  <2> QED
    BY <1>3, <2>1 DEF DeadInv
<1> QED
  BY <1>4 DEF DeadInv

\* What each step is to the window
LEMMA WindowSteps ==
  ASSUME IInv, OrderInv, SubTypes, NEW p \in PEs, Step(p)
  PROVE  \/ OutsideWindow(p) \/ Publish(p) \/ SubscribeDone(p) \/ WindowDone(p)
         \/ \E q \in Parts : \/ Learns(p, q) \/ handle_new_unsubscription(p, q)
                             \/ ExistingSkipped(p, q) \/ ExistingUnchanged(p, q)
<1>1. CASE \E q \in Parts : handle_new_subscription(p, q) \/ ExistingChanged(p, q)
  BY <1>1, LearnIs
<1>2. CASE \E q \in ctx[p].app.goes[ctx[p].part] : ChangeVertex(p, q)
  BY <1>2, ChangeIs
<1>3. CASE \/ NoChange(p) \/ NoSubscription(p) \/ NoUpdate(p) \/ EndIteration(p)
           \/ BroadcastDead(p) \/ PersistPartitions(p) \/ MarkTerminated(p)
  BY <1>3, PhaseIs
<1>4. CASE Send(p) \/ TakeUpdate(p) \/ TakeDead(p) \/ TakeSubscription(p)
  BY <1>4, SendIs, TakeUpdateIs, TakeDeadIs, TakesOne
<1> QED
  BY <1>1, <1>2, <1>3, <1>4 DEF Step

\* p's context knows of the rows what it should.
RowsKnown(c, rows) ==
  \A q \in Parts : /\ KnownRow(c.producer_info[q], rows[q])
                   /\ q \notin Believed(c) => c.producer_info[q] = Row

\* Rows that are not published again are known as they were.
LEMMA RowsStep ==
  ASSUME DirInv, NEW p \in PEs, \A r \in PEs \ {p} : ctx'[r] = ctx[r],
         dir'.producers = dir.producers, ctx'[p].produced = ctx[p].produced,
         RowsKnown(ctx'[p], dir.producers)
  PROVE  DirInv'
<1>1. \A r \in PEs : RowsKnown(ctx'[r], dir.producers)
  BY DEF DirInv, RowsKnown
<1>2. \A r \in PEs : ctx'[r].produced = ctx[r].produced
  OBVIOUS
<1> QED
  BY <1>1, <1>2 DEF DirInv, RowsKnown

\* The directory lists the producers, and who has a row's number has the row,
\* after any step.
LEMMA DirNext ==
  ASSUME IInv, OrderInv, SubTypes, DeadInv, DirInv, NEW p \in PEs, Step(p)
  PROVE  DirInv'
<1> DEFINE c == ctx[p]
           d == ctx'[p]
<1>0. /\ \A r \in PEs \ {p} : ctx'[r] = ctx[r]
      /\ SubContext(c) /\ dir.producers \in [Parts -> RowType] /\ RowsKnown(c, dir.producers)
  BY OthersStay DEF SubTypes, DirInv, RowsKnown
<1> HIDE DEF c, d
<1>1. CASE OutsideWindow(p)
  <2>1. /\ Believed(d) = Believed(c) /\ d.producer_info = c.producer_info
        /\ d.produced = c.produced /\ dir'.producers = dir.producers
    BY <1>1 DEF OutsideWindow, Believed, InWindow, Visiting, c, d
  <2>2. RowsKnown(d, dir.producers)
    BY <1>0, <2>1 DEF RowsKnown
  <2> QED
    BY <1>0, <2>1, <2>2, RowsStep DEF c, d
<1>2. CASE Publish(p)
  <2>1. /\ Only(p, {"pc", "produced", "new_subscribed", "todo"})
        /\ c.pc = "publish" /\ d.pc = "subscribe"
        /\ d.produced = {c.part} /\ d.todo = d.new_subscribed
        /\ dir'.producers = [q \in Parts |->
             PublishRow(dir.producers[q], p, q \in c.produced, q = c.part)]
    BY <1>2, PublishIs DEF c, d
  <2>2. d.producer_info = c.producer_info /\ d.subscribed = c.subscribed
    BY <2>1 DEF Only, Same, Fields, c, d
  <2>3. Believed(d) = Believed(c)
    BY <2>1, <2>2 DEF Believed
  <2>4. ASSUME NEW q \in Parts
        PROVE  /\ dir'.producers[q].pes = {r \in PEs : q \in ctx'[r].produced}
               /\ dir'.producers[q].seq_no = 0 => dir'.producers[q].pes = {}
               /\ \A r \in PEs : KnownRow(ctx[r].producer_info[q], dir'.producers[q])
    <3>1. /\ dir.producers[q].pes = {r \in PEs : q \in ctx[r].produced}
          /\ dir.producers[q].seq_no = 0 => dir.producers[q].pes = {}
          /\ \A r \in PEs : KnownRow(ctx[r].producer_info[q], dir.producers[q])
          /\ dir.producers[q].seq_no \in Nat
          /\ \A r \in PEs : ctx[r].producer_info[q].seq_no \in Nat
      BY <1>0 DEF DirInv, RowType, SubTypes, SubContext
    <3>2. CASE (q \in c.produced) <=> (q = c.part)
      <4>1. dir'.producers[q] = dir.producers[q]
        BY <2>1, <3>2 DEF PublishRow
      <4>2. \A r \in PEs : q \in ctx'[r].produced <=> q \in ctx[r].produced
        BY <1>0, <2>1, <3>2 DEF c, d
      <4> QED
        BY <3>1, <4>1, <4>2
    <3>3. CASE q \in c.produced /\ q # c.part
      <4>1. /\ dir'.producers[q].pes = dir.producers[q].pes \ {p}
            /\ dir'.producers[q].seq_no = dir.producers[q].seq_no + 1
        BY <2>1, <3>3 DEF PublishRow
      <4>2. \A r \in PEs : q \in ctx'[r].produced <=> q \in ctx[r].produced /\ r # p
        BY <1>0, <2>1, <3>3 DEF c, d
      <4> QED
        BY <3>1, <4>1, <4>2 DEF KnownRow
    <3>4. CASE q \notin c.produced /\ q = c.part
      <4>1. /\ dir'.producers[q].pes = dir.producers[q].pes \union {p}
            /\ dir'.producers[q].seq_no = dir.producers[q].seq_no + 1
        BY <2>1, <3>4 DEF PublishRow
      <4>2. \A r \in PEs : q \in ctx'[r].produced <=> q \in ctx[r].produced \/ r = p
        BY <1>0, <2>1, <3>4 DEF c, d
      <4> QED
        BY <3>1, <4>1, <4>2 DEF KnownRow
    <3> QED
      BY <3>2, <3>3, <3>4
  <2>5. ASSUME NEW r \in PEs, NEW q \in Parts
        PROVE  /\ ctx'[r].producer_info = ctx[r].producer_info
               /\ q \notin Believed(ctx'[r]) => ctx'[r].producer_info[q] = Row
    <3>1. q \notin Believed(ctx[r]) => ctx[r].producer_info[q] = Row
      BY DEF DirInv
    <3> QED
      BY <1>0, <2>2, <2>3, <3>1 DEF c, d
  <2> QED
    BY <2>4, <2>5 DEF DirInv
<1>3. ASSUME NEW q \in Parts, Learns(p, q)
      PROVE  DirInv'
  <2>1. /\ Only(p, {"todo", "producer_info", "dead_info", "skip", "interval", "mirror"})
        /\ c.pc = "subscribe" /\ q \in c.todo /\ d.todo = c.todo \ {q}
        /\ d.producer_info = [c.producer_info EXCEPT ![q] = dir.producers[q]] /\ dir' = dir
    BY <1>3 DEF Learns, c, d
  <2>2. /\ d.pc = c.pc /\ d.subscribed = c.subscribed /\ d.new_subscribed = c.new_subscribed
        /\ d.produced = c.produced
    BY <2>1 DEF Only, Same, Fields, c, d
  <2>3. Believed(d) = Believed(c) \union {q}
    BY <1>0, <2>1, <2>2 DEF Believed, SubContext
  <2>4. RowsKnown(d, dir.producers)
    BY <1>0, <2>1, <2>3 DEF RowsKnown, KnownRow, SubContext, RowType
  <2> QED
    BY <1>0, <2>1, <2>2, <2>4, RowsStep DEF c, d
<1>4. ASSUME NEW q \in Parts, ExistingSkipped(p, q) \/ ExistingUnchanged(p, q)
      PROVE  DirInv'
  <2>1. /\ Only(p, {"todo", "skip", "interval"}) /\ c.pc = "subscribe"
        /\ q \in c.subscribed /\ d.todo = c.todo \ {q} /\ dir' = dir
    BY <1>4, SkipIs DEF c, d
  <2>2. /\ d.pc = c.pc /\ d.subscribed = c.subscribed /\ d.new_subscribed = c.new_subscribed
        /\ d.produced = c.produced /\ d.producer_info = c.producer_info
    BY <2>1 DEF Only, Same, Fields, c, d
  <2>3. Believed(d) = Believed(c)
    BY <2>1, <2>2 DEF Believed
  <2>4. RowsKnown(d, dir.producers)
    BY <1>0, <2>2, <2>3 DEF RowsKnown
  <2> QED
    BY <1>0, <2>1, <2>2, <2>4, RowsStep DEF c, d
<1>5. ASSUME NEW q \in Parts, handle_new_unsubscription(p, q)
      PROVE  DirInv'
  <2>1. /\ Only(p, {"todo", "mirror", "producer_info", "dead_info"})
        /\ c.pc = "unsubscribe" /\ d.todo = c.todo \ {q}
        /\ d.producer_info = [c.producer_info EXCEPT ![q] = Row] /\ dir' = dir
    BY <1>5, UnsubscriptionIs DEF c, d
  <2>2. /\ d.pc = c.pc /\ d.new_subscribed = c.new_subscribed /\ d.produced = c.produced
    BY <2>1 DEF Only, Same, Fields, c, d
  <2>3. Believed(c) \subseteq Believed(d) \union {q}
    BY <2>1, <2>2 DEF Believed
  <2>4. KnownRow(Row, dir.producers[q])
    <3>1. dir.producers[q].seq_no = 0 => dir.producers[q].pes = {}
      BY DEF DirInv
    <3>2. dir.producers[q].seq_no \in Nat
      BY <1>0 DEF RowType
    <3> QED
      BY <3>1, <3>2 DEF KnownRow, Row
  <2>5. RowsKnown(d, dir.producers)
    BY <1>0, <2>1, <2>3, <2>4 DEF RowsKnown, SubContext
  <2> QED
    BY <1>0, <2>1, <2>2, <2>5, RowsStep DEF c, d
<1>6. CASE SubscribeDone(p)
  <2>1. /\ Only(p, {"pc", "todo"})
        /\ c.pc = "subscribe" /\ c.todo = {} /\ d.pc = "unsubscribe"
        /\ d.todo = c.subscribed \ c.new_subscribed /\ dir' = dir
    BY <1>6, SubscribeDoneIs DEF c, d
  <2>2. /\ d.new_subscribed = c.new_subscribed
        /\ d.produced = c.produced /\ d.producer_info = c.producer_info
    BY <2>1 DEF Only, Same, Fields, c, d
  <2>3. Believed(d) = Believed(c)
    BY <2>1, <2>2 DEF Believed
  <2>4. RowsKnown(d, dir.producers)
    BY <1>0, <2>2, <2>3 DEF RowsKnown
  <2> QED
    BY <1>0, <2>1, <2>2, <2>4, RowsStep DEF c, d
<1>7. CASE WindowDone(p)
  <2>1. /\ Only(p, {"pc", "subscribed", "new_subscribed"})
        /\ c.pc = "unsubscribe" /\ c.todo = {} /\ d.pc = "send"
        /\ d.subscribed = c.new_subscribed /\ dir' = dir
    BY <1>7, WindowDoneIs DEF c, d
  <2>2. d.produced = c.produced /\ d.producer_info = c.producer_info
    BY <2>1 DEF Only, Same, Fields, c, d
  <2>3. Believed(d) = Believed(c)
    BY <2>1, <2>2 DEF Believed
  <2>4. RowsKnown(d, dir.producers)
    BY <1>0, <2>2, <2>3 DEF RowsKnown
  <2> QED
    BY <1>0, <2>1, <2>2, <2>4, RowsStep DEF c, d
<1> QED
  BY <1>1, <1>2, <1>3, <1>4, <1>5, <1>6, <1>7, WindowSteps
-----------------------------------------------------------------------------
(* The windows *)

\* A step of p while it visits partitions
Visits(p) ==
  /\ Visiting(ctx[p]) /\ Visiting(ctx'[p])
  /\ \A f \in {"app", "part", "subscribed", "new_subscribed"} : ctx'[p][f] = ctx[p][f]

\* The steps that take p from one partition of its window to the next.
LEMMA VisitSteps ==
  ASSUME IInv, OrderInv, SubTypes, NEW p \in PEs,
         \/ SubscribeDone(p)
         \/ \E q \in Parts : \/ Learns(p, q) \/ handle_new_unsubscription(p, q)
                             \/ ExistingSkipped(p, q) \/ ExistingUnchanged(p, q)
  PROVE  Visits(p)
<1>1. CASE SubscribeDone(p)
  <2>1. /\ Only(p, {"pc", "todo"}) /\ ctx[p].pc = "subscribe" /\ ctx'[p].pc = "unsubscribe"
    BY <1>1, SubscribeDoneIs
  <2> QED
    BY <2>1 DEF Only, Same, Fields, Visits, Visiting
<1>2. ASSUME NEW q \in Parts, Learns(p, q) PROVE Visits(p)
  <2>1. /\ Only(p, {"todo", "producer_info", "dead_info", "skip", "interval", "mirror"})
        /\ ctx[p].pc = "subscribe"
    BY <1>2 DEF Learns
  <2> QED
    BY <2>1 DEF Only, Same, Fields, Visits, Visiting
<1>3. ASSUME NEW q \in Parts, handle_new_unsubscription(p, q) PROVE Visits(p)
  <2>1. /\ Only(p, {"todo", "mirror", "producer_info", "dead_info"})
        /\ ctx[p].pc = "unsubscribe"
    BY <1>3, UnsubscriptionIs
  <2> QED
    BY <2>1 DEF Only, Same, Fields, Visits, Visiting
<1>4. ASSUME NEW q \in Parts, ExistingSkipped(p, q) \/ ExistingUnchanged(p, q) PROVE Visits(p)
  <2>1. Only(p, {"todo", "skip", "interval"}) /\ ctx[p].pc = "subscribe"
    BY <1>4, SkipIs
  <2> QED
    BY <2>1 DEF Only, Same, Fields, Visits, Visiting
<1> QED
  BY <1>1, <1>2, <1>3, <1>4

\* The window of a PE that keeps it is always the one it starts with.
LEMMA WindowIsKept ==
  ASSUME IInv, OrderInv, SubTypes, DeadInv, StillInv, NEW p \in PEs, Step(p),
         KeepsWindow(ctx[p].app), WindowKept(ctx[p], Window(ctx[p].app))
  PROVE  WindowKept(ctx'[p], Window(ctx[p].app))
<1>1. CASE OutsideWindow(p)
  BY <1>1 DEF OutsideWindow, WindowKept, InWindow, Visiting
<1>2. CASE Visits(p)
  BY <1>2 DEF Visits, WindowKept, InWindow, Visiting
<1>3. CASE Publish(p)
  <2>1. /\ Only(p, {"pc", "produced", "new_subscribed", "todo"}) /\ ctx'[p].pc = "subscribe"
    BY <1>3, PublishIs
  <2>2. PICK near \in Near(ctx[p]) :
          ctx'[p].new_subscribed =
            UNION {ctx[p].app.might_interact[q] : q \in {ctx[p].part} \union near}
    BY <1>3, PublishIs
  <2>3. ctx[p].part \in IF StaysPut(ctx[p].app) THEN {ctx[p].app.starts} ELSE Parts
    BY DEF StillInv, OrderInv, OrderTypes
  <2>4. near \in IF ctx[p].app.max_graph_traverse_depth = 1 THEN {{}} ELSE SUBSET Parts
    <3>1. \A o \in PEs : ctx[p].mirror[o] # None => ctx[p].mirror[o].part \in Parts
      BY DEF OrderInv, OrderTypes, Cached
    <3> QED
      BY <2>2, <3>1 DEF Near
  <2>5. ctx'[p].new_subscribed \in Windows(ctx[p].app)
    BY <2>2, <2>3, <2>4 DEF Windows
  <2>6. ctx'[p].new_subscribed = Window(ctx[p].app)
    BY <2>5 DEF KeepsWindow, Window
  <2> QED
    BY <2>1, <2>6 DEF Only, Same, Fields, WindowKept, InWindow, Visiting
<1>4. CASE WindowDone(p)
  <2>1. /\ Only(p, {"pc", "subscribed", "new_subscribed"}) /\ ctx[p].pc = "unsubscribe"
        /\ ctx'[p].pc = "send" /\ ctx'[p].subscribed = ctx[p].new_subscribed
    BY <1>4, WindowDoneIs
  <2> QED
    BY <2>1 DEF WindowKept, InWindow, Visiting
<1> QED
  BY <1>1, <1>2, <1>3, <1>4, WindowSteps, VisitSteps

\* A change of p's subscriptions is sent.
LEMMA SendingEntersOnly ==
  ASSUME SubTypes, NEW p \in PEs, NEW s, NEW e, NEW S,
         mail'.forward = SendAll(mail.forward, S, Change(p, s, e)),
         NEW a, NEW o \in PEs, ctx'[o].remote_subs = ctx[o].remote_subs, NEW W,
         EntersOnlyIn(a, o, W), a = p => e /\ s \in W
  PROVE  EntersOnlyIn(a, o, W)'
<1>1. PICK f \in Seq(Changes) : f = mail.forward[o]
  BY DEF SubTypes
<1>2. PICK m : m = Change(p, s, e) OBVIOUS
<1>3. mail'.forward[o] = IF o \in S THEN Append(f, m) ELSE f
  BY <1>1, <1>2 DEF SendAll
<1>4. EntersOnly(a, f, W)
  BY <1>1 DEF EntersOnlyIn
<1>5. m.pe = p /\ m.partition = s /\ m.entered = e
  BY <1>2 DEF Change
<1>6. PICK n \in Nat : n = Len(f)
  BY <1>1
<1>7. /\ DOMAIN f = 1 .. n /\ DOMAIN Append(f, m) = 1 .. n + 1
      /\ \A i \in 1 .. n : Append(f, m)[i] = f[i]
      /\ Append(f, m)[n + 1] = m
  BY <1>1, <1>6
<1>8. EntersOnly(a, Append(f, m), W)
  BY <1>4, <1>5, <1>7 DEF EntersOnly
<1> QED
  BY <1>3, <1>4, <1>8 DEF EntersOnlyIn, Counted

\* ... or taken.
LEMMA TakingEntersOnly ==
  ASSUME IInv, OrderInv, SubTypes, NEW p \in PEs, TakeSubscription(p),
         NEW a, NEW o \in PEs, NEW W, EntersOnlyIn(a, o, W)
  PROVE  EntersOnlyIn(a, o, W)'
<1>1. PICK m \in Changes :
        /\ Only(p, {"out", "remote_subs"})
        /\ ctx'[p].remote_subs = Listed(ctx[p].remote_subs, m)
        /\ ctx'[p].remote_subs \in [Parts -> SUBSET PEs]
        /\ m = Head(mail.forward[p]) /\ mail.forward[p] # <<>>
        /\ mail'.forward = [mail.forward EXCEPT ![p] = Tail(@)]
  BY TakesOne
<1>2. CASE o # p
  <2>1. mail'.forward[o] = mail.forward[o] /\ ctx'[o] = ctx[o]
    BY <1>1, <1>2 DEF Only
  <2> QED
    BY <2>1 DEF EntersOnlyIn, Counted
<1>3. CASE o = p
  <2>1. PICK f \in Seq(Changes) : f = mail.forward[p]
    BY DEF SubTypes
  <2>2. PICK n \in Nat : n = Len(f)
    BY <2>1
  <2>3. /\ f # <<>> /\ m = f[1] /\ mail'.forward[p] = Tail(f) /\ DOMAIN f = 1 .. n
        /\ DOMAIN Tail(f) = 1 .. n - 1 /\ \A i \in 1 .. n - 1 : Tail(f)[i] = f[i + 1]
        /\ n > 0
    BY <1>1, <2>1, <2>2 DEF SubTypes
  <2>4. EntersOnly(a, f, W)
    BY <1>3, <2>1 DEF EntersOnlyIn
  <2>5. m.pe = a => m.entered /\ m.partition \in W
    BY <2>3, <2>4 DEF EntersOnly
  <2>6. EntersOnly(a, Tail(f), W)
    BY <2>3, <2>4 DEF EntersOnly
  <2>7. m.partition \in Parts /\ ctx[p].remote_subs \in [Parts -> SUBSET PEs]
    BY DEF Changes, SubTypes, SubContext
  <2>8. ASSUME NEW q \in Parts, a \in ctx'[p].remote_subs[q], a \notin ctx[p].remote_subs[q]
        PROVE  m.pe = a /\ m.partition = q
    <3>1. CASE m.entered
      BY <1>1, <2>7, <2>8, <3>1, SMTT(20) DEF Listed
    <3>2. CASE ~m.entered
      BY <1>1, <2>7, <2>8, <3>2, SMTT(20) DEF Listed
    <3> QED
      BY <3>1, <3>2
  <2> QED
    BY <1>3, <2>3, <2>5, <2>6, <2>8 DEF EntersOnlyIn, Counted
<1> QED
  BY <1>2, <1>3

\* The windows of PEs that keep them, after any step
LEMMA WindowNext ==
  ASSUME IInv, OrderInv, SubTypes, DeadInv, StillInv, WindowInv, NEW p \in PEs, Step(p)
  PROVE  WindowInv'
<1>1. (\A r \in PEs \ {p} : ctx'[r] = ctx[r]) /\ ctx'[p].app = ctx[p].app
  BY OthersStay
<1>2. ASSUME NEW a \in PEs, NEW app, app = ctx[a].app, KeepsWindow(app), NEW W, W = Window(app)
      PROVE  /\ WindowKept(ctx'[a], W)
             /\ \A o \in PEs : EntersOnlyIn(a, o, W)'
  <2>1. WindowKept(ctx[a], W) /\ \A o \in PEs : EntersOnlyIn(a, o, W)
    BY <1>2 DEF WindowInv
  <2>2. WindowKept(ctx'[a], W)
    BY <1>1, <1>2, <2>1, WindowIsKept
  <2>3. ASSUME NEW o \in PEs
        PROVE  EntersOnlyIn(a, o, W)'
    <3>1. CASE Silent(p)
      <4>1. mail'.forward = mail.forward /\ \A q \in Parts : Counted(a, o, q)' => Counted(a, o, q)
        BY <3>1 DEF Silent, Counted
      <4> QED
        BY <2>1, <4>1 DEF EntersOnlyIn
    <3>2. CASE TakeSubscription(p)
      BY <2>1, <3>2, TakingEntersOnly
    <3>3. ASSUME NEW s \in Parts, Learns(p, s)
          PROVE  EntersOnlyIn(a, o, W)'
      <4>1. PICK S \in SUBSET dir.producers[s].pes :
              /\ NewProducers(ctx[p], s) \subseteq S
              /\ mail'.forward = SendAll(mail.forward, S, Change(p, s, TRUE))
        BY <3>3 DEF Learns
      <4>2. Only(p, {"todo", "producer_info", "dead_info", "skip", "interval", "mirror"})
        BY <3>3 DEF Learns
      <4>3. ctx'[o].remote_subs = ctx[o].remote_subs
        BY <4>2 DEF Only, Same, Fields
      <4>4. a = p => s \in W
        <5>1. SubContext(ctx[p]) /\ ctx[p].pc = "subscribe" /\ s \in ctx[p].todo
          BY <3>3 DEF Learns, SubTypes
        <5> QED
          BY <2>1, <5>1 DEF SubContext, WindowKept, Visiting
      <4> QED
        BY <2>1, <4>1, <4>3, <4>4, SendingEntersOnly
    <3>4. ASSUME NEW s \in Parts, handle_new_unsubscription(p, s)
          PROVE  EntersOnlyIn(a, o, W)'
      <4>1. PICK S : S = ctx[p].producer_info[s].pes OBVIOUS
      <4>2. /\ Only(p, {"todo", "mirror", "producer_info", "dead_info"})
            /\ mail'.forward = SendAll(mail.forward, S, Change(p, s, FALSE))
            /\ ctx[p].pc = "unsubscribe" /\ s \in ctx[p].todo
        BY <3>4, <4>1, UnsubscriptionIs
      <4>3. ctx'[o].remote_subs = ctx[o].remote_subs
        BY <4>2 DEF Only, Same, Fields
      <4>4. a # p
        <5>1. SubContext(ctx[p])
          BY DEF SubTypes
        <5> QED
          BY <2>1, <4>2, <5>1 DEF SubContext, WindowKept, Visiting
      <4> QED
        BY <2>1, <4>2, <4>3, <4>4, SendingEntersOnly
    <3> QED
      BY <3>1, <3>2, <3>3, <3>4, StepKinds
  <2> QED
    BY <2>2, <2>3
<1>3. ASSUME NEW a \in PEs, KeepsWindow(ctx'[a].app)
      PROVE  /\ WindowKept(ctx'[a], Window(ctx'[a].app))
             /\ \A o \in PEs : EntersOnlyIn(a, o, Window(ctx[a].app))'
  <2>1. PICK app : app = ctx[a].app /\ app = ctx'[a].app
    BY <1>1
  <2>2. PICK W : W = Window(app) OBVIOUS
  <2>3. WindowKept(ctx'[a], W) /\ \A o \in PEs : EntersOnlyIn(a, o, W)'
    BY <1>2, <1>3, <2>1, <2>2
  <2> QED
    BY <2>1, <2>2, <2>3
<1> QED
  BY <1>3 DEF WindowInv

\* A PE that interacts with its own partition subscribes to it, after any step.
LEMMA HomeNext ==
  ASSUME IInv, OrderInv, SubTypes, DeadInv, HomeInv, NEW p \in PEs, Step(p)
  PROVE  HomeInv'
<1>1. (\A r \in PEs \ {p} : ctx'[r] = ctx[r]) /\ ctx'[p].app = ctx[p].app
  BY OthersStay
<1>2. ASSUME InteractsAtHome(ctx[p].app), HomeKept(ctx[p])
      PROVE  HomeKept(ctx'[p])
  <2>1. CASE OutsideWindow(p)
    <3>1. CASE StaysAsItIs(p)
      BY <1>2, <2>1, <3>1 DEF OutsideWindow, StaysAsItIs, HomeKept, InWindow, Visiting
    <3>2. CASE \E q \in ctx[p].app.goes[ctx[p].part] : ChangeVertex(p, q)
      <4>1. ctx'[p].pc = "publish"
        BY <3>2, ChangeIs
      <4> QED
        BY <4>1 DEF HomeKept, InWindow, Visiting
    <3>3. CASE Publish(p)
      <4>1. ctx[p].pc = "publish"
        BY <3>3, PublishIs
      <4> QED
        BY <2>1, <4>1 DEF OutsideWindow, InWindow
    <3>4. CASE Send(p)
      <4>1. Only(p, {"pc", "first", "needs_send", "out"})
        BY <3>4, SendIs
      <4>2. ctx'[p].part = ctx[p].part
        BY <4>1 DEF Only, Same, Fields
      <4> QED
        BY <1>2, <2>1, <4>2 DEF OutsideWindow, HomeKept, InWindow, Visiting
    <3> QED
      BY <3>1, <3>2, <3>3, <3>4, VertexSteps
  <2>2. CASE Visits(p)
    BY <1>2, <2>2 DEF Visits, HomeKept, InWindow, Visiting
  <2>3. CASE Publish(p)
    <3>1. /\ Only(p, {"pc", "produced", "new_subscribed", "todo"}) /\ ctx'[p].pc = "subscribe"
      BY <2>3, PublishIs
    <3>2. PICK near \in Near(ctx[p]) :
            ctx'[p].new_subscribed =
              UNION {ctx[p].app.might_interact[q] : q \in {ctx[p].part} \union near}
      BY <2>3, PublishIs
    <3>3. ctx[p].part \in ctx[p].app.might_interact[ctx[p].part]
      BY <1>2 DEF InteractsAtHome, OrderInv, OrderTypes
    <3>4. ctx[p].part \in ctx'[p].new_subscribed /\ ctx'[p].part = ctx[p].part
      BY <3>1, <3>2, <3>3 DEF Only, Same, Fields
    <3> QED
      BY <3>1, <3>4 DEF HomeKept, InWindow, Visiting
  <2>4. CASE WindowDone(p)
    <3>1. /\ Only(p, {"pc", "subscribed", "new_subscribed"}) /\ ctx[p].pc = "unsubscribe"
          /\ ctx'[p].pc = "send" /\ ctx'[p].subscribed = ctx[p].new_subscribed
      BY <2>4, WindowDoneIs
    <3>2. ctx'[p].part = ctx[p].part
      BY <3>1 DEF Only, Same, Fields
    <3> QED
      BY <1>2, <3>1, <3>2 DEF HomeKept, InWindow, Visiting
  <2> QED
    BY <2>1, <2>2, <2>3, <2>4, WindowSteps, VisitSteps
<1> QED
  BY <1>1, <1>2 DEF HomeInv
-----------------------------------------------------------------------------
(* The lists of subscribers agree with the subscriptions *)

\* Every step preserves the strengthening.
LEMMA AgreeNext ==
  IInv /\ OrderInv /\ AgreeInv /\ [Next]_vars => AgreeInv'
<1> SUFFICES ASSUME IInv, OrderInv, AgreeInv, [Next]_vars PROVE AgreeInv'
  OBVIOUS
<1>1. CASE UNCHANGED vars
  BY <1>1, SMTT(20) DEF vars, AgreeInv, SubTypes, AppsInv, DirInv, DeadInv, CountInv,
              WindowInv, StillInv, HomeInv, Counts, Counted, EntersOnlyIn, Outcome
<1>2. CASE Next
  <2>1. PICK p \in PEs : Step(p)
    BY <1>2 DEF Next
  <2>2. (\A r \in PEs \ {p} : ctx'[r] = ctx[r]) /\ ctx'[p].app = ctx[p].app
    BY <2>1, OthersStay DEF AgreeInv
  <2>3. AppsInv'
    <3>1. [r \in PEs |-> ctx'[r].app] = [r \in PEs |-> ctx[r].app]
      BY <2>2
    <3> QED
      BY <3>1 DEF AgreeInv, AppsInv
  <2>4. SubTypes' /\ DirInv' /\ DeadInv'
    BY <2>1, <2>2, SubTypesNext, DirNext, DeadNext DEF AgreeInv
  <2>5. CountInv' /\ StillInv'
    BY <2>1, CountNext, StillNext DEF AgreeInv
  <2>6. WindowInv' /\ HomeInv'
    BY <2>1, WindowNext, HomeNext DEF AgreeInv
  <2> QED
    BY <2>3, <2>4, <2>5, <2>6 DEF AgreeInv
<1> QED
  BY <1>1, <1>2

\* A PE that is about to start: it knows, counts and subscribes to nothing.
FreshPE(c) ==
  /\ c.pc = "publish" /\ c.part = c.app.starts /\ c.part \in Parts
  /\ c.prev_part = HVR_INVALID_PARTITION
  /\ c.needs_send = TRUE /\ c.produced = {} /\ c.subscribed = {}
  /\ c.new_subscribed = {} /\ c.todo = {} /\ c.all_dead = {}
  /\ c.producer_info = [q \in Parts |-> Row]
  /\ c.remote_subs = [q \in Parts |-> {}]

\* All PEs are about to start, and nothing has been sent or published.
FreshPEs ==
  /\ \A p \in PEs : FreshPE(ctx[p])
  /\ dir.producers = [q \in Parts |-> Row]
  /\ mail.forward = [p \in PEs |-> <<>>] /\ mail.dead = [p \in PEs |-> {}]
  /\ HasFixedEnds([p \in PEs |-> ctx[p].app])

\* A program that is about to start satisfies the strengthening.
LEMMA FreshAgree == FreshPEs => AgreeInv
<1> SUFFICES ASSUME FreshPEs PROVE AgreeInv
  OBVIOUS
<1>2. /\ \A q \in Parts : dir.producers[q] = Row
      /\ \A p \in PEs : mail.forward[p] = <<>> /\ mail.dead[p] = {}
      /\ dir.producers = [q \in Parts |-> Row]
      /\ mail.forward = [p \in PEs |-> <<>>] /\ mail.dead = [p \in PEs |-> {}]
  BY DEF FreshPEs
<1>3. ASSUME NEW p \in PEs
      PROVE  /\ FreshPE(ctx[p])
             /\ \A q \in Parts : ctx[p].producer_info[q] = Row /\ ctx[p].remote_subs[q] = {}
  <2>1. FreshPE(ctx[p])
    BY Zenon DEF FreshPEs
  <2> QED
    BY <2>1 DEF FreshPE
<1>4. Row \in RowType /\ Row.pes = {} /\ Row.seq_no = 0
  BY DEF Row, RowType
<1>5. SubTypes
  <2>1. ASSUME NEW p \in PEs PROVE SubContext(ctx[p])
    BY <1>3, <1>4 DEF FreshPE, SubContext, InWindow
  <2>2. <<>> \in Seq(Changes)
    OBVIOUS
  <2> QED
    BY <1>2, <1>4, <2>1, <2>2 DEF SubTypes
<1>6. AppsInv
  BY DEF FreshPEs, AppsInv
<1>7. DirInv
  <2>1. ASSUME NEW p \in PEs, NEW q \in Parts
        PROVE  KnownRow(ctx[p].producer_info[q], dir.producers[q])
    BY <1>2, <1>3, <1>4 DEF KnownRow
  <2>2. ASSUME NEW q \in Parts
        PROVE  dir.producers[q].pes = {p \in PEs : q \in ctx[p].produced}
    <3>1. \A p \in PEs : q \notin ctx[p].produced
      BY <1>3 DEF FreshPE
    <3> QED
      BY <1>2, <1>4, <3>1
  <2>3. \A p \in PEs, q \in Parts : ctx[p].producer_info[q] = Row
    BY <1>3
  <2>4. \A q \in Parts : dir.producers[q].pes = {}
    BY <1>2, <1>4
  <2> QED
    BY <2>1, <2>2, <2>3, <2>4 DEF DirInv
<1>8. DeadInv
  <2>1. ASSUME NEW o \in PEs PROVE ctx[o].all_dead \union mail.dead[o] = {}
    BY <1>2, <1>3 DEF FreshPE
  <2> QED
    BY <2>1 DEF DeadInv
<1>9. ASSUME NEW p \in PEs, NEW o \in PEs, NEW q \in Parts
      PROVE  ~Counted(p, o, q) /\ ~Counts(p, o, q)
  <2>1. /\ ctx[o].remote_subs[q] = {} /\ mail.forward[o] = <<>>
    BY <1>2, <1>3
  <2>2. ~Counted(p, o, q)
    BY <2>1 DEF Counted
  <2>3. \A i \in DOMAIN mail.forward[o] : FALSE
    BY <2>1
  <2> QED
    BY <2>1, <2>2, <2>3 DEF Counts, Outcome
<1>10. CountInv
  <2>1. \A p \in PEs, q \in Parts : ctx[p].producer_info[q].pes = {}
    BY <1>3, <1>4
  <2> QED
    BY <2>1 DEF CountInv
<1>11. WindowInv
  <2>1. ASSUME NEW p \in PEs, NEW W PROVE WindowKept(ctx[p], W)
    BY <1>3 DEF FreshPE, WindowKept, InWindow, Visiting
  <2>2. ASSUME NEW p \in PEs, NEW o \in PEs, NEW W PROVE EntersOnlyIn(p, o, W)
    BY <1>2, <1>9 DEF EntersOnlyIn, EntersOnly
  <2> QED
    BY <2>1, <2>2 DEF WindowInv
<1>12. StillInv
  <2>1. ASSUME NEW o \in PEs
        PROVE  /\ ctx[o].part \in Parts /\ ctx[o].part = ctx[o].app.starts
               /\ ctx[o].prev_part = HVR_INVALID_PARTITION
    BY <1>3 DEF FreshPE
  <2>2. ASSUME NEW o \in PEs, NEW p \in PEs
        PROVE  /\ ~Counts(p, o, ctx[o].part)
               /\ o \notin ctx[p].producer_info[ctx[o].part].pes
    BY <1>3, <1>4, <1>9, <2>1
  <2> QED
    BY <2>1, <2>2 DEF StillInv
<1>13. HomeInv
  <2>1. ASSUME NEW p \in PEs PROVE HomeKept(ctx[p])
    BY <1>3 DEF FreshPE, HomeKept, InWindow, Visiting
  <2> QED
    BY <2>1 DEF HomeInv
<1> QED
  BY <1>5, <1>6, <1>7, <1>8, <1>10, <1>11, <1>12, <1>13 DEF AgreeInv

\* Nobody knows, counts or subscribes to anything when the program starts.
LEMMA InitAgree ==
  ASSUME \A program \in Programs : HasFixedEnds(program)
  PROVE  Init => AgreeInv
<1> SUFFICES ASSUME NEW program \in Programs, ctx = [p \in PEs |-> Fresh(program[p])], Init
             PROVE  AgreeInv
  BY DEF Init
<1>1. ASSUME NEW p \in PEs
      PROVE  program[p] \in Application /\ program[p].starts \in Parts
  <2>1. program[p] \in Application
    BY SubscriptionsAssumption
  <2> QED
    BY <2>1 DEF Application
<1>2. /\ dir.producers = [q \in Parts |-> Row]
      /\ mail.forward = [p \in PEs |-> <<>>] /\ mail.dead = [p \in PEs |-> {}]
  BY DEF Init
<1>3. AgreeInv
  <2>1. PICK c : c = ctx OBVIOUS
  <2>2. \A p \in PEs : c[p].app = program[p]
    BY <2>1 DEF Fresh
  <2>3. ASSUME NEW p \in PEs
        PROVE  FreshPE(c[p])
    BY <1>1, <2>1 DEF Fresh, FreshPE
  <2>4. HasFixedEnds([p \in PEs |-> c[p].app])
    <3>1. HasFixedEnds(program)
      OBVIOUS
    <3> QED
      BY <2>2, <3>1 DEF HasFixedEnds
  <2>5. FreshPEs
    BY <1>2, <2>1, <2>3, <2>4 DEF FreshPEs
  <2> QED
    BY <2>5, FreshAgree
<1> QED
  BY <1>3

\* When all is quiet, who counts a PE as a subscriber is who it subscribes to.
LEMMA QuietAgree == OrderInv /\ AgreeInv => ListsAgree
<1> SUFFICES ASSUME OrderInv, AgreeInv, Quiet, NEW o \in Live, NEW p \in Live, NEW q \in Parts,
                    q = ctx[o].part
             PROVE  p \in ctx[o].remote_subs[q] <=> q \in ctx[p].subscribed
  BY DEF ListsAgree, OrderInv, OrderTypes, Live
<1>1. /\ o \in PEs /\ p \in PEs /\ InLoop(ctx[p])
      /\ ctx[o].pc = "change" /\ ctx[p].pc = "change" /\ mail.forward[o] = <<>>
      /\ q \in ctx[p].subscribed => ctx[p].producer_info[q].seq_no = dir.producers[q].seq_no
  BY DEF Quiet, Live, InLoop
<1>2. Counts(p, o, q) <=> Counted(p, o, q)
  BY <1>1 DEF Counts, Outcome
<1>3. ASSUME q \in ctx[p].subscribed
      PROVE  Counted(p, o, q)
  <2>1. q \in ctx[o].produced
    BY <1>1 DEF AgreeInv, SubTypes, SubContext
  <2>2. o \in dir.producers[q].pes /\ KnownRow(ctx[p].producer_info[q], dir.producers[q])
    BY <1>1, <2>1 DEF AgreeInv, DirInv
  <2>3. o \in ctx[p].producer_info[q].pes
    BY <1>1, <1>3, <2>2 DEF KnownRow
  <2> QED
    BY <1>1, <1>2, <2>3 DEF AgreeInv, CountInv
<1>4. ASSUME Counted(p, o, q)
      PROVE  q \in ctx[p].subscribed
  <2>1. CASE KeepsWindow(ctx[p].app)
    BY <1>1, <1>4, <2>1 DEF AgreeInv, WindowInv, WindowKept, InWindow, EntersOnlyIn
  <2>2. CASE StaysPut(ctx[o].app)
    <3>1. o \in ctx[p].producer_info[q].pes
      BY <1>1, <1>2, <1>4, <2>2 DEF AgreeInv, StillInv
    <3>2. q \notin Believed(ctx[p]) => ctx[p].producer_info[q] = Row
      BY <1>1 DEF AgreeInv, DirInv
    <3> QED
      BY <1>1, <3>1, <3>2 DEF Believed, Row
  <2>3. CASE p = o /\ InteractsAtHome(ctx[p].app)
    BY <1>1, <2>3 DEF AgreeInv, HomeInv, HomeKept, InWindow
  <2> QED
    BY <1>1, <2>1, <2>2, <2>3 DEF AgreeInv, AppsInv, HasFixedEnds, FixedEnd
<1> QED
  BY <1>3, <1>4 DEF Counted

\* In programs with fixed ends: whenever all is quiet, the subscribers that a
\* producer of a partition has listed are exactly those that subscribe to it.
THEOREM SubscribersAgree ==
  ASSUME \A program \in Programs : HasFixedEnds(program)
  PROVE  Spec => []ListsAgree
<1>1. Init => IInv /\ OrderInv /\ AgreeInv
  BY InitIInv, InitOrder, InitAgree
<1>2. IInv /\ OrderInv /\ AgreeInv /\ [Next]_vars => IInv' /\ OrderInv' /\ AgreeInv'
  BY NextIInv, NextOrder, AgreeNext
<1>3. IInv /\ OrderInv /\ AgreeInv => ListsAgree
  BY QuietAgree
<1> QED
  BY <1>1, <1>2, <1>3, PTL DEF Spec
-----------------------------------------------------------------------------
(* The last that is heard of a vertex *)

\* What is cached once m is taken, in a partition that is subscribed to.
Seen(m) == IF m.invalid THEN None ELSE [part |-> m.part, ver |-> m.ver]

\* What is cached of o's vertex is in K once the updates in f are taken: the last
\* of o decides, and without one what is cached now, k.
Ends(f, o, k, K) ==
  \/ \E i \in DOMAIN f : /\ f[i].owner = o /\ Seen(f[i]) \in K
                         /\ \A j \in DOMAIN f : f[j].owner = o => j <= i
  \/ k \in K /\ \A j \in DOMAIN f : f[j].owner # o

\* One update is taken.
LEMMA EndsTail ==
  ASSUME NEW f \in Seq(UpdateMessages), f # <<>>, NEW o, NEW k, NEW l, NEW K, Ends(f, o, k, K),
         Head(f).owner # o /\ k \in K => l \in K,
         Head(f).owner = o /\ Seen(Head(f)) \in K => l \in K
  PROVE  Ends(Tail(f), o, l, K)
<1>1. /\ Tail(f) \in Seq(UpdateMessages) /\ Len(Tail(f)) = Len(f) - 1 /\ Head(f) = f[1]
      /\ \A i \in DOMAIN Tail(f) : i + 1 \in DOMAIN f /\ Tail(f)[i] = f[i + 1]
      /\ \A i \in DOMAIN f : i # 1 => i - 1 \in DOMAIN Tail(f) /\ Tail(f)[i - 1] = f[i]
      /\ 1 \in DOMAIN f
  OBVIOUS
<1>2. CASE k \in K /\ \A j \in DOMAIN f : f[j].owner # o
  BY <1>1, <1>2 DEF Ends
<1>3. ASSUME NEW i \in DOMAIN f, f[i].owner = o, Seen(f[i]) \in K,
             \A j \in DOMAIN f : f[j].owner = o => j <= i
      PROVE  Ends(Tail(f), o, l, K)
  <2>1. CASE i = 1
    <3>1. l \in K
      BY <1>1, <1>3, <2>1
    <3>2. \A j \in DOMAIN Tail(f) : Tail(f)[j].owner # o
      BY <1>1, <1>3, <2>1
    <3> QED
      BY <3>1, <3>2 DEF Ends
  <2>2. CASE i # 1
    <3>1. i - 1 \in DOMAIN Tail(f) /\ Tail(f)[i - 1] = f[i]
      BY <1>1, <2>2
    <3>2. \A j \in DOMAIN Tail(f) : Tail(f)[j].owner = o => j <= i - 1
      BY <1>1, <1>3
    <3> QED
      BY <1>3, <3>1, <3>2 DEF Ends
  <2> QED
    BY <2>1, <2>2
<1> QED
  BY <1>2, <1>3 DEF Ends

\* More is accepted.
LEMMA EndsMore ==
  ASSUME NEW f, NEW o, NEW k, NEW l, NEW K, NEW L, Ends(f, o, k, K), K \subseteq L,
         k \in K => l \in L
  PROVE  Ends(f, o, l, L)
BY DEF Ends

\* Updates of others are sent.
LEMMA EndsOthers ==
  ASSUME NEW f \in Seq(UpdateMessages), NEW g \in Seq(UpdateMessages), NEW o, NEW k, NEW K,
         Ends(f, o, k, K), \A i \in DOMAIN g : g[i].owner # o
  PROVE  Ends(f \o g, o, k, K)
<1>1. /\ \A i \in DOMAIN f : i \in DOMAIN (f \o g) /\ (f \o g)[i] = f[i]
      /\ \A i \in DOMAIN (f \o g) :
           \/ i \in DOMAIN f /\ (f \o g)[i] = f[i]
           \/ i - Len(f) \in DOMAIN g /\ (f \o g)[i] = g[i - Len(f)]
  OBVIOUS
<1>2. \A i \in DOMAIN (f \o g) : (f \o g)[i].owner = o => i \in DOMAIN f /\ (f \o g)[i] = f[i]
  BY <1>1
<1> QED
  BY <1>1, <1>2 DEF Ends

\* Updates of o are sent, the last of which is accepted.
LEMMA EndsLast ==
  ASSUME NEW f \in Seq(UpdateMessages), NEW g \in Seq(UpdateMessages), g # <<>>,
         NEW o, NEW k, NEW K, g[Len(g)].owner = o, Seen(g[Len(g)]) \in K
  PROVE  Ends(f \o g, o, k, K)
<1>1. /\ Len(f) + Len(g) \in DOMAIN (f \o g) /\ (f \o g)[Len(f) + Len(g)] = g[Len(g)]
      /\ \A j \in DOMAIN (f \o g) : j <= Len(f) + Len(g)
  OBVIOUS
<1> QED
  BY <1>1 DEF Ends
-----------------------------------------------------------------------------
(* What a producer has told its subscribers *)

\* The state of its vertex that c's PE has announced last
Told(c) == IF c.needs_send THEN [part |-> c.prev_part, ver |-> c.ver - 1]
           ELSE [part |-> c.part, ver |-> c.ver]

\* o counts p in the partition it announced last; p's message that it leaves this
\* partition is on its way to o.
IsTold(p, o)  == Told(ctx[o]).part \in Parts /\ Counted(p, o, Told(ctx[o]).part)
Leaving(p, o) == \E i \in DOMAIN mail.forward[o] :
                   mail.forward[o][i] \in Leaves(p, Told(ctx[o]).part)

\* Who is counted, and is not leaving, has the state that was announced last, or
\* gets it.  Who keeps its window has no other state, and whom nothing is told any
\* more, none.
Reaches(p, o) ==
  IsTold(p, o) /\ ~Leaving(p, o) =>
    \/ ctx[o].out[p] # <<>>
    \/ Ends(mail.update[p], o, ctx[p].mirror[o], {Told(ctx[o])})
KnowsOnly(p, o) == Ends(mail.update[p], o, ctx[p].mirror[o], {None, Told(ctx[o])})
KnowsNone(p, o) ==
  ~IsTold(p, o) => ctx[o].out[p] = <<>> /\ Ends(mail.update[p], o, ctx[p].mirror[o], {None})

ReachInv ==
  \A p, o \in PEs :
    InLoop(ctx[p]) /\ InLoop(ctx[o]) /\ p # o /\ FixedEnd(ctx[p].app, ctx[o].app) => Reaches(p, o)
KnownInv ==
  \A p, o \in PEs :
    InLoop(ctx[p]) /\ p # o /\ KeepsWindow(ctx[p].app) =>
      KnowsOnly(p, o) /\ (InLoop(ctx[o]) => KnowsNone(p, o))

\* What is buffered tells the state announced last: it answers subscriptions.
AnswersInv ==
  \A o, p \in PEs : \A i \in DOMAIN ctx[o].out[p] :
    ~ctx[o].out[p][i].invalid /\ Seen(ctx[o].out[p][i]) = Told(ctx[o])

\* A live PE has no updates of its own vertex.
SelfInv ==
  \A p \in PEs :
    /\ ctx[p].out[p] = <<>>
    /\ \A i \in DOMAIN mail.update[p] : mail.update[p][i].owner # p
    /\ InLoop(ctx[p]) => ctx[p].mirror[p] = None

\* The states that a vertex may have been seen in: one that stays, in its partition
Past(c) == {k \in Cached : StaysPut(c.app) => k.part = c.part}
StateOf(m) == [part |-> m.part, ver |-> m.ver]
SeenInv ==
  /\ \A o \in PEs : StateOf(ctx[o]) \in Past(ctx[o])
  /\ \A o, p \in PEs : \A i \in DOMAIN ctx[o].out[p] : StateOf(ctx[o].out[p][i]) \in Past(ctx[o])
  /\ \A p \in PEs : \A i \in DOMAIN mail.update[p] :
       StateOf(mail.update[p][i]) \in Past(ctx[mail.update[p][i].owner])
  /\ \A p, o \in PEs : ctx[p].mirror[o] # None => ctx[p].mirror[o] \in Past(ctx[o])

MirrorInv == ReachInv /\ KnownInv /\ AnswersInv /\ SelfInv /\ SeenInv
-----------------------------------------------------------------------------
(* What a step is to a subscriber and a producer *)

\* Nothing changes in what p gets and has of o, but for updates of others, and
\* no leave of p's that was on its way to o is taken.
PairKept(p, o) ==
  /\ Told(ctx[o])' = Told(ctx[o]) /\ (IsTold(p, o)' <=> IsTold(p, o))
  /\ Leaving(p, o) => Leaving(p, o)'
  /\ ctx'[o].out[p] = ctx[o].out[p] /\ ctx'[p].mirror[o] = ctx[p].mirror[o]
  /\ \E g \in Seq(UpdateMessages) :
       mail'.update[p] = mail.update[p] \o g /\ \A i \in DOMAIN g : g[i].owner # o

\* What is kept between them stays so.
LEMMA KeptPair ==
  ASSUME OrderInv, NEW p \in PEs, NEW o \in PEs, PairKept(p, o)
  PROVE  /\ Reaches(p, o) => Reaches(p, o)'
         /\ KnowsOnly(p, o) => KnowsOnly(p, o)'
         /\ KnowsNone(p, o) => KnowsNone(p, o)'
<1>1. PICK g \in Seq(UpdateMessages) :
        mail'.update[p] = mail.update[p] \o g /\ \A i \in DOMAIN g : g[i].owner # o
  BY DEF PairKept
<1>2. mail.update[p] \in Seq(UpdateMessages)
  BY DEF OrderInv, OrderTypes
<1>3. ASSUME NEW K, Ends(mail.update[p], o, ctx[p].mirror[o], K)
      PROVE  Ends(mail'.update[p], o, ctx'[p].mirror[o], K)
  <2>1. Ends(mail.update[p] \o g, o, ctx[p].mirror[o], K)
    BY <1>1, <1>2, <1>3, EndsOthers
  <2> QED
    BY <1>1, <2>1 DEF PairKept
<1>4. /\ Told(ctx[o])' = Told(ctx[o]) /\ (IsTold(p, o)' <=> IsTold(p, o))
      /\ Leaving(p, o) => Leaving(p, o)'
      /\ ctx'[o].out[p] = ctx[o].out[p]
  BY DEF PairKept
<1> QED
  BY <1>3, <1>4 DEF Reaches, KnowsOnly, KnowsNone

\* No field that the updates are about changes, and no message is taken.
Plain(p) ==
  /\ \A r \in PEs \ {p} : ctx'[r] = ctx[r]
  /\ \A f \in {"part", "prev_part", "ver", "needs_send", "remote_subs", "out", "mirror"} :
       ctx'[p][f] = ctx[p][f]
  /\ mail'.update = mail.update /\ mail'.forward = mail.forward

\* What leaves these fields alone is plain.
LEMMA OnlyPlain ==
  ASSUME NEW p, NEW F, Only(p, F),
         F \intersect {"part", "prev_part", "ver", "needs_send", "remote_subs", "out", "mirror"} = {},
         mail'.update = mail.update, mail'.forward = mail.forward
  PROVE  Plain(p)
BY DEF Plain, Only, Same, Fields

\* What each step is to the updates
LEMMA MirrorSteps ==
  ASSUME IInv, OrderInv, NEW p \in PEs, Step(p)
  PROVE  \/ Plain(p)
         \/ \E q \in ctx[p].app.goes[ctx[p].part] : ChangeVertex(p, q)
         \/ Send(p) \/ TakeSubscription(p) \/ TakeDead(p) \/ TakeUpdate(p)
         \/ \E q \in Parts : Learns(p, q) \/ handle_new_unsubscription(p, q)
<1>1. ASSUME \/ NoChange(p) \/ NoSubscription(p) \/ NoUpdate(p) \/ EndIteration(p)
             \/ BroadcastDead(p) \/ PersistPartitions(p) \/ MarkTerminated(p)
      PROVE  Plain(p)
  <2>1. Only(p, {"pc"}) /\ mail'.forward = mail.forward /\ mail'.update = mail.update
    BY <1>1, PhaseIs
  <2> QED
    BY <2>1, OnlyPlain
<1>2. ASSUME Publish(p)
      PROVE  Plain(p)
  <2>1. Only(p, {"pc", "produced", "new_subscribed", "todo"}) /\ mail' = mail
    BY <1>2, PublishIs
  <2> QED
    BY <2>1, OnlyPlain
<1>3. ASSUME NEW q \in Parts, ExistingSkipped(p, q) \/ ExistingUnchanged(p, q)
      PROVE  Plain(p)
  <2>1. Only(p, {"todo", "skip", "interval"}) /\ mail' = mail
    BY <1>3, SkipIs
  <2> QED
    BY <2>1, OnlyPlain
<1>4. ASSUME SubscribeDone(p)
      PROVE  Plain(p)
  <2>1. Only(p, {"pc", "todo"}) /\ mail' = mail
    BY <1>4, SubscribeDoneIs
  <2> QED
    BY <2>1, OnlyPlain
<1>5. ASSUME WindowDone(p)
      PROVE  Plain(p)
  <2>1. Only(p, {"pc", "subscribed", "new_subscribed"}) /\ mail' = mail
    BY <1>5, WindowDoneIs
  <2> QED
    BY <2>1, OnlyPlain
<1>6. ASSUME NEW q \in Parts, handle_new_subscription(p, q) \/ ExistingChanged(p, q)
      PROVE  Learns(p, q)
  BY <1>6, LearnIs
<1> QED
  BY <1>1, <1>2, <1>3, <1>4, <1>5, <1>6 DEF Step

\* No message that p leaves is taken by o.
FrontKept(o) ==
  \A i \in DOMAIN mail.forward[o] :
    i \in DOMAIN mail'.forward[o] /\ mail'.forward[o][i] = mail.forward[o][i]

\* A message is sent.
LEMMA SendingFront ==
  ASSUME SubTypes, NEW o \in PEs, NEW S, NEW a \in PEs, NEW q \in Parts, NEW e \in BOOLEAN,
         mail'.forward = SendAll(mail.forward, S, Change(a, q, e))
  PROVE  FrontKept(o)
<1>1. PICK m : m = Change(a, q, e) OBVIOUS
<1>2. PICK f : f = mail.forward[o] OBVIOUS
<1>3. m \in Changes /\ f \in Seq(Changes)
  BY <1>1, <1>2, ChangeKinds DEF SubTypes
<1>4. mail'.forward[o] = Append(f, m) \/ mail'.forward[o] = f
  BY <1>1, <1>2 DEF SendAll
<1>5. \A i \in DOMAIN f : i \in DOMAIN Append(f, m) /\ Append(f, m)[i] = f[i]
  BY <1>3
<1> QED
  BY <1>2, <1>4, <1>5 DEF FrontKept

\* o's vertex, what it has for p and who it counts stay, and so does what p has.
LEMMA SamePair ==
  ASSUME OrderInv, NEW p \in PEs, NEW o \in PEs,
         \A f \in {"part", "prev_part", "ver", "needs_send"} : ctx'[o][f] = ctx[o][f],
         \A q \in Parts : Counted(p, o, q)' <=> Counted(p, o, q),
         ctx'[o].out[p] = ctx[o].out[p], ctx'[p].mirror[o] = ctx[p].mirror[o],
         NEW g \in Seq(UpdateMessages), mail'.update[p] = mail.update[p] \o g,
         \A i \in DOMAIN g : g[i].owner # o,
         FrontKept(o)
  PROVE  PairKept(p, o)
<1>1. Told(ctx[o])' = Told(ctx[o])
  BY DEF Told
<1>2. IsTold(p, o)' <=> IsTold(p, o)
  BY <1>1 DEF IsTold
<1>3. Leaving(p, o) => Leaving(p, o)'
  BY <1>1 DEF Leaving, FrontKept
<1> QED
  BY <1>1, <1>2, <1>3 DEF PairKept

\* The steps that have nothing to do with updates
LEMMA PlainPair ==
  ASSUME OrderInv, NEW a \in PEs, Plain(a), NEW p \in PEs, NEW o \in PEs
  PROVE  PairKept(p, o)
<1>1. <<>> \in Seq(UpdateMessages) /\ mail'.update[p] = mail.update[p] \o <<>>
  BY DEF Plain, OrderInv, OrderTypes
<1>2. \A r \in PEs : \A f \in {"part", "prev_part", "ver", "needs_send", "remote_subs", "out", "mirror"} :
        ctx'[r][f] = ctx[r][f]
  BY DEF Plain
<1>3. /\ \A q \in Parts : Counted(p, o, q)' <=> Counted(p, o, q)
      /\ ctx'[o].out[p] = ctx[o].out[p] /\ ctx'[p].mirror[o] = ctx[p].mirror[o]
  BY <1>2 DEF Counted
<1>4. FrontKept(o)
  BY DEF Plain, FrontKept
<1>5. \A i \in DOMAIN <<>> : <<>>[i].owner # o
  OBVIOUS
<1> QED
  BY <1>1, <1>2, <1>3, <1>4, <1>5, SamePair

\* A changed vertex has been announced as it was before.
LEMMA ChangePair ==
  ASSUME IInv, OrderInv, SubTypes, NEW a \in PEs, NEW r, ChangeVertex(a, r),
         NEW p \in PEs, NEW o \in PEs
  PROVE  PairKept(p, o)
<1>1. /\ Only(a, {"pc", "part", "prev_part", "ver", "needs_send"})
      /\ ctx[a].pc = "change"
      /\ ctx'[a].prev_part = ctx[a].part /\ ctx'[a].ver = ctx[a].ver + 1 /\ ctx'[a].needs_send = TRUE
      /\ mail' = mail
  BY ChangeIs
<1>2. ctx[a].needs_send = FALSE /\ ctx[a].ver \in Nat
  BY <1>1 DEF SubTypes, SubContext, InWindow, OrderInv, OrderTypes
<1>3. \A s \in PEs \ {a} : ctx'[s] = ctx[s]
  BY <1>1 DEF Only
<1>4. \A s \in PEs : Told(ctx[s])' = Told(ctx[s])
  BY <1>1, <1>2, <1>3 DEF Told
<1>5. \A s \in PEs : /\ ctx'[s].remote_subs = ctx[s].remote_subs /\ ctx'[s].out = ctx[s].out
                     /\ ctx'[s].mirror = ctx[s].mirror
  BY <1>1 DEF Only, Same, Fields
<1>6. IsTold(p, o)' <=> IsTold(p, o)
  BY <1>4, <1>5 DEF IsTold, Counted
<1>7. Leaving(p, o) => Leaving(p, o)'
  BY <1>1, <1>4 DEF Leaving
<1>8. /\ <<>> \in Seq(UpdateMessages) /\ mail'.update[p] = mail.update[p] \o <<>>
      /\ \A i \in DOMAIN <<>> : <<>>[i].owner # o
  BY <1>1 DEF OrderInv, OrderTypes
<1> QED
  BY <1>4, <1>5, <1>6, <1>7, <1>8 DEF PairKept

\* A live PE is not taken for dead.
LEMMA DeadPair ==
  ASSUME IInv, OrderInv, SubTypes, DeadInv, NEW a \in PEs, TakeDead(a),
         NEW p \in PEs, NEW o \in PEs, InLoop(ctx[p])
  PROVE  PairKept(p, o)
<1>1. /\ Only(a, {"all_dead", "remote_subs"})
      /\ mail'.forward = mail.forward /\ mail'.update = mail.update
  BY TakeDeadIs
<1>2. PICK d \in mail.dead[a] :
        ctx'[a].remote_subs = [q \in Parts |-> ctx[a].remote_subs[q] \ {d}]
  BY TakeDeadIs
<1>3. d # p
  BY <1>2 DEF DeadInv
<1>4. \A q \in Parts : Counted(p, o, q)' <=> Counted(p, o, q)
  BY <1>1, <1>2, <1>3 DEF Counted, Only
<1>5. \A s \in PEs : \A f \in {"part", "prev_part", "ver", "needs_send", "out", "mirror"} :
        ctx'[s][f] = ctx[s][f]
  BY <1>1 DEF Only, Same, Fields
<1>6. /\ <<>> \in Seq(UpdateMessages) /\ mail'.update[p] = mail.update[p] \o <<>>
      /\ \A i \in DOMAIN <<>> : <<>>[i].owner # o
  BY <1>1 DEF OrderInv, OrderTypes
<1>7. FrontKept(o)
  BY <1>1 DEF FrontKept
<1>8. ctx'[o].out[p] = ctx[o].out[p] /\ ctx'[p].mirror[o] = ctx[p].mirror[o]
  BY <1>5
<1> QED
  BY <1>4, <1>5, <1>6, <1>7, <1>8, SamePair

\* Partitions of other PEs, or of p where o's vertex is not touched
LEMMA LearnPair ==
  ASSUME IInv, OrderInv, SubTypes, NEW a \in PEs, NEW r \in Parts,
         Learns(a, r) \/ handle_new_unsubscription(a, r),
         NEW p \in PEs, NEW o \in PEs, ctx'[p].mirror[o] = ctx[p].mirror[o]
  PROVE  PairKept(p, o)
<1>1. /\ \/ Only(a, {"todo", "producer_info", "dead_info", "skip", "interval", "mirror"})
         \/ Only(a, {"todo", "mirror", "producer_info", "dead_info"})
      /\ mail'.update = mail.update
  BY UnsubscriptionIs DEF Learns
<1>2. PICK t \in BOOLEAN, u \in BOOLEAN : t = TRUE /\ u = FALSE
  OBVIOUS
<1>3. FrontKept(o)
  <2>1. CASE Learns(a, r)
    <3>1. PICK S : mail'.forward = SendAll(mail.forward, S, Change(a, r, TRUE))
      BY <2>1 DEF Learns
    <3> QED
      BY <1>2, <3>1, SendingFront
  <2>2. CASE handle_new_unsubscription(a, r)
    <3>1. PICK S : mail'.forward = SendAll(mail.forward, S, Change(a, r, FALSE))
      BY <2>2, UnsubscriptionIs
    <3> QED
      BY <1>2, <3>1, SendingFront
  <2> QED
    BY <2>1, <2>2
<1>4. \A s \in PEs : \A f \in {"part", "prev_part", "ver", "needs_send", "remote_subs", "out"} :
        ctx'[s][f] = ctx[s][f]
  BY <1>1 DEF Only, Same, Fields
<1>5. /\ \A q \in Parts : Counted(p, o, q)' <=> Counted(p, o, q)
      /\ ctx'[o].out[p] = ctx[o].out[p]
  BY <1>4 DEF Counted
<1>6. /\ <<>> \in Seq(UpdateMessages) /\ mail'.update[p] = mail.update[p] \o <<>>
      /\ \A i \in DOMAIN <<>> : <<>>[i].owner # o
  BY <1>1 DEF OrderInv, OrderTypes
<1> QED
  BY <1>3, <1>4, <1>5, <1>6, SamePair

\* Another PE takes an update.
LEMMA TakeUpdatePair ==
  ASSUME IInv, OrderInv, NEW a \in PEs, TakeUpdate(a), NEW p \in PEs, NEW o \in PEs, p # a
  PROVE  PairKept(p, o)
<1>1. /\ Only(a, {"mirror"}) /\ mail'.forward = mail.forward
      /\ mail'.update = [mail.update EXCEPT ![a] = Tail(@)]
  BY TakeUpdateIs
<1>2. mail'.update[p] = mail.update[p] /\ mail.update[p] \in Seq(UpdateMessages)
  BY <1>1 DEF OrderInv, OrderTypes
<1>3. /\ <<>> \in Seq(UpdateMessages) /\ mail'.update[p] = mail.update[p] \o <<>>
      /\ \A i \in DOMAIN <<>> : <<>>[i].owner # o
  BY <1>2
<1>4. \A s \in PEs : \A f \in {"part", "prev_part", "ver", "needs_send", "remote_subs", "out"} :
        ctx'[s][f] = ctx[s][f]
  BY <1>1 DEF Only, Same, Fields
<1>5. /\ \A q \in Parts : Counted(p, o, q)' <=> Counted(p, o, q)
      /\ ctx'[o].out[p] = ctx[o].out[p] /\ ctx'[p].mirror[o] = ctx[p].mirror[o]
  BY <1>1, <1>4 DEF Counted, Only
<1>6. FrontKept(o)
  BY <1>1 DEF FrontKept
<1> QED
  BY <1>3, <1>4, <1>5, <1>6, SamePair

\* What o adds for p when it announces its vertex: an update if p is counted where
\* the vertex is, before it the end of one that has moved.
LEMMA AnnouncesIs ==
  ASSUME IInv, OrderInv, SubTypes, NEW o \in PEs, NEW p \in PEs,
         NEW c, c = ctx[o], NEW a, a = Announces(o, c, p)
  PROVE  /\ a \in Seq(UpdateMessages) /\ OnlyOf(a, o)
         /\ \/ a = c.out[p]
            \/ c.needs_send /\ a # <<>> /\ a[Len(a)] = Update(o, c)
            \/ c.needs_send /\ a # <<>> /\ a[Len(a)] = Invalidate(o, c)
         /\ c.needs_send /\ Receives(o, c, c.part, p) => a # <<>> /\ a[Len(a)] = Update(o, c)
         /\ c.needs_send /\ ~Receives(o, c, c.part, p) =>
              IF c.prev_part \notin {HVR_INVALID_PARTITION, c.part} /\ Receives(o, c, c.prev_part, p)
              THEN a # <<>> /\ a[Len(a)] = Invalidate(o, c) ELSE a = c.out[p]
         /\ ~c.needs_send => a = c.out[p]
         /\ \A i \in DOMAIN a : \/ \E j \in DOMAIN c.out[p] : a[i] = c.out[p][j]
                                \/ a[i] \in {Update(o, c), Invalidate(o, c)}
         /\ p = o => a = c.out[p]
<1>1. PICK t : t = c.out[p] OBVIOUS
<1>2. PICK U, V : U = Update(o, c) /\ V = Invalidate(o, c) OBVIOUS
<1>3. /\ t \in Seq(UpdateMessages) /\ OnlyOf(t, o)
      /\ U \in UpdateMessages /\ V \in UpdateMessages /\ U.owner = o /\ V.owner = o
  BY <1>1, <1>2, UpdatesOfNow DEF OrderInv, OrderTypes, OrderContext, Posts
<1>4. PICK left, here \in BOOLEAN :
        /\ here <=> c.needs_send /\ Receives(o, c, c.part, p)
        /\ left <=> /\ c.needs_send /\ c.prev_part \notin {HVR_INVALID_PARTITION, c.part}
                    /\ Receives(o, c, c.prev_part, p)
  OBVIOUS
<1>5. PICK u : u = IF left THEN Append(t, V) ELSE t OBVIOUS
<1>6. a = IF here THEN Append(u, U) ELSE u
  BY <1>1, <1>2, <1>4, <1>5 DEF Announces
<1>7. /\ u \in Seq(UpdateMessages) /\ OnlyOf(u, o)
      /\ left => u # <<>> /\ u[Len(u)] = V
      /\ ~left => u = t
      /\ \A i \in DOMAIN u : (\E j \in DOMAIN t : u[i] = t[j]) \/ u[i] = V
  BY <1>3, <1>5 DEF OnlyOf
<1>8. /\ a \in Seq(UpdateMessages) /\ OnlyOf(a, o)
      /\ here => a # <<>> /\ a[Len(a)] = U
      /\ ~here => a = u
      /\ \A i \in DOMAIN a : (\E j \in DOMAIN t : a[i] = t[j]) \/ a[i] \in {U, V}
  BY <1>3, <1>6, <1>7 DEF OnlyOf
<1>9. p = o => ~left /\ ~here
  BY <1>4 DEF Receives
<1> QED
  BY <1>1, <1>2, <1>4, <1>7, <1>8, <1>9

\* The updates in a are o's buffered ones and those of its vertex as it is.
MadeBy(a, o) ==
  \A i \in DOMAIN a : \/ \E p \in PEs : \E j \in DOMAIN ctx[o].out[p] : a[i] = ctx[o].out[p][j]
                      \/ a[i] = Update(o, ctx[o]) \/ a[i] = Invalidate(o, ctx[o])

\* So are those that are announced.
LEMMA AnnouncesMade ==
  ASSUME IInv, OrderInv, SubTypes, NEW o \in PEs, NEW p \in PEs
  PROVE  MadeBy(Announces(o, ctx[o], p), o)
<1>1. PICK t : t = ctx[o].out[p] OBVIOUS
<1>2. PICK U, V : U = Update(o, ctx[o]) /\ V = Invalidate(o, ctx[o]) OBVIOUS
<1>3. t \in Seq(UpdateMessages) /\ U \in UpdateMessages /\ V \in UpdateMessages
  BY <1>1, <1>2, UpdatesOfNow DEF OrderInv, OrderTypes, OrderContext, Posts
<1>4. PICK u \in {t, Append(t, V)} : Announces(o, ctx[o], p) \in {u, Append(u, U)}
  BY <1>1, <1>2 DEF Announces
<1>5. \A i \in DOMAIN u : (\E j \in DOMAIN t : u[i] = t[j]) \/ u[i] = V
  BY <1>3, <1>4
<1>6. u \in Seq(UpdateMessages)
  BY <1>3, <1>4
<1>7. \A i \in DOMAIN Append(u, U) : (i \in DOMAIN u /\ Append(u, U)[i] = u[i]) \/ Append(u, U)[i] = U
  BY <1>3, <1>6
<1>8. PICK a : a = Announces(o, ctx[o], p) OBVIOUS
<1>9. \A i \in DOMAIN a : (\E j \in DOMAIN t : a[i] = t[j]) \/ a[i] = V \/ a[i] = U
  BY <1>4, <1>5, <1>7, <1>8
<1> QED
  BY <1>1, <1>2, <1>8, <1>9 DEF MadeBy

\* What other PEs send
LEMMA OthersSendPair ==
  ASSUME IInv, OrderInv, SubTypes, NEW a \in PEs, Send(a), NEW p \in PEs, NEW o \in PEs, o # a
  PROVE  PairKept(p, o)
<1>1. /\ Only(a, {"pc", "first", "needs_send", "out"})
      /\ mail'.update = [r \in PEs |-> mail.update[r] \o Announces(a, ctx[a], r)]
      /\ mail'.forward = mail.forward
  BY SendIs
<1>2. PICK g : g = Announces(a, ctx[a], p) OBVIOUS
<1>3. g \in Seq(UpdateMessages) /\ OnlyOf(g, a)
  BY <1>2, AnnouncesIs
<1>4. mail'.update[p] = mail.update[p] \o g /\ \A i \in DOMAIN g : g[i].owner # o
  BY <1>1, <1>2, <1>3 DEF OnlyOf
<1>5. ctx'[o] = ctx[o] /\ ctx'[p].mirror = ctx[p].mirror
  BY <1>1 DEF Only, Same, Fields
<1>6. FrontKept(o)
  BY <1>1 DEF FrontKept
<1>7. \A q \in Parts : Counted(p, o, q)' <=> Counted(p, o, q)
  BY <1>5 DEF Counted
<1>8. /\ \A f \in {"part", "prev_part", "ver", "needs_send"} : ctx'[o][f] = ctx[o][f]
      /\ ctx'[o].out[p] = ctx[o].out[p] /\ ctx'[p].mirror[o] = ctx[p].mirror[o]
  BY <1>5
<1> QED
  BY <1>3, <1>4, <1>6, <1>7, <1>8, SamePair

\* o announces its vertex, and sends what it has buffered.
LEMMA SendPair ==
  ASSUME IInv, OrderInv, SubTypes, DeadInv, AnswersInv, NEW o \in PEs, Send(o),
         NEW p \in PEs, p # o, InLoop(ctx[p])
  PROVE  /\ Reaches(p, o) => Reaches(p, o)'
         /\ KnowsOnly(p, o) /\ KnowsNone(p, o) => KnowsOnly(p, o)' /\ KnowsNone(p, o)'
<1>1. /\ Only(o, {"pc", "first", "needs_send", "out"}) /\ ctx'[o].needs_send = FALSE
      /\ ctx'[o].out = [r \in PEs |-> <<>>]
      /\ mail'.update = [r \in PEs |-> mail.update[r] \o Announces(o, ctx[o], r)]
      /\ mail'.forward = mail.forward
  BY SendIs
<1>2. PICK c, a, k, f :
        c = ctx[o] /\ a = Announces(o, c, p) /\ k = ctx[p].mirror[o] /\ f = mail.update[p]
  OBVIOUS
<1>3. /\ mail'.update[p] = f \o a /\ ctx'[p].mirror[o] = k /\ ctx'[o].out[p] = <<>>
      /\ f \in Seq(UpdateMessages)
  BY <1>1, <1>2 DEF Only, OrderInv, OrderTypes
<1>4. /\ Told(ctx[o])' = [part |-> c.part, ver |-> c.ver]
      /\ Told(ctx[o]) = Told(c)
      /\ IsTold(p, o)' <=> c.part \in Parts /\ p \in c.remote_subs[c.part]
  BY <1>1, <1>2 DEF Told, IsTold, Counted, Only, Same, Fields
<1>5. \A q : Receives(o, c, q, p) <=> p \in c.remote_subs[q]
  BY <1>2 DEF Receives, DeadInv
<1>6. /\ Update(o, c).owner = o /\ Seen(Update(o, c)) = [part |-> c.part, ver |-> c.ver]
      /\ Invalidate(o, c).owner = o /\ Seen(Invalidate(o, c)) = None
  BY DEF Update, Invalidate, Seen
<1>7. /\ c.part \in Parts /\ c.prev_part \in Parts \union {HVR_INVALID_PARTITION}
      /\ HVR_INVALID_PARTITION \notin Parts
  BY <1>2, SubscriptionsAssumption DEF OrderInv, OrderTypes, SubTypes, SubContext
<1>8. a \in Seq(UpdateMessages) /\ OnlyOf(a, o)
  BY <1>2, AnnouncesIs
<1>9. CASE c.needs_send /\ p \in c.remote_subs[c.part]
  <2>1. a # <<>> /\ a[Len(a)] = Update(o, c)
    BY <1>2, <1>5, <1>9, AnnouncesIs
  <2>2. \A K : [part |-> c.part, ver |-> c.ver] \in K => Ends(f \o a, o, k, K)
    BY <1>3, <1>6, <1>8, <2>1, EndsLast
  <2>3. IsTold(p, o)'
    BY <1>4, <1>7, <1>9
  <2> QED
    BY <1>3, <1>4, <2>2, <2>3 DEF Reaches, KnowsOnly, KnowsNone
<1>10. CASE c.needs_send /\ p \notin c.remote_subs[c.part]
  <2>1. ~IsTold(p, o)'
    BY <1>4, <1>10
  <2>2. CASE c.prev_part \notin {HVR_INVALID_PARTITION, c.part} /\ p \in c.remote_subs[c.prev_part]
    <3>1. a # <<>> /\ a[Len(a)] = Invalidate(o, c)
      BY <1>2, <1>5, <1>10, <2>2, AnnouncesIs
    <3>2. \A K : None \in K => Ends(f \o a, o, k, K)
      BY <1>3, <1>6, <1>8, <3>1, EndsLast
    <3> QED
      BY <1>3, <1>4, <2>1, <3>2 DEF Reaches, KnowsOnly, KnowsNone
  <2>3. CASE ~(c.prev_part \notin {HVR_INVALID_PARTITION, c.part} /\ p \in c.remote_subs[c.prev_part])
    <3>1. a = c.out[p]
      BY <1>2, <1>5, <1>10, <2>3, AnnouncesIs
    <3>2. ~IsTold(p, o)
      BY <1>2, <1>7, <1>10, <2>3 DEF IsTold, Counted, Told
    <3>3. KnowsNone(p, o) => a = <<>> /\ Ends(f, o, k, {None})
      BY <1>2, <3>1, <3>2 DEF KnowsNone
    <3>4. a = <<>> => f \o a = f
      BY <1>3
    <3>5. ASSUME KnowsNone(p, o)
          PROVE  /\ Ends(f \o a, o, k, {None})
                 /\ Ends(f \o a, o, k, {None, [part |-> c.part, ver |-> c.ver]})
      <4>1. Ends(f \o a, o, k, {None})
        BY <3>3, <3>4, <3>5
      <4>2. {None} \subseteq {None, [part |-> c.part, ver |-> c.ver]}
        OBVIOUS
      <4> QED
        BY <4>1, <4>2, EndsMore
    <3> QED
      BY <1>3, <1>4, <2>1, <3>5 DEF Reaches, KnowsOnly, KnowsNone
  <2> QED
    BY <2>2, <2>3
<1>11. CASE ~c.needs_send
  <2>1. a = c.out[p]
    BY <1>2, <1>11, AnnouncesIs
  <2>2. /\ Told(ctx[o])' = Told(ctx[o]) /\ Told(c) = [part |-> c.part, ver |-> c.ver]
        /\ IsTold(p, o)' <=> IsTold(p, o)
    BY <1>2, <1>4, <1>7, <1>11 DEF Told, IsTold, Counted
  <2>3. Leaving(p, o)' <=> Leaving(p, o)
    BY <1>1, <2>2 DEF Leaving
  <2>4. CASE a = <<>>
    <3>1. f \o a = f
      BY <1>3, <2>4
    <3> QED
      BY <1>2, <1>3, <2>1, <2>2, <2>3, <2>4, <3>1 DEF Reaches, KnowsOnly, KnowsNone
  <2>5. CASE a # <<>>
    <3>1. Len(a) \in DOMAIN a
      BY <1>8, <2>5
    <3>2. a[Len(a)].owner = o /\ Seen(a[Len(a)]) = Told(ctx[o])
      BY <1>2, <1>8, <2>1, <3>1 DEF AnswersInv, OnlyOf
    <3>3. \A K : Told(ctx[o]) \in K => Ends(f \o a, o, k, K)
      BY <1>3, <1>8, <2>5, <3>2, EndsLast
    <3> QED
      BY <1>2, <1>3, <2>1, <2>2, <2>5, <3>3 DEF Reaches, KnowsOnly, KnowsNone
  <2> QED
    BY <2>4, <2>5
<1> QED
  BY <1>9, <1>10, <1>11

\* What other PEs take, and o of other PEs
LEMMA OthersTakePair ==
  ASSUME IInv, OrderInv, SubTypes, NEW a \in PEs, TakeSubscription(a),
         NEW p \in PEs, NEW o \in PEs, a # o \/ Head(mail.forward[a]).pe # p
  PROVE  PairKept(p, o)
<1>1. PICK m \in Changes :
        /\ Only(a, {"out", "remote_subs"})
        /\ ctx'[a].remote_subs = Listed(ctx[a].remote_subs, m)
        /\ \A r \in PEs : ctx'[a].out[r] =
             IF Answers(a, ctx[a], m) /\ r = m.pe
             THEN Append(ctx[a].out[r], Update(a, ctx[a])) ELSE ctx[a].out[r]
        /\ m = Head(mail.forward[a]) /\ mail.forward[a] # <<>>
        /\ mail'.forward = [mail.forward EXCEPT ![a] = Tail(@)]
        /\ mail'.update = mail.update
  BY TakesOne
<1>2. /\ mail'.update[p] = mail.update[p] \o <<>> /\ <<>> \in Seq(UpdateMessages)
      /\ \A i \in DOMAIN <<>> : <<>>[i].owner # o
  BY <1>1 DEF OrderInv, OrderTypes
<1>3. /\ \A r \in PEs : \A f \in {"part", "prev_part", "ver", "needs_send", "mirror"} :
           ctx'[r][f] = ctx[r][f]
      /\ ctx'[p].mirror[o] = ctx[p].mirror[o]
  BY <1>1 DEF Only, Same, Fields
<1>4. CASE a # o
  <2>1. ctx'[o] = ctx[o] /\ mail'.forward[o] = mail.forward[o]
    BY <1>1, <1>4 DEF Only, SubTypes
  <2>2. \A q \in Parts : Counted(p, o, q)' <=> Counted(p, o, q)
    BY <2>1 DEF Counted
  <2>3. FrontKept(o)
    BY <2>1 DEF FrontKept
  <2>4. ctx'[o].out[p] = ctx[o].out[p]
    BY <2>1
  <2> QED
    BY <1>2, <1>3, <2>2, <2>3, <2>4, SamePair
<1>5. CASE a = o /\ m.pe # p
  <2>1. ctx[o].remote_subs \in [Parts -> SUBSET PEs] /\ mail.forward \in [PEs -> Seq(Changes)]
    BY DEF SubTypes, SubContext
  <2>2. \A q \in Parts : Counted(p, o, q)' <=> Counted(p, o, q)
    <3>1. PICK S, L : S = ctx[o].remote_subs /\ L = ctx'[o].remote_subs OBVIOUS
    <3>2. ASSUME NEW q \in Parts PROVE p \in L[q] <=> p \in S[q]
      <4>1. L = Listed(S, m) /\ S \in [Parts -> SUBSET PEs]
        BY <1>1, <1>5, <2>1, <3>1
      <4>2. CASE q = m.partition
        BY <1>5, <4>1, <4>2 DEF Listed
      <4>3. CASE q # m.partition
        BY <4>1, <4>3 DEF Listed
      <4> QED
        BY <4>2, <4>3
    <3> QED
      BY <3>1, <3>2 DEF Counted
  <2>3. ctx'[o].out[p] = ctx[o].out[p]
    BY <1>1, <1>5
  <2>4. Told(ctx[o])' = Told(ctx[o])
    BY <1>3 DEF Told
  <2>5. IsTold(p, o)' <=> IsTold(p, o)
    BY <2>2, <2>4 DEF IsTold
  <2>6. Leaving(p, o) => Leaving(p, o)'
    <3>1. PICK f : f = mail.forward[o] OBVIOUS
    <3>2. f \in Seq(Changes) /\ f # <<>> /\ f[1] = m /\ mail'.forward[o] = Tail(f)
      BY <1>1, <1>5, <2>1, <3>1
    <3>3. \A i \in DOMAIN f : i # 1 => i - 1 \in DOMAIN Tail(f) /\ Tail(f)[i - 1] = f[i]
      BY <3>2
    <3>4. \A q : m \notin Leaves(p, q)
      BY <1>5 DEF Leaves
    <3> QED
      BY <2>4, <3>1, <3>2, <3>3, <3>4, ZenonT(30) DEF Leaving
  <2> QED
    BY <1>2, <1>3, <2>3, <2>4, <2>5, <2>6 DEF PairKept
<1> QED
  BY <1>1, <1>4, <1>5

\* o takes a message of p: it answers, or p does not subscribe any longer, or
\* nothing changes between them.
LEMMA TakesPair ==
  ASSUME IInv, OrderInv, SubTypes, DeadInv, NEW o \in PEs, TakeSubscription(o),
         NEW p \in PEs, p # o, InLoop(ctx[p]), Head(mail.forward[o]).pe = p
  PROVE  /\ Reaches(p, o) => Reaches(p, o)'
         /\ KnowsOnly(p, o) => KnowsOnly(p, o)'
         /\ Head(mail.forward[o]).entered /\ KnowsNone(p, o) => KnowsNone(p, o)'
<1>1. PICK m \in Changes :
        /\ Only(o, {"out", "remote_subs"}) /\ ctx[o].pc = "subs"
        /\ ctx'[o].remote_subs = Listed(ctx[o].remote_subs, m)
        /\ \A r \in PEs : ctx'[o].out[r] =
             IF Answers(o, ctx[o], m) /\ r = m.pe
             THEN Append(ctx[o].out[r], Update(o, ctx[o])) ELSE ctx[o].out[r]
        /\ m = Head(mail.forward[o]) /\ mail.forward[o] # <<>>
        /\ mail'.forward = [mail.forward EXCEPT ![o] = Tail(@)]
        /\ mail'.update = mail.update
  BY TakesOne
<1>2. PICK S, L, q : S = ctx[o].remote_subs /\ L = ctx'[o].remote_subs /\ q = ctx[o].part
  OBVIOUS
<1>3. /\ S \in [Parts -> SUBSET PEs] /\ mail.forward \in [PEs -> Seq(Changes)]
      /\ q \in Parts /\ ctx[o].needs_send = FALSE /\ m.pe = p
  BY <1>1, <1>2 DEF SubTypes, SubContext, InWindow, OrderInv, OrderTypes
<1>4. /\ mail'.update[p] = mail.update[p] \o <<>> /\ <<>> \in Seq(UpdateMessages)
      /\ mail'.update[p] = mail.update[p]
      /\ \A i \in DOMAIN <<>> : <<>>[i].owner # o
  BY <1>1 DEF OrderInv, OrderTypes
<1>5. /\ \A r \in PEs : \A f \in {"part", "prev_part", "ver", "needs_send", "mirror"} :
           ctx'[r][f] = ctx[r][f]
      /\ ctx'[p].mirror[o] = ctx[p].mirror[o]
  BY <1>1 DEF Only, Same, Fields
<1>6. /\ Told(ctx[o])' = Told(ctx[o]) /\ Told(ctx[o]).part = q
      /\ IsTold(p, o) <=> p \in S[q]
      /\ IsTold(p, o)' <=> p \in L[q]
  BY <1>2, <1>3, <1>5 DEF Told, IsTold, Counted
<1>7. /\ q # m.partition => L[q] = S[q]
      /\ q = m.partition /\ m.entered => L[q] = S[q] \union {p}
      /\ q = m.partition /\ ~m.entered => L[q] = S[q] \ {p}
  <2>1. L = Listed(S, m)
    BY <1>1, <1>2
  <2>2. CASE q = m.partition
    BY <1>3, <2>1, <2>2 DEF Listed
  <2>3. CASE q # m.partition
    BY <1>3, <2>1, <2>3 DEF Listed
  <2> QED
    BY <2>2, <2>3
<1>8. p \notin ctx[o].all_dead
  BY DEF DeadInv
<1>9. KnowsOnly(p, o) => KnowsOnly(p, o)'
  BY <1>4, <1>5, <1>6 DEF KnowsOnly
<1>10. CASE q = m.partition /\ m.entered /\ p \notin S[q]
  <2>1. Answers(o, ctx[o], m)
    BY <1>2, <1>3, <1>8, <1>10 DEF Answers
  <2>2. ctx'[o].out[p] = Append(ctx[o].out[p], Update(o, ctx[o]))
    BY <1>1, <1>3, <2>1
  <2>3. ctx[o].out[p] \in Seq(UpdateMessages) /\ Update(o, ctx[o]) \in UpdateMessages
    BY UpdatesOfNow, ZenonT(30) DEF OrderInv, OrderTypes, OrderContext, Posts
  <2>4. ctx'[o].out[p] # <<>>
    BY <2>2, <2>3
  <2>5. IsTold(p, o)'
    BY <1>6, <1>7, <1>10
  <2> QED
    BY <1>9, <2>4, <2>5 DEF Reaches, KnowsNone
<1>11. CASE q = m.partition /\ ~m.entered
  <2>1. ~IsTold(p, o)'
    BY <1>6, <1>7, <1>11
  <2> QED
    BY <1>1, <1>9, <1>11, <2>1 DEF Reaches
<1>12. CASE q # m.partition \/ (m.entered /\ p \in S[q])
  <2>1. ~Answers(o, ctx[o], m)
    BY <1>2, <1>3, <1>12 DEF Answers
  <2>2. ctx'[o].out[p] = ctx[o].out[p]
    BY <1>1, <2>1
  <2>3. IsTold(p, o)' <=> IsTold(p, o)
    BY <1>6, <1>7, <1>12
  <2>4. Leaving(p, o) => Leaving(p, o)'
    <3>1. PICK f : f = mail.forward[o] OBVIOUS
    <3>2. f \in Seq(Changes) /\ f # <<>> /\ f[1] = m /\ mail'.forward[o] = Tail(f)
      BY <1>1, <1>3, <3>1
    <3>3. \A i \in DOMAIN f : i # 1 => i - 1 \in DOMAIN Tail(f) /\ Tail(f)[i - 1] = f[i]
      BY <3>2
    <3>4. m \notin Leaves(p, q)
      BY <1>12 DEF Leaves
    <3>5. ASSUME NEW i \in DOMAIN f, f[i] \in Leaves(p, q)
          PROVE  i - 1 \in DOMAIN Tail(f) /\ Tail(f)[i - 1] \in Leaves(p, q)
      BY <3>2, <3>3, <3>4, <3>5
    <3>6. Told(ctx[o]).part = q /\ Told(ctx[o])'.part = q
      BY <1>6
    <3> QED
      BY <3>1, <3>2, <3>5, <3>6 DEF Leaving
  <2>5. PairKept(p, o)
    BY <1>4, <1>5, <1>6, <2>2, <2>3, <2>4 DEF PairKept
  <2> QED
    BY <2>5, KeptPair
<1> QED
  BY <1>10, <1>11, <1>12

\* p looks at the row of a partition, and pulls what exited PEs left in it.
LEMMA LearningPair ==
  ASSUME IInv, OrderInv, SubTypes, NEW p \in PEs, NEW r \in Parts, Learns(p, r),
         NEW o \in PEs
  PROVE  /\ InLoop(ctx[o]) => PairKept(p, o)
         /\ KnowsOnly(p, o) => KnowsOnly(p, o)'
<1>1. PICK S : /\ S \in SUBSET dir.terminated[r]
               /\ ctx'[p].mirror = PullVertices(ctx[p], S, r)
  BY DEF Learns
<1>2. ctx'[p].mirror[o] = IF o \in S /\ dir.vertex_partitions[o] = r
                          THEN Accepted(ctx[p].subscribed, ctx[o].part, ctx[o].ver)
                          ELSE ctx[p].mirror[o]
  BY <1>1 DEF PullVertices
<1>3. o \in S => ~InLoop(ctx[o])
  BY <1>1 DEF OrderInv, Live, InLoop
<1>4. CASE ctx'[p].mirror[o] = ctx[p].mirror[o]
  <2>1. PairKept(p, o)
    BY <1>4, LearnPair
  <2> QED
    BY <2>1, KeptPair
<1>5. CASE ctx'[p].mirror[o] # ctx[p].mirror[o]
  <2>1. o \in S /\ ctx'[p].mirror[o] = Accepted(ctx[p].subscribed, ctx[o].part, ctx[o].ver)
    BY <1>2, <1>5
  <2>2. ~InLoop(ctx[o])
    BY <1>3, <2>1
  <2>3. ctx[o].needs_send = FALSE
    BY <2>2 DEF SubTypes, SubContext, InWindow, InLoop
  <2>4. \A f \in {"part", "prev_part", "ver", "needs_send"} : ctx'[o][f] = ctx[o][f]
    BY DEF Learns, Only, Same, Fields
  <2>5. Told(ctx[o])' = Told(ctx[o]) /\ Told(ctx[o]) = [part |-> ctx[o].part, ver |-> ctx[o].ver]
    BY <2>3, <2>4 DEF Told
  <2>6. ctx'[p].mirror[o] \in {None, Told(ctx[o])}
    BY <2>1, <2>5 DEF Accepted
  <2>7. mail'.update[p] = mail.update[p]
    BY DEF Learns
  <2>8. KnowsOnly(p, o) => Ends(mail.update[p], o, ctx'[p].mirror[o], {None, Told(ctx[o])})
    BY <2>6, EndsMore DEF KnowsOnly
  <2> QED
    BY <2>2, <2>5, <2>7, <2>8 DEF KnowsOnly
<1> QED
  BY <1>4, <1>5

\* Of a producer that stays where it is, p knows where it is counted.
LEMMA StillKnown ==
  ASSUME OrderInv, SubTypes, StillInv, NEW p \in PEs, NEW o \in PEs, InLoop(ctx[p]),
         StaysPut(ctx[o].app), IsTold(p, o), ~Leaving(p, o)
  PROVE  o \in ctx[p].producer_info[Told(ctx[o]).part].pes
<1>1. /\ ctx[o].part \in Parts /\ ctx[o].prev_part \in {ctx[o].part, HVR_INVALID_PARTITION}
      /\ Told(ctx[o]).part \in Parts
  BY DEF StillInv, IsTold, OrderInv, OrderTypes
<1>2. Told(ctx[o]).part = ctx[o].part
  BY <1>1, SubscriptionsAssumption DEF Told
<1>3. Counted(p, o, ctx[o].part) /\ \A i \in DOMAIN mail.forward[o] :
                                       mail.forward[o][i] \notin Leaves(p, ctx[o].part)
  BY <1>2 DEF IsTold, Leaving
<1>4. Counts(p, o, ctx[o].part)
  BY <1>3 DEF Counts, Outcome
<1> QED
  BY <1>2, <1>4 DEF StillInv

\* Who is counted, and is not leaving, takes updates as one that subscribes.
LEMMA ToldSubscribe ==
  ASSUME OrderInv, SubTypes, DirInv, WindowInv, StillInv, NEW p \in PEs, NEW o \in PEs,
         InLoop(ctx[p]), ~InWindow(ctx[p]), FixedEnd(ctx[p].app, ctx[o].app),
         IsTold(p, o), ~Leaving(p, o)
  PROVE  Told(ctx[o]).part \in ctx[p].subscribed
<1>1. PICK q \in Parts : q = Told(ctx[o]).part
  BY DEF IsTold
<1>2. CASE KeepsWindow(ctx[p].app)
  BY <1>1, <1>2 DEF WindowInv, WindowKept, EntersOnlyIn, IsTold
<1>3. CASE StaysPut(ctx[o].app)
  <2>1. o \in ctx[p].producer_info[q].pes
    BY <1>1, <1>3, StillKnown
  <2>2. q \in Believed(ctx[p])
    BY <1>1, <2>1 DEF DirInv, Row
  <2> QED
    BY <1>1, <2>2 DEF Believed, InWindow
<1> QED
  BY <1>2, <1>3 DEF FixedEnd

\* p leaves a partition.  Where it was told of a vertex there, it tells the owner.
LEMMA DroppingPair ==
  ASSUME IInv, OrderInv, SubTypes, DirInv, WindowInv, StillInv,
         NEW p \in PEs, InLoop(ctx[p]), NEW r \in Parts, handle_new_unsubscription(p, r),
         NEW o \in PEs, p # o
  PROVE  /\ FixedEnd(ctx[p].app, ctx[o].app) /\ Reaches(p, o) => Reaches(p, o)'
         /\ KnowsOnly(p, o) => KnowsOnly(p, o)'
         /\ KnowsNone(p, o) => KnowsNone(p, o)'
<1>1. /\ Only(p, {"todo", "mirror", "producer_info", "dead_info"})
      /\ ctx[p].pc = "unsubscribe" /\ r \in ctx[p].todo
      /\ ctx'[p].mirror = Dropped(ctx[p], p, r)
      /\ mail'.forward = SendAll(mail.forward, ctx[p].producer_info[r].pes, Change(p, r, FALSE))
      /\ mail'.update = mail.update
  BY UnsubscriptionIs
<1>2. ctx'[p].mirror[o] = IF ctx[p].mirror[o] # None /\ ctx[p].mirror[o].part = r
                          THEN None ELSE ctx[p].mirror[o]
  BY <1>1 DEF Dropped
<1>3. ctx'[o] = ctx[o]
  BY <1>1 DEF Only
<1>4. Told(ctx[o])' = Told(ctx[o]) /\ (IsTold(p, o)' <=> IsTold(p, o))
  BY <1>3 DEF Told, IsTold, Counted
<1>5. CASE ctx'[p].mirror[o] = ctx[p].mirror[o]
  <2>1. PairKept(p, o)
    BY <1>5, LearnPair
  <2> QED
    BY <2>1, KeptPair
<1>6. CASE ctx'[p].mirror[o] # ctx[p].mirror[o]
  <2>1. ctx'[p].mirror[o] = None /\ ctx[p].mirror[o].part = r
    BY <1>2, <1>6
  <2>2. /\ KnowsOnly(p, o) => KnowsOnly(p, o)'
        /\ KnowsNone(p, o) => KnowsNone(p, o)'
    BY <1>1, <1>3, <1>4, <2>1, EndsMore DEF KnowsOnly, KnowsNone
  <2>3. ASSUME FixedEnd(ctx[p].app, ctx[o].app), Reaches(p, o), IsTold(p, o)', ~Leaving(p, o)'
        PROVE  \/ ctx'[o].out[p] # <<>>
               \/ Ends(mail'.update[p], o, ctx'[p].mirror[o], {Told(ctx[o])})
    <3>1. PICK t \in BOOLEAN : t = FALSE OBVIOUS
    <3>2. FrontKept(o)
      BY <1>1, <3>1, SendingFront
    <3>3. IsTold(p, o) /\ ~Leaving(p, o)
      BY <1>4, <2>3, <3>2 DEF Leaving, FrontKept
    <3>4. CASE ctx[p].mirror[o] # Told(ctx[o])
      BY <1>1, <1>3, <2>3, <3>3, <3>4, EndsMore DEF Reaches
    <3>5. CASE ctx[p].mirror[o] = Told(ctx[o])
      <4>1. Told(ctx[o]).part = r
        BY <2>1, <3>5
      <4>2. CASE KeepsWindow(ctx[p].app)
        BY <1>1, <4>2 DEF WindowInv, WindowKept, Visiting, SubTypes, SubContext
      <4>3. CASE StaysPut(ctx[o].app)
        <5>1. o \in ctx[p].producer_info[r].pes
          BY <3>3, <4>1, <4>3, StillKnown
        <5>2. PICK m, f : m = Change(p, r, FALSE) /\ f = mail.forward[o] OBVIOUS
        <5>3. m \in Changes /\ m \in Leaves(p, r) /\ f \in Seq(Changes)
          BY <5>2 DEF Change, Changes, Leaves, SubTypes
        <5>4. mail'.forward[o] = Append(f, m)
          BY <1>1, <5>1, <5>2 DEF SendAll
        <5>5. /\ Len(f) + 1 \in DOMAIN mail'.forward[o]
              /\ mail'.forward[o][Len(f) + 1] = m
          BY <5>3, <5>4
        <5>6. Leaving(p, o)'
          BY <1>4, <4>1, <5>3, <5>5 DEF Leaving
        <5> QED
          BY <2>3, <5>6
      <4> QED
        BY <2>3, <4>2, <4>3 DEF FixedEnd
    <3> QED
      BY <3>4, <3>5
  <2> QED
    BY <1>4, <2>2, <2>3 DEF Reaches
<1> QED
  BY <1>5, <1>6

\* p takes an update.
LEMMA TakingPair ==
  ASSUME IInv, OrderInv, SubTypes, DirInv, WindowInv, StillInv,
         NEW p \in PEs, InLoop(ctx[p]), TakeUpdate(p), NEW o \in PEs, p # o
  PROVE  /\ FixedEnd(ctx[p].app, ctx[o].app) /\ Reaches(p, o) => Reaches(p, o)'
         /\ KnowsOnly(p, o) => KnowsOnly(p, o)'
         /\ KnowsNone(p, o) => KnowsNone(p, o)'
<1>1. PICK m, f, k, l : m = Head(f) /\ f = mail.update[p] /\ k = ctx[p].mirror[o]
                        /\ l = ctx'[p].mirror[o]
  OBVIOUS
<1>2. /\ Only(p, {"mirror"}) /\ ctx[p].pc = "recv" /\ f # <<>>
      /\ mail'.update = [mail.update EXCEPT ![p] = Tail(@)]
      /\ mail'.forward = mail.forward
      /\ ctx'[p].mirror = [ctx[p].mirror EXCEPT ![m.owner] =
           IF m.invalid THEN None ELSE Accepted(ctx[p].subscribed, m.part, m.ver)]
  BY <1>1, TakeUpdateIs
<1>3. f \in Seq(UpdateMessages) /\ mail'.update[p] = Tail(f)
  BY <1>1, <1>2 DEF OrderInv, OrderTypes
<1>4. /\ m.owner # o => l = k
      /\ m.owner = o => l = IF m.invalid THEN None ELSE Accepted(ctx[p].subscribed, m.part, m.ver)
  BY <1>1, <1>2 DEF OrderInv, OrderTypes
<1>5. /\ m.owner = o /\ Seen(m) = None => l = None
      /\ m.owner = o => l \in {None, Seen(m)}
      /\ m.owner = o /\ Seen(m) # None /\ Seen(m).part \in ctx[p].subscribed => l = Seen(m)
  BY <1>4 DEF Seen, Accepted, None
<1>6. ctx'[o] = ctx[o]
  BY <1>2 DEF Only
<1>7. /\ Told(ctx[o])' = Told(ctx[o]) /\ (IsTold(p, o)' <=> IsTold(p, o))
      /\ Leaving(p, o)' <=> Leaving(p, o)
  BY <1>2, <1>6 DEF Told, IsTold, Leaving, Counted
<1>8. PICK T : T = Told(ctx[o]) OBVIOUS
<1>9. KnowsOnly(p, o) => KnowsOnly(p, o)'
  <2>1. ASSUME Ends(f, o, k, {None, T}) PROVE Ends(Tail(f), o, l, {None, T})
    BY <1>1, <1>2, <1>3, <1>4, <1>5, <2>1, EndsTail
  <2> QED
    BY <1>1, <1>3, <1>7, <1>8, <2>1 DEF KnowsOnly
<1>10. KnowsNone(p, o) => KnowsNone(p, o)'
  <2>1. ASSUME Ends(f, o, k, {None}) PROVE Ends(Tail(f), o, l, {None})
    BY <1>1, <1>2, <1>3, <1>4, <1>5, <2>1, EndsTail
  <2> QED
    BY <1>1, <1>3, <1>6, <1>7, <2>1 DEF KnowsNone
<1>11. ASSUME FixedEnd(ctx[p].app, ctx[o].app), Reaches(p, o) PROVE Reaches(p, o)'
  <2>1. ASSUME IsTold(p, o), ~Leaving(p, o), Ends(f, o, k, {T}) PROVE Ends(Tail(f), o, l, {T})
    <3>1. T.part \in ctx[p].subscribed
      BY <1>2, <1>8, <1>11, <2>1, ToldSubscribe DEF InWindow
    <3>2. T # None
      BY <1>8 DEF Told, None
    <3>3. m.owner # o /\ k \in {T} => l \in {T}
      BY <1>4
    <3>4. m.owner = o /\ Seen(m) \in {T} => l \in {T}
      BY <1>5, <3>1, <3>2
    <3> QED
      BY <1>1, <1>2, <1>3, <2>1, <3>3, <3>4, EndsTail
  <2> QED
    BY <1>1, <1>3, <1>6, <1>7, <1>8, <1>11, <2>1 DEF Reaches
<1> QED
  BY <1>9, <1>10, <1>11

\* Every step keeps what is kept between a subscriber and a producer.
LEMMA PairNext ==
  ASSUME IInv, OrderInv, SubTypes, DirInv, DeadInv, WindowInv, StillInv, AnswersInv,
         NEW a \in PEs, Step(a), NEW p \in PEs, NEW o \in PEs, p # o, InLoop(ctx[p])
  PROVE  /\ FixedEnd(ctx[p].app, ctx[o].app) /\ InLoop(ctx[o]) /\ Reaches(p, o) => Reaches(p, o)'
         /\ KeepsWindow(ctx[p].app) /\ KnowsOnly(p, o) /\ (InLoop(ctx[o]) => KnowsNone(p, o)) =>
              KnowsOnly(p, o)' /\ (InLoop(ctx[o]) => KnowsNone(p, o)')
<1>1. CASE PairKept(p, o)
  BY <1>1, KeptPair
<1>2. CASE Plain(a) \/ TakeDead(a) \/ \E q \in ctx[a].app.goes[ctx[a].part] : ChangeVertex(a, q)
  <2>1. PairKept(p, o)
    BY <1>2, PlainPair, DeadPair, ChangePair
  <2> QED
    BY <1>1, <2>1
<1>3. CASE Send(a)
  <2>1. CASE a # o
    BY <1>1, <1>3, <2>1, OthersSendPair
  <2>2. CASE a = o
    <3>1. InLoop(ctx[o])
      BY <1>3, <2>2 DEF Send, At, InLoop
    <3> QED
      BY <1>3, <2>2, <3>1, SendPair
  <2> QED
    BY <2>1, <2>2
<1>4. CASE TakeSubscription(a)
  <2>1. CASE a # o \/ Head(mail.forward[a]).pe # p
    BY <1>1, <1>4, <2>1, OthersTakePair
  <2>2. CASE a = o /\ Head(mail.forward[o]).pe = p
    <3>1. /\ Reaches(p, o) => Reaches(p, o)'
          /\ KnowsOnly(p, o) => KnowsOnly(p, o)'
          /\ Head(mail.forward[o]).entered /\ KnowsNone(p, o) => KnowsNone(p, o)'
      BY <1>4, <2>2, TakesPair
    <3>2. KeepsWindow(ctx[p].app) => Head(mail.forward[o]).entered
      <4>1. mail.forward[o] # <<>> /\ mail.forward[o] \in Seq(Changes)
        BY <1>4, <2>2 DEF TakeSubscription, SubTypes
      <4>2. 1 \in DOMAIN mail.forward[o] /\ mail.forward[o][1] = Head(mail.forward[o])
        BY <4>1
      <4> QED
        BY <2>2, <4>2 DEF WindowInv, EntersOnlyIn, EntersOnly
    <3> QED
      BY <3>1, <3>2
  <2> QED
    BY <2>1, <2>2
<1>5. CASE TakeUpdate(a)
  <2>1. CASE a # p
    BY <1>1, <1>5, <2>1, TakeUpdatePair
  <2>2. CASE a = p
    BY <1>5, <2>2, TakingPair
  <2> QED
    BY <2>1, <2>2
<1>6. ASSUME NEW q \in Parts, Learns(a, q)
      PROVE  /\ FixedEnd(ctx[p].app, ctx[o].app) /\ InLoop(ctx[o]) /\ Reaches(p, o) => Reaches(p, o)'
             /\ KeepsWindow(ctx[p].app) /\ KnowsOnly(p, o) /\ (InLoop(ctx[o]) => KnowsNone(p, o)) =>
                  KnowsOnly(p, o)' /\ (InLoop(ctx[o]) => KnowsNone(p, o)')
  <2>1. CASE a # p
    <3>1. ctx'[p].mirror[o] = ctx[p].mirror[o]
      BY <1>6, <2>1 DEF Learns, Only
    <3> QED
      BY <1>1, <1>6, <3>1, LearnPair
  <2>2. CASE a = p
    BY <1>1, <1>6, <2>2, LearningPair
  <2> QED
    BY <2>1, <2>2
<1>7. ASSUME NEW q \in Parts, handle_new_unsubscription(a, q)
      PROVE  /\ FixedEnd(ctx[p].app, ctx[o].app) /\ InLoop(ctx[o]) /\ Reaches(p, o) => Reaches(p, o)'
             /\ KeepsWindow(ctx[p].app) /\ KnowsOnly(p, o) /\ (InLoop(ctx[o]) => KnowsNone(p, o)) =>
                  KnowsOnly(p, o)' /\ (InLoop(ctx[o]) => KnowsNone(p, o)')
  <2>1. CASE a # p
    <3>1. ctx'[p].mirror[o] = ctx[p].mirror[o]
      BY <1>7, <2>1, UnsubscriptionIs DEF Only
    <3> QED
      BY <1>1, <1>7, <3>1, LearnPair
  <2>2. CASE a = p
    BY <1>7, <2>2, DroppingPair
  <2> QED
    BY <2>1, <2>2
<1> QED
  BY <1>2, <1>3, <1>4, <1>5, <1>6, <1>7, MirrorSteps

\* Subscribers that are counted stay up to date, and those that keep their window
\* have nothing that is outdated.
LEMMA ReachNext ==
  ASSUME IInv, OrderInv, AgreeInv, ReachInv, KnownInv, AnswersInv, NEW a \in PEs, Step(a)
  PROVE  ReachInv' /\ KnownInv'
<1>1. \A r \in PEs : ctx'[r].app = ctx[r].app /\ (InLoop(ctx'[r]) => InLoop(ctx[r]))
  BY OthersStay DEF AgreeInv, Ages
<1>2. ASSUME NEW p \in PEs, NEW o \in PEs, p # o, InLoop(ctx[p])
      PROVE  /\ FixedEnd(ctx[p].app, ctx[o].app) /\ InLoop(ctx[o]) /\ Reaches(p, o) => Reaches(p, o)'
             /\ KeepsWindow(ctx[p].app) /\ KnowsOnly(p, o) /\ (InLoop(ctx[o]) => KnowsNone(p, o)) =>
                  KnowsOnly(p, o)' /\ (InLoop(ctx[o]) => KnowsNone(p, o)')
  BY <1>2, PairNext DEF AgreeInv
<1>3. ASSUME NEW p \in PEs, NEW o \in PEs,
             InLoop(ctx'[p]) /\ InLoop(ctx'[o]) /\ p # o /\ FixedEnd(ctx'[p].app, ctx'[o].app)
      PROVE  Reaches(p, o)'
  BY <1>1, <1>2, <1>3 DEF ReachInv
<1>4. ASSUME NEW p \in PEs, NEW o \in PEs,
             InLoop(ctx'[p]) /\ p # o /\ KeepsWindow(ctx'[p].app)
      PROVE  KnowsOnly(p, o)' /\ (InLoop(ctx'[o]) => KnowsNone(p, o)')
  BY <1>1, <1>2, <1>4 DEF KnownInv
<1> QED
  BY <1>3, <1>4 DEF ReachInv, KnownInv

\* What a step leaves of what p buffers: all, nothing, or an answer more
LEMMA OutSteps ==
  ASSUME IInv, OrderInv, SubTypes, DeadInv, NEW a \in PEs, Step(a), NEW o \in PEs, NEW p \in PEs
  PROVE  \/ ctx'[o].out[p] = ctx[o].out[p] /\ Told(ctx[o])' = Told(ctx[o])
         \/ ctx'[o].out[p] = <<>>
         \/ /\ a = o /\ p # o /\ ctx[o].needs_send = FALSE /\ Told(ctx[o])' = Told(ctx[o])
            /\ ctx'[o].out[p] = Append(ctx[o].out[p], Update(o, ctx[o]))
<1>1. CASE a # o
  <2>1. ctx'[o] = ctx[o]
    BY <1>1, OthersStay
  <2> QED
    BY <2>1 DEF Told
<1>2. CASE a = o /\ ~Send(o) /\ ~TakeSubscription(o)
  <2>1. CASE \E q \in ctx[o].app.goes[ctx[o].part] : ChangeVertex(o, q)
    <3>1. PairKept(p, o)
      BY <2>1, ChangePair
    <3> QED
      BY <3>1 DEF PairKept
  <2>2. CASE Plain(o)
    BY <2>2, PlainPair DEF PairKept
  <2>3. CASE TakeDead(o) \/ TakeUpdate(o) \/ \E q \in Parts : Learns(o, q) \/ handle_new_unsubscription(o, q)
    <3>1. \/ Only(o, {"all_dead", "remote_subs"}) \/ Only(o, {"mirror"})
          \/ Only(o, {"todo", "producer_info", "dead_info", "skip", "interval", "mirror"})
          \/ Only(o, {"todo", "mirror", "producer_info", "dead_info"})
      BY <2>3, TakeDeadIs, TakeUpdateIs, UnsubscriptionIs DEF Learns
    <3>2. \A f \in {"part", "prev_part", "ver", "needs_send", "out"} : ctx'[o][f] = ctx[o][f]
      BY <3>1 DEF Only, Same, Fields
    <3> QED
      BY <3>2 DEF Told
  <2> QED
    BY <1>2, <2>1, <2>2, <2>3, MirrorSteps
<1>3. CASE a = o /\ Send(o)
  <2>1. ctx'[o].out = [r \in PEs |-> <<>>]
    BY <1>3, SendIs
  <2> QED
    BY <2>1
<1>4. CASE a = o /\ TakeSubscription(o)
  <2>1. PICK m \in Changes :
          /\ Only(o, {"out", "remote_subs"}) /\ ctx[o].pc = "subs"
          /\ \A r \in PEs : ctx'[o].out[r] =
               IF Answers(o, ctx[o], m) /\ r = m.pe
               THEN Append(ctx[o].out[r], Update(o, ctx[o])) ELSE ctx[o].out[r]
    BY <1>4, TakesOne, ZenonT(30)
  <2>2. Told(ctx[o])' = Told(ctx[o]) /\ ctx[o].needs_send = FALSE
    BY <2>1 DEF Told, Only, Same, Fields, SubTypes, SubContext, InWindow
  <2>3. Answers(o, ctx[o], m) => m.pe # o
    BY DEF Answers
  <2> QED
    BY <1>4, <2>1, <2>2, <2>3
<1> QED
  BY <1>1, <1>2, <1>3, <1>4

\* Answers tell the state announced last.
LEMMA AnswersNext ==
  ASSUME IInv, OrderInv, SubTypes, DeadInv, AnswersInv, NEW a \in PEs, Step(a)
  PROVE  AnswersInv'
<1>1. ASSUME NEW o \in PEs, NEW p \in PEs, NEW i \in DOMAIN ctx'[o].out[p]
      PROVE  ~ctx'[o].out[p][i].invalid /\ Seen(ctx'[o].out[p][i]) = Told(ctx[o])'
  <2>1. CASE ctx'[o].out[p] = ctx[o].out[p] /\ Told(ctx[o])' = Told(ctx[o])
    BY <1>1, <2>1 DEF AnswersInv
  <2>2. CASE ctx'[o].out[p] = <<>>
    BY <1>1, <2>2
  <2>3. CASE /\ ctx[o].needs_send = FALSE /\ Told(ctx[o])' = Told(ctx[o])
             /\ ctx'[o].out[p] = Append(ctx[o].out[p], Update(o, ctx[o]))
    <3>1. PICK t, u : t = ctx[o].out[p] /\ u = Update(o, ctx[o]) OBVIOUS
    <3>2. t \in Seq(UpdateMessages) /\ u \in UpdateMessages
      BY <3>1, UpdatesOfNow DEF OrderInv, OrderTypes, OrderContext, Posts
    <3>3. ~u.invalid /\ Seen(u) = Told(ctx[o])
      BY <2>3, <3>1 DEF Update, Seen, Told
    <3>4. \/ i \in DOMAIN t /\ ctx'[o].out[p][i] = t[i]
          \/ ctx'[o].out[p][i] = u
      BY <1>1, <2>3, <3>1, <3>2
    <3> QED
      BY <2>3, <3>1, <3>3, <3>4 DEF AnswersInv
  <2> QED
    BY <2>1, <2>2, <2>3, OutSteps
<1> QED
  BY <1>1 DEF AnswersInv

\* What a step leaves in the mailbox of p: all, all but the first, or what another
\* PE or p itself has announced behind it
LEMMA BoxSteps ==
  ASSUME IInv, OrderInv, NEW a \in PEs, Step(a), NEW p \in PEs
  PROVE  \/ mail'.update[p] = mail.update[p]
         \/ a = p /\ mail.update[p] # <<>> /\ mail'.update[p] = Tail(mail.update[p])
         \/ mail'.update[p] = mail.update[p] \o Announces(a, ctx[a], p)
<1>1. CASE Send(a)
  BY <1>1, SendIs
<1>2. CASE TakeUpdate(a)
  <2>1. mail.update[a] # <<>> /\ mail'.update = [mail.update EXCEPT ![a] = Tail(@)]
    BY <1>2, TakeUpdateIs
  <2>2. mail.update \in [PEs -> Seq(UpdateMessages)]
    BY DEF OrderInv, OrderTypes
  <2> QED
    BY <2>1, <2>2
<1>3. CASE TakeSubscription(a)
  <2>1. mail'.update = mail.update
    BY <1>3, Shapes DEF TakeSubscription
  <2> QED
    BY <2>1
<1>4. CASE Plain(a) \/ TakeDead(a) \/ \E q \in ctx[a].app.goes[ctx[a].part] : ChangeVertex(a, q)
  BY <1>4, TakeDeadIs, ChangeIs DEF Plain
<1>5. ASSUME NEW q \in Parts, Learns(a, q) \/ handle_new_unsubscription(a, q)
      PROVE  mail'.update = mail.update
  BY <1>5, UnsubscriptionIs DEF Learns
<1> QED
  BY <1>1, <1>2, <1>3, <1>4, <1>5, MirrorSteps

\* What p has of o after a step: what it had, nothing, what an exited o left, or
\* the first update in its mailbox
LEMMA CachedSteps ==
  ASSUME IInv, OrderInv, SubTypes, DeadInv, NEW a \in PEs, Step(a), NEW p \in PEs, NEW o \in PEs
  PROVE  \/ ctx'[p].mirror[o] \in {ctx[p].mirror[o], None}
         \/ ~InLoop(ctx[o]) /\ ctx'[p].mirror[o] = StateOf(ctx[o])
         \/ /\ mail.update[p] # <<>> /\ Head(mail.update[p]).owner = o
            /\ ctx'[p].mirror[o] = StateOf(Head(mail.update[p]))
<1>1. CASE a # p \/ Plain(a) \/ TakeDead(a) \/ TakeSubscription(a) \/ Send(a)
           \/ \E q \in ctx[a].app.goes[ctx[a].part] : ChangeVertex(a, q)
  <2>1. CASE Plain(a)
    BY <2>1 DEF Plain
  <2>2. CASE a # p
    BY <2>2, OthersStay
  <2>3. CASE TakeDead(a) \/ TakeSubscription(a) \/ Send(a)
             \/ \E q \in ctx[a].app.goes[ctx[a].part] : ChangeVertex(a, q)
    <3>1. \/ Only(a, {"all_dead", "remote_subs"}) \/ Only(a, {"out", "remote_subs"})
          \/ Only(a, {"pc", "first", "needs_send", "out"})
          \/ Only(a, {"pc", "part", "prev_part", "ver", "needs_send"})
      BY <2>3, ChangeIs, SendIs, TakesOne, TakeDeadIs
    <3> QED
      BY <3>1 DEF Only, Same, Fields
  <2> QED
    BY <1>1, <2>1, <2>2, <2>3
<1>2. ASSUME a = p, NEW q \in Parts, Learns(p, q)
      PROVE  \/ ctx'[p].mirror[o] \in {ctx[p].mirror[o], None}
             \/ ~InLoop(ctx[o]) /\ ctx'[p].mirror[o] = StateOf(ctx[o])
  <2>1. PICK S : S \in SUBSET dir.terminated[q] /\ ctx'[p].mirror = PullVertices(ctx[p], S, q)
    BY <1>2 DEF Learns
  <2>2. o \in S => ~InLoop(ctx[o])
    BY <2>1 DEF OrderInv, Live, InLoop
  <2> QED
    BY <2>1, <2>2 DEF PullVertices, Accepted, StateOf
<1>3. ASSUME a = p, NEW q \in Parts, handle_new_unsubscription(p, q)
      PROVE  ctx'[p].mirror[o] \in {ctx[p].mirror[o], None}
  <2>1. ctx'[p].mirror = Dropped(ctx[p], p, q)
    BY <1>3, UnsubscriptionIs
  <2> QED
    BY <2>1 DEF Dropped
<1>4. ASSUME a = p, TakeUpdate(p)
      PROVE  \/ ctx'[p].mirror[o] \in {ctx[p].mirror[o], None}
             \/ /\ mail.update[p] # <<>> /\ Head(mail.update[p]).owner = o
                /\ ctx'[p].mirror[o] = StateOf(Head(mail.update[p]))
  <2>1. PICK m : m = Head(mail.update[p]) OBVIOUS
  <2>2. /\ mail.update[p] # <<>>
        /\ ctx'[p].mirror = [ctx[p].mirror EXCEPT ![m.owner] =
             IF m.invalid THEN None ELSE Accepted(ctx[p].subscribed, m.part, m.ver)]
    BY <1>4, <2>1, TakeUpdateIs
  <2>3. ctx[p].mirror \in [PEs -> Cached \union {None}]
    BY DEF OrderInv, OrderTypes
  <2>4. CASE m.owner = o
    BY <2>1, <2>2, <2>3, <2>4 DEF Accepted, StateOf
  <2>5. CASE m.owner # o
    BY <2>2, <2>3, <2>5
  <2> QED
    BY <2>4, <2>5
<1> QED
  BY <1>1, <1>2, <1>3, <1>4, MirrorSteps

\* A live PE gets no updates of its own vertex.
LEMMA SelfNext ==
  ASSUME IInv, OrderInv, SubTypes, DeadInv, SelfInv, NEW a \in PEs, Step(a)
  PROVE  SelfInv'
<1>1. ASSUME NEW p \in PEs PROVE ctx'[p].out[p] = <<>>
  BY OutSteps DEF SelfInv
<1>2. ASSUME NEW p \in PEs, NEW i \in DOMAIN mail'.update[p]
      PROVE  mail'.update[p][i].owner # p
  <2>1. PICK f : f = mail.update[p] OBVIOUS
  <2>2. f \in Seq(UpdateMessages) /\ \A j \in DOMAIN f : f[j].owner # p
    BY <2>1 DEF OrderInv, OrderTypes, SelfInv
  <2>3. CASE mail'.update[p] = f
    BY <1>2, <2>2, <2>3
  <2>4. CASE f # <<>> /\ mail'.update[p] = Tail(f)
    BY <1>2, <2>2, <2>4
  <2>5. CASE mail'.update[p] = f \o Announces(a, ctx[a], p)
    <3>1. PICK g : g = Announces(a, ctx[a], p) OBVIOUS
    <3>2. g \in Seq(UpdateMessages) /\ OnlyOf(g, a) /\ (a = p => g = <<>>)
      BY <3>1, AnnouncesIs DEF SelfInv
    <3>3. \A j \in DOMAIN g : g[j].owner # p
      BY <3>2 DEF OnlyOf
    <3>4. \/ i \in DOMAIN f /\ mail'.update[p][i] = f[i]
          \/ i - Len(f) \in DOMAIN g /\ mail'.update[p][i] = g[i - Len(f)]
      BY <1>2, <2>2, <2>5, <3>1, <3>2
    <3> QED
      BY <2>2, <3>3, <3>4
  <2> QED
    BY <2>1, <2>3, <2>4, <2>5, BoxSteps
<1>3. ASSUME NEW p \in PEs, InLoop(ctx'[p]) PROVE ctx'[p].mirror[p] = None
  <2>1. InLoop(ctx[p])
    BY <1>3, OthersStay DEF Ages
  <2>2. ctx[p].mirror[p] = None
    BY <2>1 DEF SelfInv
  <2>3. mail.update[p] # <<>> => Head(mail.update[p]).owner # p
    <3>1. PICK f : f = mail.update[p] OBVIOUS
    <3>2. f \in Seq(UpdateMessages) /\ \A j \in DOMAIN f : f[j].owner # p
      BY <3>1 DEF OrderInv, OrderTypes, SelfInv
    <3>3. f # <<>> => 1 \in DOMAIN f /\ Head(f) = f[1]
      BY <3>2
    <3> QED
      BY <3>1, <3>2, <3>3
  <2> QED
    BY <2>1, <2>2, <2>3, CachedSteps
<1> QED
  BY <1>1, <1>2, <1>3 DEF SelfInv

\* Neither the application nor, for a vertex that stays, its partition changes.
LEMMA PastStays ==
  ASSUME IInv, OrderInv, SubTypes, DeadInv, StillInv, NEW a \in PEs, Step(a), NEW o \in PEs
  PROVE  Past(ctx'[o]) = Past(ctx[o])
<1>1. ctx'[o].app = ctx[o].app
  BY OthersStay
<1>2. StaysPut(ctx[o].app) => ctx'[o].part = ctx[o].part
  BY StillStays
<1> QED
  BY <1>1, <1>2 DEF Past

\* A vertex that changes may change.
LEMMA StateNext ==
  ASSUME IInv, OrderInv, SubTypes, DeadInv, StillInv, SeenInv, NEW a \in PEs, Step(a), NEW o \in PEs
  PROVE  StateOf(ctx'[o]) \in Past(ctx[o])
<1>1. StateOf(ctx[o]) \in Past(ctx[o])
  BY DEF SeenInv
<1>2. CASE ctx'[o].part = ctx[o].part /\ ctx'[o].ver = ctx[o].ver
  BY <1>1, <1>2 DEF StateOf
<1>3. ASSUME a = o, NEW q \in ctx[o].app.goes[ctx[o].part], ChangeVertex(o, q)
      PROVE  StateOf(ctx'[o]) \in Past(ctx[o])
  <2>1. /\ ctx'[o].part = q /\ ctx'[o].ver = ctx[o].ver + 1
        /\ ctx[o].ver < ctx[o].app.changes
    BY <1>3, ChangeIs
  <2>2. ctx[o].ver \in Nat /\ ctx[o].app \in Application /\ ctx[o].part \in Parts
    BY DEF OrderInv, OrderTypes
  <2>3. q \in Parts
    BY <1>3, <2>2 DEF Application
  <2>4. StaysPut(ctx[o].app) => q = ctx[o].part
    BY <2>1, StillStays
  <2> QED
    BY <2>1, <2>2, <2>3, <2>4 DEF Past, StateOf, Cached
<1>4. CASE a = o /\ (StaysAsItIs(o) \/ Publish(o) \/ Send(o))
  <2>1. CASE StaysAsItIs(o)
    BY <1>2, <2>1 DEF StaysAsItIs
  <2>2. CASE Publish(o) \/ Send(o)
    <3>1. \/ Only(o, {"pc", "produced", "new_subscribed", "todo"})
          \/ Only(o, {"pc", "first", "needs_send", "out"})
      BY <2>2, PublishIs, SendIs
    <3> QED
      BY <1>2, <3>1 DEF Only, Same, Fields
  <2> QED
    BY <1>4, <2>1, <2>2
<1>5. CASE a # o
  BY <1>2, <1>5, OthersStay
<1> QED
  BY <1>3, <1>4, <1>5, VertexSteps

\* Only states that a vertex may have been in are sent and cached.
LEMMA SeenNext ==
  ASSUME IInv, OrderInv, SubTypes, DeadInv, StillInv, SeenInv, NEW a \in PEs, Step(a)
  PROVE  SeenInv'
<1>1. \A o \in PEs : Past(ctx'[o]) = Past(ctx[o])
  BY PastStays
<1>2. ASSUME NEW o \in PEs PROVE StateOf(ctx'[o]) \in Past(ctx'[o])
  BY <1>1, StateNext
<1>3. \A o \in PEs : /\ StateOf(Update(o, ctx[o])) = StateOf(ctx[o])
                     /\ StateOf(Invalidate(o, ctx[o])) = StateOf(ctx[o])
  BY DEF StateOf, Update, Invalidate
<1>4. ASSUME NEW o \in PEs, NEW p \in PEs, NEW i \in DOMAIN ctx'[o].out[p]
      PROVE  StateOf(ctx'[o].out[p][i]) \in Past(ctx'[o])
  <2>1. CASE ctx'[o].out[p] = ctx[o].out[p]
    BY <1>1, <1>4, <2>1 DEF SeenInv
  <2>2. CASE ctx'[o].out[p] = <<>>
    BY <1>4, <2>2
  <2>3. CASE ctx'[o].out[p] = Append(ctx[o].out[p], Update(o, ctx[o]))
    <3>1. PICK t, u : t = ctx[o].out[p] /\ u = Update(o, ctx[o]) OBVIOUS
    <3>2. t \in Seq(UpdateMessages) /\ u \in UpdateMessages
      BY <3>1, UpdatesOfNow, ZenonT(30) DEF OrderInv, OrderTypes, OrderContext, Posts
    <3>3. \/ i \in DOMAIN t /\ ctx'[o].out[p][i] = t[i]
          \/ ctx'[o].out[p][i] = u
      BY <1>4, <2>3, <3>1, <3>2
    <3> QED
      BY <1>1, <1>3, <3>1, <3>3 DEF SeenInv
  <2> QED
    BY <2>1, <2>2, <2>3, OutSteps
<1>5. ASSUME NEW p \in PEs, NEW i \in DOMAIN mail'.update[p]
      PROVE  StateOf(mail'.update[p][i]) \in Past(ctx'[mail'.update[p][i].owner])
  <2>1. PICK f : f = mail.update[p] OBVIOUS
  <2>2. /\ f \in Seq(UpdateMessages)
        /\ \A j \in DOMAIN f : StateOf(f[j]) \in Past(ctx'[f[j].owner])
    <3>1. f \in Seq(UpdateMessages)
      BY <2>1 DEF OrderInv, OrderTypes
    <3>2. ASSUME NEW j \in DOMAIN f PROVE StateOf(f[j]) \in Past(ctx'[f[j].owner])
      <4>1. f[j] \in UpdateMessages
        BY <3>1
      <4>2. f[j].owner \in PEs
        BY <4>1 DEF UpdateMessages
      <4> QED
        BY <1>1, <2>1, <4>2 DEF SeenInv
    <3> QED
      BY <3>1, <3>2
  <2>3. CASE mail'.update[p] = f
    BY <1>5, <2>2, <2>3
  <2>4. CASE f # <<>> /\ mail'.update[p] = Tail(f)
    BY <1>5, <2>2, <2>4
  <2>5. CASE mail'.update[p] = f \o Announces(a, ctx[a], p)
    <3>1. PICK c : c = ctx[a] OBVIOUS
    <3>2. PICK g : g = Announces(a, c, p) OBVIOUS
    <3>3. g \in Seq(UpdateMessages) /\ OnlyOf(g, a)
      BY <3>1, <3>2, AnnouncesIs
    <3>4. MadeBy(g, a)
      BY <3>1, <3>2, AnnouncesMade
    <3>5. ASSUME NEW j \in DOMAIN g PROVE StateOf(g[j]) \in Past(ctx'[g[j].owner])
      <4>1. g[j].owner = a
        BY <3>3 DEF OnlyOf
      <4>2. StateOf(g[j]) \in Past(ctx[a])
        BY <1>3, <3>4 DEF SeenInv, MadeBy
      <4> QED
        BY <1>1, <4>1, <4>2
    <3>6. \/ i \in DOMAIN f /\ mail'.update[p][i] = f[i]
          \/ i - Len(f) \in DOMAIN g /\ mail'.update[p][i] = g[i - Len(f)]
      BY <1>5, <2>2, <2>5, <3>1, <3>2, <3>3
    <3> QED
      BY <2>2, <3>5, <3>6
  <2> QED
    BY <2>1, <2>3, <2>4, <2>5, BoxSteps
<1>6. ASSUME NEW p \in PEs, NEW o \in PEs, ctx'[p].mirror[o] # None
      PROVE  ctx'[p].mirror[o] \in Past(ctx'[o])
  <2>1. CASE ctx'[p].mirror[o] = ctx[p].mirror[o]
    BY <1>1, <1>6, <2>1 DEF SeenInv
  <2>2. CASE ctx'[p].mirror[o] = StateOf(ctx[o])
    BY <1>1, <2>2 DEF SeenInv
  <2>3. CASE /\ mail.update[p] # <<>> /\ Head(mail.update[p]).owner = o
             /\ ctx'[p].mirror[o] = StateOf(Head(mail.update[p]))
    <3>1. PICK f : f = mail.update[p] OBVIOUS
    <3>2. f \in Seq(UpdateMessages) /\ f # <<>>
      BY <2>3, <3>1 DEF OrderInv, OrderTypes
    <3>3. 1 \in DOMAIN f /\ Head(f) = f[1]
      BY <3>2
    <3> QED
      BY <1>1, <2>3, <3>1, <3>3 DEF SeenInv
  <2> QED
    BY <1>6, <2>1, <2>2, <2>3, CachedSteps
<1> QED
  BY <1>2, <1>4, <1>5, <1>6 DEF SeenInv

\* The strengthening is inductive.
LEMMA MirrorNext ==
  IInv /\ OrderInv /\ AgreeInv /\ MirrorInv /\ [Next]_vars => MirrorInv'
<1> SUFFICES ASSUME IInv, OrderInv, AgreeInv, MirrorInv, [Next]_vars PROVE MirrorInv'
  OBVIOUS
<1>1. CASE UNCHANGED vars
  <2>1. ctx' = ctx /\ mail' = mail
    BY <1>1 DEF vars
  <2>2. ReachInv' /\ KnownInv' /\ AnswersInv'
    BY <2>1 DEF MirrorInv, ReachInv, KnownInv, AnswersInv, Reaches, KnowsOnly, KnowsNone,
                IsTold, Leaving, Counted
  <2> QED
    BY <2>1, <2>2 DEF MirrorInv, SelfInv, SeenInv
<1>2. ASSUME NEW a \in PEs, Step(a) PROVE MirrorInv'
  <2>1. /\ SubTypes /\ DeadInv /\ StillInv
        /\ ReachInv /\ KnownInv /\ AnswersInv /\ SelfInv /\ SeenInv
    BY DEF AgreeInv, MirrorInv
  <2>2. ReachInv' /\ KnownInv' /\ AnswersInv'
    BY <1>2, <2>1, ReachNext, AnswersNext
  <2>3. SelfInv' /\ SeenInv'
    BY <1>2, <2>1, SelfNext, SeenNext
  <2> QED
    BY <2>2, <2>3 DEF MirrorInv
<1> QED
  BY <1>1, <1>2 DEF Next

\* A PE that is about to start has nothing cached and has told nothing.
FreshCache(c) ==
  /\ c.pc = "publish" /\ c.part \in Parts /\ c.prev_part = HVR_INVALID_PARTITION
  /\ c.needs_send = TRUE /\ c.ver = 0
  /\ c.mirror = [o \in PEs |-> None] /\ c.out = [o \in PEs |-> <<>>]

\* Nobody has anything cached, or on its way, when the program starts.
LEMMA FreshMirror ==
  ASSUME \A p \in PEs : FreshCache(ctx[p]), mail.update = [p \in PEs |-> <<>>]
  PROVE  MirrorInv
<1>1. ASSUME NEW p \in PEs
      PROVE  /\ InLoop(ctx[p]) /\ ctx[p].part \in Parts /\ ctx[p].ver = 0
             /\ Told(ctx[p]).part \notin Parts
             /\ \A o \in PEs : ctx[p].mirror[o] = None /\ ctx[p].out[o] = <<>>
  <2>1. FreshCache(ctx[p])
    OBVIOUS
  <2> QED
    BY <2>1, SubscriptionsAssumption DEF FreshCache, InLoop, Told
<1>2. \A p \in PEs : mail.update[p] = <<>>
  OBVIOUS
<1>3. ASSUME NEW p \in PEs, NEW o \in PEs, NEW K, None \in K
      PROVE  Ends(mail.update[p], o, ctx[p].mirror[o], K)
  BY <1>1, <1>2, <1>3 DEF Ends
<1>4. ASSUME NEW p \in PEs, NEW o \in PEs
      PROVE  Reaches(p, o) /\ KnowsOnly(p, o) /\ KnowsNone(p, o)
  <2>1. ~IsTold(p, o)
    BY <1>1 DEF IsTold
  <2>2. None \in {None} /\ None \in {None, Told(ctx[o])}
    OBVIOUS
  <2> QED
    BY <1>1, <1>3, <2>1, <2>2 DEF Reaches, KnowsOnly, KnowsNone
<1>5. AnswersInv /\ SelfInv
  BY <1>1, <1>2 DEF AnswersInv, SelfInv
<1>6. SeenInv
  <2>1. ASSUME NEW o \in PEs PROVE StateOf(ctx[o]) \in Past(ctx[o])
    BY <1>1 DEF StateOf, Past, Cached
  <2> QED
    BY <1>1, <1>2, <2>1 DEF SeenInv
<1> QED
  BY <1>4, <1>5, <1>6 DEF MirrorInv, ReachInv, KnownInv

\* So it is in the initial states.
LEMMA InitMirror == Init => MirrorInv
<1> SUFFICES ASSUME NEW program \in Programs, ctx = [p \in PEs |-> Fresh(program[p])], Init
             PROVE  MirrorInv
  BY DEF Init
<1>1. ASSUME NEW p \in PEs
      PROVE  program[p] \in Application /\ program[p].starts \in Parts
  <2>1. program[p] \in Application
    BY SubscriptionsAssumption
  <2> QED
    BY <2>1 DEF Application
<1>2. mail.update = [p \in PEs |-> <<>>]
  BY DEF Init
<1>3. PICK c : c = ctx OBVIOUS
<1>4. \A p \in PEs : FreshCache(c[p])
  BY <1>1, <1>3 DEF Fresh, FreshCache
<1> QED
  BY <1>2, <1>3, <1>4, FreshMirror

\* When all is quiet, a PE has of live others what they are, and of all it subscribes to.
LEMMA QuietMirrors == IInv /\ OrderInv /\ AgreeInv /\ MirrorInv => MirrorsAreExact
<1> SUFFICES ASSUME IInv, OrderInv, AgreeInv, MirrorInv, Quiet, NEW p \in Live, NEW o \in PEs
             PROVE  /\ o \in Live \ {p} /\ ctx[o].part \in ctx[p].subscribed => Shows(p, o)
                    /\ ctx[p].mirror[o] # None /\ (o \in Live \/ KeepsWindow(ctx[p].app)) =>
                         Shows(p, o)
  BY DEF MirrorsAreExact
<1>1. /\ p \in PEs /\ InLoop(ctx[p]) /\ ctx[o].pc \in {"change", "gone"}
      /\ mail.update[p] = <<>>
  BY DEF Quiet, Live, InLoop
<1>2. ctx[o].needs_send = FALSE /\ ctx[o].part \in Parts
  BY <1>1 DEF AgreeInv, SubTypes, SubContext, InWindow, OrderInv, OrderTypes
<1>3. Told(ctx[o]) = StateOf(ctx[o])
  BY <1>2 DEF Told, StateOf
<1>4. Shows(p, o) <=> ctx[p].mirror[o] = StateOf(ctx[o])
  BY DEF Shows, StateOf
<1>5. \A K : Ends(mail.update[p], o, ctx[p].mirror[o], K) => ctx[p].mirror[o] \in K
  BY <1>1 DEF Ends
<1>6. p # o => FixedEnd(ctx[p].app, ctx[o].app)
  BY <1>1 DEF AgreeInv, AppsInv, HasFixedEnds
<1>7. ASSUME o \in Live, o # p, ctx[o].part \in ctx[p].subscribed
      PROVE  Shows(p, o)
  <2>1. p \in ctx[o].remote_subs[ctx[o].part]
    BY <1>7, QuietAgree DEF ListsAgree
  <2>2. IsTold(p, o)
    BY <1>2, <1>3, <2>1 DEF IsTold, Counted, StateOf
  <2>3. mail.forward[o] = <<>> /\ ctx[o].out[p] = <<>> /\ InLoop(ctx[o])
    BY <1>1, <1>7 DEF Quiet, Live, InLoop
  <2>4. ~Leaving(p, o)
    BY <2>3 DEF Leaving
  <2>5. Reaches(p, o)
    BY <1>1, <1>6, <1>7, <2>3 DEF MirrorInv, ReachInv
  <2> QED
    BY <1>3, <1>4, <1>5, <2>2, <2>3, <2>4, <2>5 DEF Reaches
<1>8. ASSUME ctx[p].mirror[o] # None, o \in Live \/ KeepsWindow(ctx[p].app)
      PROVE  Shows(p, o)
  <2>1. o # p
    BY <1>1, <1>8 DEF MirrorInv, SelfInv
  <2>2. CASE KeepsWindow(ctx[p].app)
    <3>1. KnowsOnly(p, o)
      BY <1>1, <2>1, <2>2 DEF MirrorInv, KnownInv
    <3> QED
      BY <1>3, <1>4, <1>5, <1>8, <3>1 DEF KnowsOnly
  <2>3. CASE StaysPut(ctx[o].app) /\ ~KeepsWindow(ctx[p].app)
    <3>1. /\ ctx[p].mirror[o] \in Past(ctx[o]) /\ StateOf(ctx[o]) \in Past(ctx[o])
      BY <1>1, <1>8 DEF MirrorInv, SeenInv
    <3>2. /\ ctx[p].mirror[o] \in Cached /\ ctx[p].mirror[o].part = ctx[o].part
          /\ StateOf(ctx[o]) \in Cached
      BY <2>3, <3>1 DEF Past
    <3>3. o \in Live
      BY <1>8, <2>3
    <3>4. ctx[p].mirror[o].part \in ctx[p].subscribed
      BY <1>1, <1>8 DEF IInv, MirrorsKept
    <3> QED
      BY <1>7, <2>1, <3>2, <3>3, <3>4
  <2> QED
    BY <1>6, <2>1, <2>2, <2>3 DEF FixedEnd
<1> QED
  BY <1>7, <1>8

\* In programs with fixed ends, whatever changes and whoever exits: whenever all is quiet,
\* what a PE has of the vertices of live PEs is what they are, and it has all of those in
\* partitions it subscribes to; who keeps its window has nothing outdated of exited PEs
\* either.
THEOREM MirrorsExact ==
  ASSUME \A program \in Programs : HasFixedEnds(program)
  PROVE  Spec => []MirrorsAreExact
<1>1. Init => IInv /\ OrderInv /\ AgreeInv /\ MirrorInv
  BY InitIInv, InitOrder, InitAgree, InitMirror
<1>2. IInv /\ OrderInv /\ AgreeInv /\ MirrorInv /\ [Next]_vars =>
        IInv' /\ OrderInv' /\ AgreeInv' /\ MirrorInv'
  BY NextIInv, NextOrder, AgreeNext, MirrorNext
<1>3. IInv /\ OrderInv /\ AgreeInv /\ MirrorInv => MirrorsAreExact
  BY QuietMirrors
<1> QED
  BY <1>1, <1>2, <1>3, PTL DEF Spec
=============================================================================
