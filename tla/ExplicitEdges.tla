---------------------------- MODULE ExplicitEdges ----------------------------
(***************************************************************************)
(* Edges an application creates between vertices that are in no partition, *)
(* and the subscriptions to single vertices that go with them              *)
(* (src/hoover.cpp 430-600, 1535-1618, 1895-2009, 2146-2407, 2489-2590).   *)
(* Each PE has one vertex, named like the PE.  Functions of the source are *)
(* operators on the record s of the context of the PE p that runs them;    *)
(* what they post to mailboxes collects in s.posted and s.sub_posted until *)
(* the action ends.  Mailboxes do not fill up here (Mailbox has that), and *)
(* one iteration creates at most one edge and changes the vertex once.     *)
(***************************************************************************)
EXTENDS Integers, Sequences, SequencesExt, FiniteSetsExt, Functions, TLC

CONSTANTS
  PEs,
  Apps,         \* what programs do: see AppsAssumption
  Repeats,      \* how often one edge may be created
  MaxVersion,   \* how often a vertex may change
  BufferSize,   \* buffer_size_per_pe of both mailbox buffers
  MaxIters,     \* batches of subscriptions that one iteration takes: 1000
  send_neighbor_updates_for_explicit_subs

\* A program runs on pes, creates at each the edges <<neighbor, direction>>,
\* changes the vertices of some, and some may leave.
ASSUME AppsAssumption ==
  \A a \in Apps : /\ a.pes \subseteq PEs /\ a.changing \subseteq a.pes /\ a.leavers \subseteq a.pes
                  /\ \A p \in a.pes : \A e \in a.creates[p] : e[1] \in a.pes \ {p}

ASSUME ExplicitEdgesAssumption ==
  /\ MaxVersion \in Nat /\ {BufferSize, MaxIters} \subseteq Nat \ {0} /\ Repeats \in Nat
  /\ send_neighbor_updates_for_explicit_subs \in BOOLEAN

NO_EDGE == 0
DIRECTED_IN == 1
DIRECTED_OUT == 2
BIDIRECTIONAL == 3

flip_edge_direction(e) ==
  CASE e = DIRECTED_IN -> DIRECTED_OUT [] e = DIRECTED_OUT -> DIRECTED_IN [] OTHER -> e

zeroed == -1     \* the attributes of a vertex reserved in the cache: a dummy
none == -2       \* no body to start from

VARIABLES
  pe,                     \* the context of each PE
  vertex_update_mailbox,  \* per PE the batches of updates sent to it, in order
  vert_sub_mailbox,       \* per PE the batches of subscriptions sent to it
  dead_mailbox,           \* per PE the PEs that announced their exit to it
  app,                    \* the program
  pc,                     \* per PE the stage of its iteration, "exited" or "absent"
  left                    \* what the application may still do

vars == <<pe, vertex_update_mailbox, vert_sub_mailbox, dead_mailbox, app, pc, left>>

(* Buffered sends *)

\* A message joins those buffered for its PE; a full buffer is posted first.
hvr_mailbox_buffer_send(s, q, m) ==
  IF Len(s.buffers[q]) = BufferSize
  THEN [s EXCEPT !.posted[q] = Append(@, s.buffers[q]), !.buffers[q] = <<m>>]
  ELSE [s EXCEPT !.buffers[q] = Append(@, m)]

send_subscription(s, q, m) ==
  IF Len(s.sub_buffers[q]) = BufferSize
  THEN [s EXCEPT !.sub_posted[q] = Append(@, s.sub_buffers[q]), !.sub_buffers[q] = <<m>>]
  ELSE [s EXCEPT !.sub_buffers[q] = Append(@, m)]

Flushed(posted, buffers) ==
  [q \in PEs |-> IF buffers[q] = <<>> THEN posted[q] ELSE Append(posted[q], buffers[q])]
Empty == [q \in PEs |-> <<>>]

flush_updates(s) == [s EXCEPT !.posted = Flushed(@, s.buffers), !.buffers = Empty]
flush_subscriptions(s) ==
  [s EXCEPT !.sub_posted = Flushed(@, s.sub_buffers), !.sub_buffers = Empty]

send_to_vertex_update_mailbox(s, q, m) ==
  IF q \in s.all_terminated_pes THEN s ELSE hvr_mailbox_buffer_send(s, q, m)

send_updates_to_all_subscribed_pes_helper(p, s, subscribers, m) ==
  FoldSet(LAMBDA q, t : send_to_vertex_update_mailbox(t, q, m), s, subscribers \ {p})

hvr_vert_update(v, version) == [is_vert_update |-> TRUE, vert |-> v, version |-> version]
hvr_edge_update(src, version, target, e, is_forward) ==
  [is_vert_update |-> FALSE, src |-> src, version |-> version, target |-> target,
   edge |-> e, is_forward |-> is_forward]

(* Edges *)

EdgeAt(s, u, v) == IF <<u, v>> \in DOMAIN s.edges THEN s.edges[<<u, v>>] ELSE NO_EDGE
NeighborsIn(s, v) == {e[2] : e \in {f \in DOMAIN s.edges : f[1] = v}}

\* Mutant: the edge goes to every PE, subscribed or not.
ForwardToEveryone(p, s, node, base, neighbor, e) ==
  send_updates_to_all_subscribed_pes_helper(p, s, PEs,
    hvr_edge_update(base, s.cached[base].version, neighbor, e, TRUE))

send_edge_updates_to_subscribers(p, s, node, base, neighbor, e) ==
  send_updates_to_all_subscribed_pes_helper(p, s, s.remote_vert_subs[node],
    hvr_edge_update(base, s.cached[base].version, neighbor, e, TRUE))

\* update_edge_info for EXPLICIT_EDGE: e is relative to base.
update_edge_info(p, s, base, neighbor, e, is_forwarded) ==
  LET existing == EdgeAt(s, base, neighbor)
      known == [s EXCEPT !.asserts = @ /\ existing \in {NO_EDGE, e}]
      \* an edge that is not new keeps one direction at both ends
      back == IF existing = NO_EDGE THEN flip_edge_direction(e) ELSE e
      set == [known EXCEPT !.edges = (<<base, neighbor>> :> e) @@ (<<neighbor, base>> :> back) @@ @]
      node == IF base = p THEN base ELSE neighbor
  IN CASE existing = e -> known
       [] existing # e /\ ~is_forwarded /\ send_neighbor_updates_for_explicit_subs
             /\ (base = p) # (neighbor = p)
            -> send_edge_updates_to_subscribers(p, set, node, base, neighbor, e)
       [] OTHER -> set

(* Subscriptions *)

\* body: a version of vid to start from, or none.
set_up_vertex_subscription(p, s, vid, body) ==
  LET reserved == IF vid \in DOMAIN s.cached THEN s
                  ELSE [s EXCEPT !.cached = (vid :> [version |-> zeroed, populated |-> FALSE]) @@ @]
      filled == IF body = none THEN reserved
                ELSE [reserved EXCEPT !.cached[vid] = [version |-> body, populated |-> TRUE]]
      subscribed ==
        IF vid = p \/ vid \in s.my_vert_subs THEN filled
        ELSE IF vid \in s.all_terminated_pes
        THEN [filled EXCEPT !.cached[vid] =      \* dead_pe_processing: a shmem_getmem
                [version |-> pe[vid].cached[vid].version, populated |-> TRUE]]
        ELSE send_subscription(filled, vid, [pe |-> p, vert |-> vid, entered |-> TRUE])
  IN [subscribed EXCEPT !.my_vert_subs = @ \cup {vid}]

\* Mutant: the subscriber is noted and gets later changes only.
NoteSubscription(p, s, change) ==
  [s EXCEPT !.remote_vert_subs[p] = @ \cup {change.pe}]

process_vertex_subscription(p, s, change) ==
  LET current == send_to_vertex_update_mailbox(s, change.pe,
                   hvr_vert_update(p, s.cached[p].version))
      Forwarded(t, n) == send_to_vertex_update_mailbox(t, change.pe,
                   hvr_edge_update(p, s.cached[p].version, n, EdgeAt(s, p, n), TRUE))
      edges == IF send_neighbor_updates_for_explicit_subs
               THEN {n \in NeighborsIn(s, p) : s.cached[n].populated} ELSE {}
  IN IF change.pe \in s.remote_vert_subs[p] THEN s
     ELSE [FoldSet(LAMBDA n, t : Forwarded(t, n), current, edges)
             EXCEPT !.remote_vert_subs[p] = @ \cup {change.pe}]

(* Updates *)

\* Mutant: only a vertex without a body takes the update.
FillNewVertex(s, m) ==
  IF m.vert \in DOMAIN s.cached /\ ~s.cached[m.vert].populated
  THEN [s EXCEPT !.cached[m.vert] = [version |-> m.version, populated |-> TRUE]] ELSE s

\* handle_new_vertex, for a vertex in no partition
handle_new_vertex(s, m) ==
  IF m.vert \in DOMAIN s.cached /\ NeighborsIn(s, m.vert) # {}
  THEN [s EXCEPT !.cached[m.vert] = [version |-> m.version, populated |-> TRUE]]
  ELSE [s EXCEPT !.cached = Restrict(@, DOMAIN @ \ {m.vert})]

ForcedTarget(p, s, m) ==
  IF m.target = p THEN s
  ELSE set_up_vertex_subscription(p, s, m.target,
         IF m.target \in DOMAIN s.cached /\ s.cached[m.target].populated
         THEN s.cached[m.target].version ELSE none)
ForcedSrc(p, s, m) ==
  IF m.src = p THEN s ELSE set_up_vertex_subscription(p, s, m.src, m.version)

\* Mutant: an edge is taken only if both its vertices are known.
HandleKnownEdge(p, s, m) ==
  IF {m.target, m.src} \subseteq DOMAIN s.cached
  THEN update_edge_info(p, s, m.src, m.target, m.edge, TRUE) ELSE s

handle_edge(p, s, m) ==
  LET looked == [s EXCEPT !.asserts = @ /\ {m.target, m.src} \cap DOMAIN s.cached # {}]
      known == IF m.is_forward THEN looked ELSE ForcedSrc(p, ForcedTarget(p, looked, m), m)
  IN IF {m.target, m.src} \subseteq DOMAIN known.cached
     THEN update_edge_info(p, known, m.src, m.target, m.edge, TRUE)
     ELSE known

process_vertex_update(p, s, m) ==
  IF m.is_vert_update THEN handle_new_vertex(s, m) ELSE handle_edge(p, s, m)

handle_dead_msg(s, q) ==
  [s EXCEPT
    !.asserts = @ /\ q \notin s.all_terminated_pes
                  /\ s.my_vert_subs \cap {q} \subseteq DOMAIN s.cached,
    !.all_terminated_pes = @ \cup {q},
    !.cached = [v \in DOMAIN @ |->
                  IF v = q /\ q \in s.my_vert_subs
                  THEN [version |-> pe[q].cached[q].version, populated |-> TRUE] ELSE @[v]]]

(* Creating an edge *)

\* edge is relative to remote
signal_edge_creation(s, base, remote, e) ==
  send_to_vertex_update_mailbox(s, remote,
    hvr_edge_update(base, s.cached[base].version, remote, e, FALSE))

hvr_create_edge_helper(p, s, neighbor, body, e) ==
  LET subscribed == set_up_vertex_subscription(p, s, neighbor, body)
      created == update_edge_info(p, subscribed, p, neighbor, e, FALSE)
  IN signal_edge_creation(created, p, neighbor, flip_edge_direction(e))

\* A buffered creation: whatever is cached of the neighbor is the body.
process_buffered_change(p, s, neighbor, e) ==
  hvr_create_edge_helper(p, s, neighbor,
    IF neighbor \in DOMAIN s.cached THEN s.cached[neighbor].version ELSE none, e)

(* The iteration *)

Init ==
  /\ pe = [p \in PEs |->
       [cached |-> p :> [version |-> 0, populated |-> TRUE], edges |-> <<>>,
        my_vert_subs |-> {}, remote_vert_subs |-> [v \in PEs |-> {}],
        all_terminated_pes |-> {}, needs_send |-> FALSE, asserts |-> TRUE,
        buffers |-> Empty, posted |-> Empty, sub_buffers |-> Empty, sub_posted |-> Empty]]
  /\ vertex_update_mailbox = [p \in PEs |-> <<>>]
  /\ vert_sub_mailbox = [p \in PEs |-> <<>>]
  /\ dead_mailbox = [p \in PEs |-> {}]
  /\ app \in Apps
  /\ pc = [p \in PEs |-> IF p \in app.pes THEN "start_time_step" ELSE "absent"]
  /\ left = [p \in PEs |-> [e \in IF p \in app.pes THEN app.creates[p] ELSE {} |-> Repeats]]

\* The action of p leaves it in context s; a mailbox that was read is updates
\* or subs, and what s posted goes to the others' mailboxes.
Becomes(p, s, updates, subs) ==
  /\ pe' = [pe EXCEPT ![p] = [s EXCEPT !.posted = Empty, !.sub_posted = Empty]]
  /\ vertex_update_mailbox' = [q \in PEs |-> updates[q] \o s.posted[q]]
  /\ vert_sub_mailbox' = [q \in PEs |-> subs[q] \o s.sub_posted[q]]

GoesOn(p, from, to) == pc[p] = from /\ pc' = [pc EXCEPT ![p] = to]

hvr_vertex_set(s, p) == [s EXCEPT !.cached[p].version = @ + 1, !.needs_send = TRUE]

send_vertex_updates(p, s) ==
  LET sent == IF s.needs_send
              THEN [send_updates_to_all_subscribed_pes_helper(p, s, s.remote_vert_subs[p],
                      hvr_vert_update(p, s.cached[p].version)) EXCEPT !.needs_send = FALSE]
              ELSE s
  IN flush_updates(sent)

\* The contexts update_vertices may leave: the vertex changes or it does not.
update_vertices(p, s) ==
  {s} \cup {hvr_vertex_set(s, p) : q \in {r \in app.changing \cap {p} :
                                         s.cached[p].version < MaxVersion}}

\* The first half of an iteration reads nothing others write: start_time_step
\* and the change it buffered, update_vertices, send_vertex_updates.
UpdateAndSend(p, s) ==
  \E t \in update_vertices(p, s) :
    /\ GoesOn(p, "start_time_step", "process_neighbor_updates")
    /\ Becomes(p, send_vertex_updates(p, t), vertex_update_mailbox, vert_sub_mailbox)
    /\ UNCHANGED <<dead_mailbox, app>>

CreateEdge(p) ==
  \E e \in DOMAIN left[p] :
    /\ left[p][e] > 0
    /\ left' = [left EXCEPT ![p][e] = @ - 1]
    /\ UpdateAndSend(p, process_buffered_change(p, pe[p], e[1], e[2]))

CreateNothing(p) == UpdateAndSend(p, pe[p]) /\ UNCHANGED left

\* A message of a mailbox is a batch.  The loop receives the next one before it
\* looks whether it has had max_iters: that one is handled by nobody.
\* Mutant: off by one, the last batch that may be taken is not handled.
ProcessOneLess(p, s, batches) ==
  FoldLeft(LAMBDA t, batch : FoldLeft(LAMBDA u, m : process_vertex_subscription(p, u, m), t, batch),
           s, SubSeq(batches, 1, Min({Len(batches), MaxIters - 1})))

process_vertex_subscriptions(p, s, batches) ==
  FoldLeft(LAMBDA t, batch : FoldLeft(LAMBDA u, m : process_vertex_subscription(p, u, m), t, batch),
           s, batches)

ProcessNeighborUpdates(p) ==
  LET mailbox == vert_sub_mailbox[p]
      taken == SubSeq(mailbox, 1, Min({MaxIters, Len(mailbox)}))
      unread == SubSeq(mailbox, MaxIters + 2, Len(mailbox))
  IN /\ GoesOn(p, "process_neighbor_updates", "process_vertex_updates")
     /\ \E s \in {process_vertex_subscriptions(p, pe[p], taken)} :
          Becomes(p, flush_subscriptions(s), vertex_update_mailbox,
                  [vert_sub_mailbox EXCEPT ![p] = unread])
     /\ UNCHANGED <<dead_mailbox, app, left>>

ProcessVertexUpdates(p) ==
  /\ pc[p] = "process_vertex_updates" /\ vertex_update_mailbox[p] # <<>>
  /\ \E s \in {FoldLeft(LAMBDA t, m : process_vertex_update(p, t, m),
                         pe[p], Head(vertex_update_mailbox[p]))} :
       Becomes(p, s, [vertex_update_mailbox EXCEPT ![p] = Tail(@)], vert_sub_mailbox)
  /\ UNCHANGED <<dead_mailbox, app, pc, left>>

UpdatesDone(p) ==
  /\ GoesOn(p, "process_vertex_updates", "poll_for_dead_pes")
  /\ vertex_update_mailbox[p] = <<>>
  /\ UNCHANGED <<pe, vertex_update_mailbox, vert_sub_mailbox, dead_mailbox, app, left>>

\* update_coupled_values: of it, the announcements of exited PEs
poll_for_dead_pes(p) == FoldSet(LAMBDA q, s : handle_dead_msg(s, q), pe[p], dead_mailbox[p])

NextIteration(p) ==
  /\ GoesOn(p, "poll_for_dead_pes", "start_time_step")
  /\ pe' = [pe EXCEPT ![p] = poll_for_dead_pes(p)]
  /\ dead_mailbox' = [dead_mailbox EXCEPT ![p] = {}]
  /\ UNCHANGED <<vertex_update_mailbox, vert_sub_mailbox, app, left>>

\* After its last iteration a PE tells everyone that it exits, itself too.
Exit(p) ==
  /\ p \in app.leavers
  /\ GoesOn(p, "poll_for_dead_pes", "exited")
  /\ pe' = [pe EXCEPT ![p] = poll_for_dead_pes(p)]
  /\ dead_mailbox' = [q \in PEs |-> IF q = p THEN {p} ELSE dead_mailbox[q] \cup {p}]
  /\ UNCHANGED <<vertex_update_mailbox, vert_sub_mailbox, app, left>>

Step(p) ==
  \/ CreateEdge(p) \/ CreateNothing(p)
  \/ ProcessNeighborUpdates(p)
  \/ ProcessVertexUpdates(p) \/ UpdatesDone(p)
  \/ NextIteration(p) \/ Exit(p)

Next == \E p \in PEs : Step(p)

Spec == Init /\ [][Next]_vars

\* A PE never stops iterating before it exits.
FairSpec == Spec /\ \A p \in PEs : WF_vars(Step(p))
-----------------------------------------------------------------------------
(* Properties *)

Running(p) == pc[p] # "exited"
\* Everything q has sent p and p has not handled, in the order p will see it.
InFlight(q, p) == FlattenSeq(vertex_update_mailbox[p]) \o pe[q].buffers[p]

\* The asserts of the source on the messages above hold: an explicit edge is
\* never created over another kind (477), an update is about a vertex that is
\* cached (1947), an exit is announced once and of a PE whose subscribed
\* vertices are cached (2212, 2229).  The first fails for an edge with a direction
\* (see DirectionsAgree); so it is claimed of programs whose edges go both ways.
AssertsHold == \A p \in app.pes : pe[p].asserts

\* Once the owner knows the subscription, the last state it has sent, or else
\* the copy the subscriber has, is the owner's present one: no change falls
\* between the answer to a subscription and the updates that follow, whichever
\* bodies came with edges in between.
SubscribersAreCurrent ==
  \A p, q \in app.pes :
    LET mine == SelectSeq(InFlight(q, p),
                  LAMBDA m : IF m.is_vert_update THEN m.vert = q
                             ELSE m.src = q /\ ~m.is_forward)
    IN (/\ p # q /\ Running(p) /\ p \in pe[q].remote_vert_subs[q]
        /\ q \notin pe[p].all_terminated_pes /\ p \notin pe[q].all_terminated_pes)
         => LET latest == IF mine # <<>> THEN Last(mine).version
                          ELSE pe[p].cached[q].version
            IN latest = pe[q].cached[q].version

\* Who has set up a subscription to another's vertex is known to the owner, or
\* the subscription is on its way: "notify that PE that we'll need updates from it
\* on this vertex" (hoover.cpp:2148-2150).
SubscriptionsAreKept ==
  \A p, q \in app.pes :
    (/\ p # q /\ Running(p) /\ Running(q)
     /\ q \in pe[p].my_vert_subs) =>
      \/ p \in pe[q].remote_vert_subs[q]
      \/ \E batch \in ToSet(Append(vert_sub_mailbox[q], pe[p].sub_buffers[q])) :
           \E i \in DOMAIN batch : batch[i].pe = p

\* An edge at one end is at the other, or on its way there, unless the other
\* end had exited and was known to have.  Of directions it says nothing.
EndsAgree ==
  \A p, q \in app.pes :
    (p # q /\ EdgeAt(pe[p], p, q) # NO_EDGE /\ Running(p) /\ q \notin pe[p].all_terminated_pes)
      => \/ EdgeAt(pe[q], p, q) # NO_EDGE
         \/ \E i \in 1 .. Len(InFlight(p, q)) :
              LET m == InFlight(p, q)[i] IN
              ~m.is_vert_update /\ ~m.is_forward /\ {m.src, m.target} = {p, q}

\* An edge between two PEs' vertices has, at both, one direction: the creator sends
\* it "relative to remote" (hoover.cpp:2288), so that the other end stores the edge
\* that the creator has.
DirectionsAgree ==
  \A p, q \in app.pes :
    (p # q /\ EdgeAt(pe[p], p, q) # NO_EDGE /\ EdgeAt(pe[q], p, q) # NO_EDGE)
      => EdgeAt(pe[q], p, q) = EdgeAt(pe[p], p, q)

\* A copy that is shown to the application is a state the vertex was in.
PopulatedCopiesAreValid ==
  \A p \in app.pes : \A v \in DOMAIN pe[p].cached :
    pe[p].cached[v].populated => pe[p].cached[v].version # zeroed

\* In the end every running PE has the others' vertices it has edges with as
\* valid copies, those of running PEs in their latest state, and two running
\* PEs both have the edges between them.
Settled ==
  \A p, q \in app.pes :
    (p # q /\ Running(p) /\ EdgeAt(pe[p], p, q) # NO_EDGE) =>
      /\ pe[p].cached[q].populated
      /\ Running(q) => /\ pe[p].cached[q].version = pe[q].cached[q].version
                       /\ EdgeAt(pe[q], p, q) # NO_EDGE

EventuallySettled == <>[]Settled

\* A PE that learns of another's exit grabs the final state of the vertices it
\* is subscribed to there (2214-2217), so in the end that is what it has.
FinalStatesKnown ==
  \A p, q \in PEs :
    <>[]((/\ {p, q} \subseteq app.pes /\ Running(p)
           /\ q \in pe[p].my_vert_subs \cap pe[p].all_terminated_pes)
           => pe[p].cached[q].version = pe[q].cached[q].version)
=============================================================================
