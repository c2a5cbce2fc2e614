------------------------------ MODULE Coupling ------------------------------
(***************************************************************************)
(* hoover.cpp, update_coupled_values and its callers: how PEs form         *)
(* clusters that execute in lockstep, grow them while they run and leave.  *)
(*                                                                         *)
(* In every iteration a PE tells its cluster's root whom it wants to be    *)
(* coupled with.  The root negotiates with the roots of those clusters,    *)
(* one at a time, until it has joined them all or lost its role to a root  *)
(* with a smaller number; the root that is left announces the result, and  *)
(* the members exchange their values before the next iteration.            *)
(*                                                                         *)
(* Mailboxes are unbounded here and keep the order of their messages       *)
(* (Channel.tla is that promise); one is never read after its owner exits. *)
(***************************************************************************)
EXTENDS Integers, Sequences, FiniteSets

CONSTANTS
  NPes,          \* number of PEs
  Programs       \* the programs: what the callbacks of each PE may do

PEs == 0 .. NPes - 1

\* couple_with may name the PEs of wants; should_terminate may return true
\* never, at any time, or only once all PEs are coupled.
ASSUME CouplingAssumption ==
  /\ NPes \in Nat \ {0}
  /\ Programs \subseteq [PEs -> [wants : SUBSET PEs,
                                 terminates : {"never", "any time", "complete"}]]

Mailboxes == {"coupling",        \* coupling_mailbox: requests, announcements
              "ack_dead",        \* coupling_ack_and_dead_mailbox
              "to_couple_with", "root_info", "value"}

VARIABLES
  ctx,     \* the coupling part of each PE's context
  mail     \* mail[b][p]: what is in mailbox b of PE p, oldest first

vars == <<ctx, mail>>

Fresh(p, callbacks) ==
  [pc |-> "work", app |-> callbacks,
   coupled_pes |-> {p}, prev_coupled_pes |-> {p}, coupled_pes_root |-> p,
   to_couple_with |-> {}, received_from |-> {}, terminating_pes |-> {},
   cluster_dead |-> {},     \* all_terminated_cluster_pes
   prev_dead |-> {},        \* prev_all_terminated_cluster_pes
   all_dead |-> {},         \* all_terminated_pes
   target_pe |-> 0,
   peer |-> p,              \* expected_root_pe, then the other root
   terminating |-> FALSE,
   todo |-> {}]             \* the PEs still to be sent to, in ascending order

Init ==
  /\ \E program \in Programs : ctx = [p \in PEs |-> Fresh(p, program[p])]
  /\ mail = [b \in Mailboxes |-> [p \in PEs |-> <<>>]]

(***************************************************************************)
(* Messages                                                                *)
(***************************************************************************)
Request(p)       == [type |-> "request", pe |-> p]
Ack(p, root, ab) == [type |-> "ack", pe |-> p, root_pe |-> root, abort |-> ab]
Dead(p)          == [type |-> "dead", pe |-> p]
AllTerminated(root, s) == [type |-> "all_terminated", pe |-> root, set |-> s]
Coupled(root, s)       == [type |-> "coupled", pe |-> root, set |-> s]

\* A message to a PE that has exited, or to none (-1), reaches nobody; nor does
\* what a PE finds in its coupling_mailbox after its last wait for the root.
Alive(q)   == q \in PEs /\ ctx[q].pc # "exited"
Couples(q) == Alive(q) /\ ~(ctx[q].terminating
                            /\ ctx[q].pc \in {"values", "poll", "exiting"})
Sent(ms, b, q, m) == IF (IF b = "coupling" THEN Couples(q) ELSE Alive(q))
                     THEN [ms EXCEPT ![b][q] = Append(@, m)] ELSE ms
Received(ms, b, p) == [ms EXCEPT ![b][p] = Tail(@)]
Send(b, q, m)   == mail' = Sent(mail, b, q, m)
Receive(b, p)   == mail' = Received(mail, b, p)
Answer(b, p, box, q, m) == mail' = Sent(Received(mail, b, p), box, q, m)
Waiting(b, p)   == mail[b][p] # <<>>
First(b, p)     == Head(mail[b][p])

Least(S)    == CHOOSE x \in S : \A y \in S : x <= y
Greatest(S) == CHOOSE x \in S : \A y \in S : x >= y
Set(p, new) == ctx' = [ctx EXCEPT ![p] = new]
At(p, pcs)  == ctx[p].pc \in pcs

(***************************************************************************)
(* The start of update_coupled_values                                      *)
(***************************************************************************)
\* One iteration of hvr_body up to the coupling: the application names new
\* PEs to couple with; the last call, on the way out, is made without.  What
\* is wanted goes to the root, and the root starts to collect.
Work(p) ==
  LET c == ctx[p]  IN
  /\ At(p, {"work"})
  /\ \E W \in IF c.terminating THEN {{}} ELSE SUBSET c.app.wants :
       LET all == c.coupled_pes \cup W
       IN /\ Send("to_couple_with", c.coupled_pes_root,
                  [pe |-> p, set |-> all \ c.prev_coupled_pes,
                   terminating |-> c.terminating])
          /\ IF c.coupled_pes_root = p
             THEN Set(p, [c EXCEPT !.pc = "gather", !.coupled_pes = all,
                                   !.to_couple_with = {}, !.terminating_pes = {},
                                   !.received_from = c.cluster_dead])
             ELSE Set(p, [c EXCEPT !.pc = "info", !.coupled_pes = all])

\* The root takes one member's wishes.
Gather(p) ==
  LET m == First("to_couple_with", p)  IN
  /\ At(p, {"gather"}) /\ ctx[p].received_from # ctx[p].prev_coupled_pes
  /\ Waiting("to_couple_with", p) /\ Receive("to_couple_with", p)
  /\ Set(p, [ctx[p] EXCEPT !.to_couple_with = @ \cup m.set,
                           !.received_from = @ \cup {m.pe},
                           !.terminating_pes = IF m.terminating THEN @ \cup {m.pe} ELSE @])

GatheredKeepsWishes(p) ==   \* mutant: coupled_pes is not reset
  /\ At(p, {"gather"}) /\ ctx[p].received_from = ctx[p].prev_coupled_pes
  /\ Set(p, [ctx[p] EXCEPT !.pc = "find", !.received_from = {}, !.target_pe = 0])
  /\ UNCHANGED mail

Gathered(p) ==
  /\ At(p, {"gather"}) /\ ctx[p].received_from = ctx[p].prev_coupled_pes
  /\ Set(p, [ctx[p] EXCEPT !.pc = "find", !.coupled_pes = ctx[p].prev_coupled_pes,
                           !.received_from = {}, !.target_pe = 0])
  /\ UNCHANGED mail

(***************************************************************************)
(* The root's loop over the PEs its cluster wants                          *)
(***************************************************************************)
Missing(c) == c.to_couple_with \ c.coupled_pes

NextTarget(c) ==
  CHOOSE t \in Missing(c) : \A u \in Missing(c) :
     (t - c.target_pe) % NPes <= (u - c.target_pe) % NPes

Find(p) ==
  LET t == NextTarget(ctx[p])  IN
  /\ At(p, {"find"}) /\ Missing(ctx[p]) # {}
  /\ Set(p, [ctx[p] EXCEPT !.pc = "refuse", !.target_pe = t, !.peer = t])
  /\ Send("coupling", t, Request(p))

FindNone(p) ==
  /\ At(p, {"find"}) /\ Missing(ctx[p]) = {}
  /\ Set(p, [ctx[p] EXCEPT !.pc = "check"])
  /\ UNCHANGED mail

\* wait_for_coupling_ack, first half of a round: whoever asks us while we ask
\* is told to abort.
Refuse(p) ==
  /\ At(p, {"refuse"})
  /\ Set(p, [ctx[p] EXCEPT !.pc = "listen"])
  /\ IF Waiting("coupling", p)
     THEN Answer("coupling", p, "ack_dead", First("coupling", p).pe,
                 Ack(p, ctx[p].coupled_pes_root, TRUE))
     ELSE UNCHANGED mail

\* Second half of a round: without an ack the loop goes on, unless the PE that
\* was asked is known to be dead.
NoAckButWait(c) == [c EXCEPT !.pc = "refuse"]        \* mutant
NoAck(c) == IF c.peer \in c.all_dead
            THEN [c EXCEPT !.pc = "check", !.to_couple_with = @ \ {c.target_pe}]
            ELSE [c EXCEPT !.pc = "refuse"]

ListenNothing(p) ==
  /\ At(p, {"listen"}) /\ ~Waiting("ack_dead", p)
  /\ Set(p, NoAck(ctx[p]))
  /\ UNCHANGED mail

ListenDead(p) ==
  LET m == First("ack_dead", p)  IN
  /\ At(p, {"listen"}) /\ Waiting("ack_dead", p) /\ m.type = "dead"
  /\ Set(p, NoAck([ctx[p] EXCEPT !.all_dead = @ \cup {m.pe}]))
  /\ Receive("ack_dead", p)

\* negotiate_new_root: of two roots the smaller one stays root and waits for
\* the other's sets, sent as three messages in a row and here as one.  ms is
\* the mail after the message that led here.
Negotiate(p, other, then, ms) ==
  IF p < other
  THEN Set(p, [ctx[p] EXCEPT !.pc = then, !.peer = other]) /\ mail' = ms
  ELSE /\ Set(p, [ctx[p] EXCEPT !.pc = "info", !.coupled_pes_root = other])
       /\ mail' = Sent(ms, "root_info", other,
            [pe |-> p, coupled |-> ctx[p].coupled_pes, wants |-> ctx[p].to_couple_with,
             terminating |-> ctx[p].terminating_pes])

GotAck(p) == /\ At(p, {"listen"}) /\ Waiting("ack_dead", p)
             /\ First("ack_dead", p).type = "ack"

\* The peer is not a root: ask the root it names.
AckForwarded(p) ==
  LET m == First("ack_dead", p)  IN
  /\ GotAck(p) /\ ~m.abort /\ m.root_pe # m.pe
  /\ Set(p, [ctx[p] EXCEPT !.pc = "refuse", !.peer = m.root_pe])
  /\ Answer("ack_dead", p, "coupling", m.root_pe, Request(p))

\* The peer is a root that waits for another: ask it again later.
AckAbortedGivesUp(p) ==     \* mutant: the root to ask later is not noted
  /\ GotAck(p) /\ First("ack_dead", p).abort
  /\ Set(p, [ctx[p] EXCEPT !.pc = "check", !.to_couple_with = @ \ {ctx[p].target_pe}])
  /\ Receive("ack_dead", p)

AckAborted(p) ==
  LET m == First("ack_dead", p)  IN
  /\ GotAck(p) /\ m.abort
  /\ Set(p, [ctx[p] EXCEPT !.pc = "check",
               !.to_couple_with = (@ \ {ctx[p].target_pe}) \cup {m.root_pe}])
  /\ Receive("ack_dead", p)

AckAccepted(p) ==
  LET m == First("ack_dead", p)  IN
  /\ GotAck(p) /\ ~m.abort /\ m.root_pe = m.pe
  /\ Negotiate(p, m.root_pe, "merge", Received(mail, "ack_dead", p))

\* The loop ends when all wanted PEs are coupled; the result is then announced.
EndRound(c) == IF Missing(c) # {} THEN [c EXCEPT !.pc = "find"]
               ELSE [c EXCEPT !.pc = "share", !.todo = c.coupled_pes]

\* The surviving root takes over the other cluster.
Merge(p) ==
  LET m == First("root_info", p)
      c == [ctx[p] EXCEPT !.coupled_pes = @ \cup m.coupled,
                          !.to_couple_with = @ \cup m.wants,
                          !.terminating_pes = @ \cup m.terminating]
  IN
  /\ At(p, {"merge", "merge_request"}) /\ Waiting("root_info", p)
  /\ Receive("root_info", p)
  /\ Set(p, IF At(p, {"merge"}) THEN [c EXCEPT !.pc = "check"] ELSE EndRound(c))

\* check_incoming_coupling_requests, at the end of every round.
CheckRequest(p) ==
  LET m == First("coupling", p)  IN
  /\ At(p, {"check"}) /\ Waiting("coupling", p)
  /\ Negotiate(p, m.pe, "merge_request",
       Sent(Received(mail, "coupling", p), "ack_dead", m.pe,
            Ack(p, ctx[p].coupled_pes_root, FALSE)))

CheckNothing(p) ==
  /\ At(p, {"check"}) /\ ~Waiting("coupling", p)
  /\ Set(p, EndRound(ctx[p]))
  /\ UNCHANGED mail

(***************************************************************************)
(* The result: two messages to every member, the root itself included      *)
(***************************************************************************)
NewDeadForgets(c) == c.cluster_dead         \* mutant: without the terminating ones
NewDead(c) == c.cluster_dead \cup c.terminating_pes
new_root(p) == LET live == ctx[p].coupled_pes \ NewDead(ctx[p])
               IN  IF p \notin ctx[p].terminating_pes THEN p
                   ELSE IF live = {} THEN -1 ELSE Greatest(live)

ShareDead(p) ==
  LET c == ctx[p]  IN
  /\ At(p, {"share"})
  /\ Send("coupling", Least(c.todo), AllTerminated(new_root(p), NewDead(c)))
  /\ Set(p, [c EXCEPT !.pc = "share_coupled"])

AfterShare(c) == [c EXCEPT !.todo = @ \ {Least(c.todo)},
                           !.pc = IF c.todo = {Least(c.todo)} THEN "info_root" ELSE "share"]

ShareCoupledWrongSet(p) ==  \* mutant: sends to_couple_with_msg
  LET c == ctx[p]  IN
  /\ At(p, {"share_coupled"})
  /\ Send("coupling", Least(c.todo), Coupled(new_root(p), c.to_couple_with \cup {p}))
  /\ Set(p, AfterShare(c))

ShareCoupled(p) ==
  LET c == ctx[p]  IN
  /\ At(p, {"share_coupled"})
  /\ Send("coupling", Least(c.todo), Coupled(new_root(p), c.coupled_pes))
  /\ Set(p, AfterShare(c))

\* wait_for_full_coupling_info: a root puts a late request back for its next
\* iteration, anyone else names its root ...
Informed(p, type) == /\ At(p, {"info", "info_root"}) /\ Waiting("coupling", p)
                     /\ First("coupling", p).type = type

InfoRequestAnswered(p) ==   \* mutant: a root answers a late request, too
  LET m == First("coupling", p)  IN
  /\ Informed(p, "request")
  /\ Answer("coupling", p, "ack_dead", m.pe, Ack(p, ctx[p].coupled_pes_root, FALSE))
  /\ UNCHANGED ctx

InfoRequest(p) ==
  LET m == First("coupling", p)  IN
  /\ Informed(p, "request")
  /\ IF At(p, {"info_root"})
     THEN Answer("coupling", p, "coupling", p, m)
     ELSE Answer("coupling", p, "ack_dead", m.pe, Ack(p, ctx[p].coupled_pes_root, FALSE))
  /\ UNCHANGED ctx

\* ... and both announcements are waited for.
InfoDead(p) ==
  LET m == First("coupling", p)  IN
  /\ Informed(p, "all_terminated") /\ Receive("coupling", p)
  /\ Set(p, [ctx[p] EXCEPT !.prev_dead = ctx[p].cluster_dead, !.cluster_dead = m.set,
                           !.coupled_pes_root = m.pe])

\* The fields only the root's loop uses are wiped here: they are dead.
InfoCoupled(p) ==
  LET m == First("coupling", p)
      c == ctx[p]
  IN
  /\ Informed(p, "coupled") /\ Receive("coupling", p)
  /\ Set(p, [c EXCEPT !.pc = "values", !.coupled_pes = m.set, !.prev_coupled_pes = m.set,
                      !.coupled_pes_root = m.pe,
                      !.received_from = m.set \cap c.prev_dead,
                      !.todo = m.set \ c.prev_dead,
                      !.to_couple_with = {}, !.terminating_pes = {},
                      !.target_pe = 0, !.peer = p])

(***************************************************************************)
(* Values, deaths, the end of the iteration                                *)
(***************************************************************************)
SendValue(p) ==
  /\ At(p, {"values"}) /\ ctx[p].todo # {}
  /\ Send("value", Least(ctx[p].todo), p)
  /\ Set(p, [ctx[p] EXCEPT !.todo = @ \ {Least(ctx[p].todo)}])

Exchanging(p) == At(p, {"values"}) /\ ctx[p].todo = {}

ReceiveValue(p) ==
  /\ Exchanging(p) /\ ctx[p].received_from # ctx[p].coupled_pes
  /\ Waiting("value", p) /\ Receive("value", p)
  /\ Set(p, [ctx[p] EXCEPT !.received_from = @ \cup {First("value", p)}])

ValuesDone(p) ==
  /\ Exchanging(p) /\ ctx[p].received_from = ctx[p].coupled_pes
  /\ Set(p, [ctx[p] EXCEPT !.pc = "poll", !.received_from = {}])
  /\ UNCHANGED mail

\* poll_for_dead_pes
PollDead(p) ==
  /\ At(p, {"poll"}) /\ Waiting("ack_dead", p) /\ Receive("ack_dead", p)
  /\ Set(p, [ctx[p] EXCEPT !.all_dead = @ \cup {First("ack_dead", p).pe}])

\* should_terminate decides whether the next coupling is the last.
Polled(p) == At(p, {"poll"}) /\ ~Waiting("ack_dead", p) /\ UNCHANGED mail
MayTerminate(p) == \/ ctx[p].app.terminates = "any time"
                   \/ ctx[p].app.terminates = "complete" /\ ctx[p].coupled_pes = PEs

EndIteration(p) ==
  /\ Polled(p) /\ ~ctx[p].terminating
  /\ \/ Set(p, [ctx[p] EXCEPT !.pc = "work"])
     \/ MayTerminate(p) /\ Set(p, [ctx[p] EXCEPT !.pc = "work", !.terminating = TRUE])

StartExit(p) ==
  /\ Polled(p) /\ ctx[p].terminating
  /\ Set(p, [ctx[p] EXCEPT !.pc = "exiting", !.todo = PEs])

\* The dead message goes to every PE.
Exit(p) ==
  LET c == ctx[p]  IN
  /\ At(p, {"exiting"})
  /\ Send("ack_dead", Least(c.todo), Dead(p))
  /\ Set(p, [c EXCEPT !.todo = @ \ {Least(c.todo)},
                      !.pc = IF c.todo = {Least(c.todo)} THEN "exited" ELSE "exiting"])

-----------------------------------------------------------------------------
Root(p)   == \/ Gather(p) \/ Gathered(p) \/ Find(p) \/ FindNone(p) \/ Refuse(p)
             \/ ListenNothing(p) \/ ListenDead(p)
             \/ AckForwarded(p) \/ AckAborted(p) \/ AckAccepted(p) \/ Merge(p)
             \/ CheckRequest(p) \/ CheckNothing(p) \/ ShareDead(p) \/ ShareCoupled(p)
Member(p) == \/ Work(p) \/ InfoRequest(p) \/ InfoDead(p) \/ InfoCoupled(p)
             \/ SendValue(p) \/ ReceiveValue(p) \/ ValuesDone(p)
             \/ PollDead(p) \/ EndIteration(p) \/ StartExit(p) \/ Exit(p)
Step(p)   == Root(p) \/ Member(p)

Next == \E p \in PEs : Step(p)

Spec == Init /\ [][Next]_vars
\* Every PE keeps running.
FairSpec == Spec /\ \A p \in PEs : WF_vars(Step(p))
-----------------------------------------------------------------------------
(* Properties *)

PC == {"work", "gather", "find", "refuse", "listen", "merge", "merge_request",
       "check", "share", "share_coupled", "info", "info_root", "values", "poll",
       "exiting", "exited"}
PEorNone == PEs \cup {-1}

Context == [pc : PC,
            app : [wants : SUBSET PEs, terminates : {"never", "any time", "complete"}],
            coupled_pes : SUBSET PEs, prev_coupled_pes : SUBSET PEs,
            coupled_pes_root : PEorNone, to_couple_with : SUBSET PEorNone,
            received_from : SUBSET PEs, terminating_pes : SUBSET PEs,
            cluster_dead : SUBSET PEs, prev_dead : SUBSET PEs, all_dead : SUBSET PEs,
            target_pe : PEorNone, peer : PEorNone, terminating : BOOLEAN, todo : SUBSET PEs]

Message(b) ==
  CASE b = "coupling" -> [type : {"request"}, pe : PEs] \cup
                         [type : {"all_terminated", "coupled"}, pe : PEorNone, set : SUBSET PEs]
    [] b = "ack_dead" -> [type : {"dead"}, pe : PEs] \cup
                         [type : {"ack"}, pe : PEs, root_pe : PEorNone, abort : BOOLEAN]
    [] b = "to_couple_with" -> [pe : PEs, set : SUBSET PEs, terminating : BOOLEAN]
    [] b = "root_info" -> [pe : PEs, coupled : SUBSET PEs, wants : SUBSET PEorNone,
                           terminating : SUBSET PEs]
    [] b = "value" -> PEs

\* Type correctness of the coupling state of every PE and of the mailboxes.
TypeOK ==
  /\ ctx \in [PEs -> Context]
  /\ mail = [b \in Mailboxes |-> mail[b]]
  /\ \A b \in Mailboxes : mail[b] \in [PEs -> Seq(Message(b))]

IfFirst(b, p, P(_)) == Waiting(b, p) => P(First(b, p))

\* The code's asserts on what it receives: only requests while a root is in its
\* loop, the ack of the PE that was asked and that lives, the sets of the root
\* that was negotiated with, one value per coupled PE and iteration, no ack left
\* over when deaths are polled; a root leaves without successor only if all do.
AssertsHold ==
  \A p \in PEs :
    LET c == ctx[p]  IN
    /\ At(p, {"refuse", "check"}) =>
         IfFirst("coupling", p, LAMBDA m : m.type = "request")
    /\ At(p, {"listen"}) =>
         IfFirst("ack_dead", p, LAMBDA m :
                 m.type = "ack" => m.pe = c.peer /\ c.peer \notin c.all_dead)
    /\ At(p, {"merge", "merge_request"}) =>
         IfFirst("root_info", p, LAMBDA m : m.pe = c.peer)
    /\ At(p, {"share", "share_coupled"}) =>
         (new_root(p) = -1 => c.coupled_pes = NewDead(c))
    /\ Exchanging(p) /\ c.received_from # c.coupled_pes =>
         IfFirst("value", p, LAMBDA m :
                 m \in (c.coupled_pes \ c.received_from) \ c.prev_dead)
    /\ At(p, {"poll"}) =>
         IfFirst("ack_dead", p, LAMBDA m : m.type = "dead")

\* PEs that exchange values, are coupled and stay have the same view: the same
\* cluster, both in it, under one root, with the same members gone.  (The others
\* may run one iteration ahead of a PE that is terminating.)
Settled(p) == At(p, {"values", "poll"})
MembersAgree ==
  \A p, q \in PEs :
    Settled(p) /\ Settled(q) /\ q \in ctx[p].coupled_pes
    /\ ~ctx[p].terminating /\ ~ctx[q].terminating =>
      /\ ctx[q].coupled_pes = ctx[p].coupled_pes
      /\ ctx[q].coupled_pes_root = ctx[p].coupled_pes_root
      /\ ctx[q].cluster_dead = ctx[p].cluster_dead

\* Requests of p on their way or put back, and answers to p.
Requested(p) == Cardinality({w \in PEs \X (1 .. 3 * NPes) :
                   LET box == mail["coupling"][w[1]]
                   IN  w[2] \in DOMAIN box /\ box[w[2]] = Request(p)})
Answered(p)  == Cardinality({i \in DOMAIN mail["ack_dead"][p] :
                   mail["ack_dead"][p][i].type = "ack"})

\* Every request is answered exactly once, whatever state the PE it reaches is
\* in, until the root stops waiting for it.
AnsweredOnce ==
  \A p \in PEs : /\ Requested(p) + Answered(p) <= 1
                 /\ At(p, {"refuse", "listen"}) /\ Couples(ctx[p].peer) =>
                      Requested(p) + Answered(p) = 1

\* A root that stays root and waits for the other's sets waits for one that
\* knows it: the sets are there, or the other is about to learn that it lost
\* (the comment "Found the true root PE of the other cluster").
PartnerAnswers ==
  \A p \in PEs : At(p, {"merge", "merge_request"}) =>
    LET q == ctx[p].peer  IN
    \/ \E i \in DOMAIN mail["root_info"][p] : mail["root_info"][p][i].pe = q
    \/ /\ At(q, {"refuse", "listen"}) /\ ctx[q].peer = p
       /\ \E i \in DOMAIN mail["ack_dead"][q] :
             mail["ack_dead"][q][i] = Ack(p, p, FALSE)

\* Both: no root asks in vain, neither before nor after the answer to its request.
RequestsAreAnswered == AnsweredOnce /\ PartnerAnswers

\* all_terminated_cluster_pes is accurate for a PE's cluster (inc/hoover.h:262):
\* a coupled PE that has exited is in it, or the PEs that stay would wait for it.
ClusterDeadIsAccurate ==
  \A p \in PEs : Settled(p) /\ ~ctx[p].terminating =>
    \A q \in ctx[p].coupled_pes : Alive(q) \/ q \in ctx[p].cluster_dead

\* A PE is never uncoupled again, whatever order roots merge and leave in.
ClustersOnlyGrow ==
  [][\A p \in PEs : ctx[p].prev_coupled_pes \subseteq ctx'[p].prev_coupled_pes]_vars

\* PEs that want only higher ones: no two clusters ever ask each other.
Ascending == \A p \in PEs : \A q \in ctx[p].app.wants : p < q

\* Every iteration of every PE ends: no member is forgotten by the root that
\* announces, no root waits for one that waits for it, and a PE that decides to
\* leave gets out.  (Clusters that ask each other may refuse each other forever.)
IterationsEnd == Ascending => \A p \in PEs : []<>At(p, {"work", "exited"})

\* Whom a PE wanted when its iteration reached the coupling it is coupled with
\* in the end, if that one stays, though its root may lose its role on the way.
WantedIsCoupled ==
  Ascending => \A p \in PEs : \A q \in p + 1 .. NPes - 1 :
    (At(p, {"gather", "info"}) /\ q \in ctx[p].coupled_pes)
      ~> (q \in ctx[p].prev_coupled_pes \/ At(q, {"exited"}))
=============================================================================
