-------------------------- MODULE CouplingClusters --------------------------
(***************************************************************************)
(* The coupling of Coupling.tla is one of Clusters.tla: what the state of  *)
(* the PEs and the messages on their way mean there.                       *)
(*                                                                         *)
(* A group is what a root in its loop has in coupled_pes, or what is on    *)
(* its way to the root it lost to.  A PE that terminates is gone there as  *)
(* soon as it has its last cluster, though it still sends its values and   *)
(* its dead messages.                                                      *)
(***************************************************************************)
EXTENDS Coupling

Loop    == {"find", "refuse", "listen", "merge", "merge_request", "check"}
Sharing == {"share", "share_coupled"}

Last(q) == ctx[q].terminating /\ At(q, {"values", "poll", "exiting", "exited"})

Elements(s) == {s[i] : i \in DOMAIN s}
InBox(b, p) == Elements(mail[b][p])
Infos(r)    == {m \in UNION {InBox("root_info", x) : x \in PEs} : m.pe = r}

Stage(p) ==
  IF Last(p) THEN "left"
  ELSE IF At(p, {"work", "gather", "values"}) THEN ctx[p].pc
  ELSE IF At(p, {"poll"}) THEN "decide" ELSE "wait"

Group(r)   == IF At(r, Loop \cup Sharing) THEN ctx[r].coupled_pes
              ELSE UNION {m.coupled : m \in Infos(r)}
Leavers(r) == IF At(r, Loop \cup Sharing \cup {"gather"}) THEN ctx[r].terminating_pes
              ELSE UNION {m.terminating : m \in Infos(r)}

\* What a member's wishes tell of the member.
ReportOf(m) == [pe |-> m.pe, leaving |-> IF m.terminating THEN {m.pe} ELSE {}]

\* The announcements of a type in a coupling_mailbox.
NewsIn(s, type) ==
  {[root |-> m.pe, set |-> m.set] : m \in {n \in Elements(s) : n.type = type}}
Announced(q, type) == NewsIn(mail["coupling"][q], type)

stage      == [p \in PEs |-> Stage(p)]
leaving    == {p \in PEs : ctx[p].terminating}
cluster    == [p \in PEs |-> ctx[p].prev_coupled_pes]
root       == [p \in PEs |-> ctx[p].coupled_pes_root]
dead       == [p \in PEs |-> ctx[p].cluster_dead]
old_dead   == [p \in PEs |-> ctx[p].prev_dead]
received   == [p \in PEs |-> IF Last(p) THEN {} ELSE ctx[p].received_from]
tosend     == [p \in PEs |-> IF At(p, {"values"}) THEN ctx[p].todo ELSE {}]
group      == [r \in PEs |-> Group(r)]
leavers    == [r \in PEs |-> Leavers(r)]
announcing == {r \in PEs : At(r, Sharing)}
held       == [r \in PEs |-> IF At(r, Sharing) THEN ctx[r].todo ELSE Group(r)]
told       == [r \in PEs |-> IF At(r, {"share_coupled"}) THEN {Least(ctx[r].todo)} ELSE {}]
chosen     == [r \in PEs |-> IF At(r, Sharing) THEN new_root(r) ELSE -1]
reports    == [r \in PEs |-> {ReportOf(m) : m \in InBox("to_couple_with", r)}]
dead_news  == [q \in PEs |-> Announced(q, "all_terminated")]
news       == [q \in PEs |-> Announced(q, "coupled")]
values     == [p \in PEs |-> IF Last(p) THEN {} ELSE InBox("value", p)]

Abstract == INSTANCE Clusters WITH None <- -1

\* Coupling.tla implements Clusters.tla: whichever root asks whom, and whichever
\* mailbox is read first, no PE takes a step that its cluster does not allow.
ImplementsClusters == Abstract!Spec
=============================================================================
