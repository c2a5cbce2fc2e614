------------------------------ MODULE Clusters ------------------------------
(***************************************************************************)
(* What the coupling of PEs promises, however the roots of clusters find   *)
(* each other: groups of whole clusters join, the result is announced to   *)
(* their members one by one, and a member exchanges values with the others *)
(* before it goes on.  Who leads a group while it grows, who asks whom to  *)
(* join and in which order messages lie in a mailbox is left open.         *)
(***************************************************************************)
EXTENDS Integers

CONSTANTS
  PEs,
  None          \* no PE: the root of a cluster that all have left

VARIABLES
  stage,        \* where each PE is in its iteration
  leaving,      \* the PEs whose next iteration is the last
  cluster,      \* the PEs it is coupled with
  root,         \* to whom it reports
  dead,         \* the members it knows to leave or to have left ...
  old_dead,     \* ... before the last announcement
  received,     \* whose report or value it has
  tosend,       \* the PEs it still sends its value to
  reports,      \* reports on their way to each root
  group,        \* the PEs that join, at the one who started; {} if none do
  leavers,      \* those of them that leave
  announcing,   \* whose group is complete and being announced,
  held,         \* to these members still,
  told,         \* of which this one knows the dead already,
  chosen,       \* with this root
  dead_news,    \* announcements on their way: the dead,
  news,         \* and the cluster
  values        \* values on their way: who sent them

own     == <<stage, leaving, cluster, root, dead, old_dead, received, tosend>>
joining == <<group, leavers, announcing, held, told, chosen>>
sent    == <<reports, dead_news, news, values>>
vars    == <<own, joining, sent>>

Each(x) == [p \in PEs |-> x]

Init ==
  /\ stage = Each("work") /\ leaving = {}
  /\ cluster = [p \in PEs |-> {p}] /\ root = [p \in PEs |-> p]
  /\ dead = Each({}) /\ old_dead = Each({})
  /\ received = Each({}) /\ tosend = Each({})
  /\ reports = Each({}) /\ dead_news = Each({}) /\ news = Each({}) /\ values = Each({})
  /\ group = Each({}) /\ leavers = Each({}) /\ announcing = {}
  /\ held = Each({}) /\ told = Each({}) /\ chosen = Each(None)

Gone(q)    == stage[q] = "left"      \* coupled for the last time
Joining(r) == group[r] # {} /\ r \notin announcing

\* A report to a root that is gone, or to none, may reach nobody.
Report(p) ==
  /\ stage[p] = "work"
  /\ IF root[p] = p
     THEN /\ stage' = [stage EXCEPT ![p] = "gather"]
          /\ received' = [received EXCEPT ![p] = dead[p]]
     ELSE stage' = [stage EXCEPT ![p] = "wait"] /\ UNCHANGED received
  /\ \/ /\ root[p] \in PEs
        /\ reports' = [reports EXCEPT ![root[p]] = @ \cup {[pe |-> p, leaving |-> leaving \cap {p}]}]
     \/ /\ root[p] \in PEs => Gone(root[p])
        /\ UNCHANGED reports
  /\ UNCHANGED <<leaving, cluster, root, dead, old_dead, tosend, joining, dead_news, news, values>>

Gather(r, m) ==
  /\ stage[r] = "gather" /\ m \in reports[r]
  /\ reports' = [reports EXCEPT ![r] = @ \ {m}]
  /\ received' = [received EXCEPT ![r] = @ \cup {m.pe}]
  /\ leavers' = [leavers EXCEPT ![r] = @ \cup m.leaving]
  /\ UNCHANGED <<stage, leaving, cluster, root, dead, old_dead, tosend,
                 group, announcing, held, told, chosen, dead_news, news, values>>

\* A root that has heard of its whole cluster starts a group with it.
Start(r) ==
  /\ stage[r] = "gather" /\ received[r] = cluster[r]
  /\ stage' = [stage EXCEPT ![r] = "wait"]
  /\ received' = [received EXCEPT ![r] = {}]
  /\ group' = [group EXCEPT ![r] = cluster[r]]
  /\ held' = [held EXCEPT ![r] = cluster[r]]
  /\ UNCHANGED <<leaving, cluster, root, dead, old_dead, tosend,
                 leavers, announcing, told, chosen, sent>>

\* A group is complete when its root finds nobody else to join.
Complete(r) ==
  /\ announcing' = announcing \cup {r}
  /\ \E x \in PEs \cup {None} : chosen' = [chosen EXCEPT ![r] = x]

Announce(r) ==
  /\ Joining(r) /\ Complete(r)
  /\ UNCHANGED <<own, group, leavers, held, told, sent>>

\* Two groups become one, which may be complete then.
Merge(r, s) ==
  /\ r # s /\ Joining(r) /\ Joining(s)
  /\ group' = [group EXCEPT ![r] = @ \cup group[s], ![s] = {}]
  /\ held' = [held EXCEPT ![r] = @ \cup held[s], ![s] = {}]
  /\ leavers' = [leavers EXCEPT ![r] = @ \cup leavers[s], ![s] = {}]
  /\ Complete(r) \/ UNCHANGED <<announcing, chosen>>
  /\ UNCHANGED <<own, told, sent>>

\* A group is handed to another root; one that is gone, or none, forgets it.
GiveUp(r) ==
  /\ Joining(r)
  /\ \E x \in PEs \cup {None} :
       /\ root' = [root EXCEPT ![r] = x]
       /\ \/ UNCHANGED <<group, held, leavers>>
          \/ /\ x \in PEs => Gone(x)
             /\ group' = [group EXCEPT ![r] = {}]
             /\ held' = [held EXCEPT ![r] = {}]
             /\ leavers' = [leavers EXCEPT ![r] = {}]
  /\ UNCHANGED <<stage, leaving, cluster, dead, old_dead, received, tosend,
                 announcing, told, chosen, sent>>

NewDead(r) == dead[r] \cup leavers[r]

TellDead(r, q) ==
  /\ r \in announcing /\ told[r] = {} /\ q \in held[r]
  /\ told' = [told EXCEPT ![r] = {q}]
  /\ dead_news' = IF Gone(q) THEN dead_news
                  ELSE [dead_news EXCEPT ![q] = @ \cup {[root |-> chosen[r], set |-> NewDead(r)]}]
  /\ UNCHANGED <<own, group, leavers, announcing, held, chosen, reports, news, values>>

Tell(r, q) ==
  /\ r \in announcing /\ q \in told[r]
  /\ told' = [told EXCEPT ![r] = {}]
  /\ held' = [held EXCEPT ![r] = @ \ {q}]
  /\ news' = IF Gone(q) THEN news
             ELSE [news EXCEPT ![q] = @ \cup {[root |-> chosen[r], set |-> group[r]]}]
  /\ IF held[r] = {q}
     THEN /\ group' = [group EXCEPT ![r] = {}]
          /\ leavers' = [leavers EXCEPT ![r] = {}]
          /\ announcing' = announcing \ {r}
          /\ chosen' = [chosen EXCEPT ![r] = None]
     ELSE UNCHANGED <<group, leavers, announcing, chosen>>
  /\ UNCHANGED <<own, reports, dead_news, values>>

\* The announcements are taken in this order.
TakeDead(q, m) ==
  /\ stage[q] = "wait" /\ q \notin announcing /\ m \in dead_news[q]
  /\ dead_news' = [dead_news EXCEPT ![q] = @ \ {m}]
  /\ old_dead' = [old_dead EXCEPT ![q] = dead[q]]
  /\ dead' = [dead EXCEPT ![q] = m.set]
  /\ root' = [root EXCEPT ![q] = m.root]
  /\ UNCHANGED <<stage, leaving, cluster, received, tosend, joining, reports, news, values>>

\* One that is gone still sends its value, and needs none.
Take(q, m) ==
  /\ stage[q] = "wait" /\ q \notin announcing /\ dead_news[q] = {} /\ m \in news[q]
  /\ news' = [news EXCEPT ![q] = @ \ {m}]
  /\ cluster' = [cluster EXCEPT ![q] = m.set]
  /\ root' = [root EXCEPT ![q] = m.root]
  /\ tosend' = [tosend EXCEPT ![q] = m.set \ old_dead[q]]
  /\ IF q \in leaving
     THEN /\ stage' = [stage EXCEPT ![q] = "left"]
          /\ values' = [values EXCEPT ![q] = {}]
          /\ received' = [received EXCEPT ![q] = {}]
     ELSE /\ stage' = [stage EXCEPT ![q] = "values"]
          /\ received' = [received EXCEPT ![q] = m.set \cap old_dead[q]]
          /\ UNCHANGED values
  /\ UNCHANGED <<leaving, dead, old_dead, joining, reports, dead_news>>

SendValue(q, p) ==
  /\ p \in tosend[q]
  /\ tosend' = [tosend EXCEPT ![q] = @ \ {p}]
  /\ values' = IF Gone(p) THEN values ELSE [values EXCEPT ![p] = @ \cup {q}]
  /\ UNCHANGED <<stage, leaving, cluster, root, dead, old_dead, received,
                 joining, reports, dead_news, news>>

ReceiveValue(p, q) ==
  /\ stage[p] = "values" /\ q \in values[p]
  /\ values' = [values EXCEPT ![p] = @ \ {q}]
  /\ received' = [received EXCEPT ![p] = @ \cup {q}]
  /\ UNCHANGED <<stage, leaving, cluster, root, dead, old_dead, tosend,
                 joining, reports, dead_news, news>>

ValuesDone(p) ==
  /\ stage[p] = "values" /\ tosend[p] = {} /\ received[p] = cluster[p]
  /\ stage' = [stage EXCEPT ![p] = "decide"]
  /\ received' = [received EXCEPT ![p] = {}]
  /\ UNCHANGED <<leaving, cluster, root, dead, old_dead, tosend, joining, sent>>

Decide(p) ==
  /\ stage[p] = "decide"
  /\ stage' = [stage EXCEPT ![p] = "work"]
  /\ leaving' \in {leaving, leaving \cup {p}}
  /\ UNCHANGED <<cluster, root, dead, old_dead, received, tosend, joining, sent>>

Step(p) ==
  \/ Report(p) \/ Start(p) \/ GiveUp(p) \/ Announce(p) \/ ValuesDone(p) \/ Decide(p)
  \/ \E m \in reports[p] : Gather(p, m)
  \/ \E m \in dead_news[p] : TakeDead(p, m)
  \/ \E m \in news[p] : Take(p, m)
  \/ \E q \in PEs : \/ Merge(p, q) \/ TellDead(p, q) \/ Tell(p, q)
                    \/ SendValue(p, q) \/ ReceiveValue(p, q)

Next == \E p \in PEs : Step(p)

Spec == Init /\ [][Next]_vars
-----------------------------------------------------------------------------
\* A PE is never uncoupled again.
OnlyGrow == [][\A p \in PEs : cluster[p] \subseteq cluster'[p]]_vars

\* PEs that exchange values, are coupled and stay have the same view.
Settled(p) == stage[p] \in {"values", "decide"}
Agree ==
  \A p, q \in PEs : Settled(p) /\ Settled(q) /\ q \in cluster[p] =>
    cluster[q] = cluster[p] /\ root[q] = root[p] /\ dead[q] = dead[p]
=============================================================================
