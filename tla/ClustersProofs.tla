--------------------------- MODULE ClustersProofs ---------------------------
(***************************************************************************)
(* Proofs about Clusters, for any set of PEs: a PE is never uncoupled      *)
(* again, and PEs that are coupled and stay agree on their cluster.        *)
(***************************************************************************)
EXTENDS Clusters, TLAPS

\* q is in a cluster that it has yet to take: announced, or about to be.
Due(q) == ~Gone(q) /\ (news[q] # {} \/ \E r \in announcing : q \in held[r])

\* The cluster of q as the others see it, in a set of at most one.
Claims(q) ==
  IF Gone(q) THEN {}
  ELSE {m.set : m \in news[q]} \cup {group[r] : r \in {s \in announcing : q \in held[s]}}
       \cup (IF Due(q) THEN {} ELSE {cluster[q]})

Bound(q)    == news[q] # {} \/ \E r \in PEs : q \in held[r]
Informed(q) == ~Gone(q) /\ dead_news[q] = {} /\ (news[q] # {} \/ \E r \in PEs : q \in told[r])

\* q is gone and p will get no value from it.
Through(q, p) == Gone(q) /\ p \notin tosend[q] /\ q \notin values[p]
Leaver(q)     == Gone(q) \/ (q \in leaving /\ Due(q))

Types ==
  /\ stage \in [PEs -> {"work", "gather", "wait", "values", "decide", "left"}]
  /\ leaving \subseteq PEs /\ announcing \subseteq PEs
  /\ cluster \in [PEs -> SUBSET PEs] /\ root \in [PEs -> PEs \cup {None}]
  /\ dead \in [PEs -> SUBSET PEs] /\ old_dead \in [PEs -> SUBSET PEs]
  /\ received \in [PEs -> SUBSET PEs] /\ tosend \in [PEs -> SUBSET PEs]
  /\ group \in [PEs -> SUBSET PEs] /\ leavers \in [PEs -> SUBSET PEs]
  /\ held \in [PEs -> SUBSET PEs] /\ told \in [PEs -> SUBSET PEs]
  /\ chosen \in [PEs -> PEs \cup {None}]
  /\ reports \in [PEs -> SUBSET [pe : PEs, leaving : SUBSET PEs]]
  /\ dead_news \in [PEs -> SUBSET [root : PEs \cup {None}, set : SUBSET PEs]]
  /\ news \in [PEs -> SUBSET [root : PEs \cup {None}, set : SUBSET PEs]]
  /\ values \in [PEs -> SUBSET PEs]

\* A cluster contains its members and, with each, all it was coupled with.
Owned ==
  \A q \in PEs : \A S \in Claims(q) :
    /\ q \in S /\ cluster[q] \subseteq S /\ dead[q] \subseteq S
    /\ \A m \in dead_news[q] : m.set \subseteq S

\* Clusters are equal or disjoint ...
Apart == \A p, q, x \in PEs : \A S \in Claims(p), T \in Claims(q) :
           x \in S /\ x \in T => S = T
\* ... and so are groups, and a cluster that meets one that still grows is in it.
Disjoint == \A r, s, x \in PEs : x \in group[r] /\ x \in group[s] => r = s
Closed == \A r \in PEs \ announcing : \A q, x \in PEs : \A S \in Claims(q) :
            x \in S /\ x \in group[r] => S \subseteq group[r]

OneNews ==
  \A q \in PEs :
    /\ \A m, n \in news[q] : m = n
    /\ \A m, n \in dead_news[q] : m = n
    /\ \A r \in PEs : ~Gone(q) /\ q \in held[r] => news[q] = {}

\* Whoever is in a group or has an announcement on its way waits for it.
Waiting ==
  /\ \A r \in PEs : \A q \in held[r] : Gone(q) \/ stage[q] = "wait"
  /\ \A q \in PEs : news[q] # {} \/ dead_news[q] # {} => stage[q] = "wait"
  /\ \A q \in PEs : dead_news[q] # {} => news[q] # {} \/ \E r \in PEs : q \in told[r]

Groups ==
  \A r \in PEs :
    /\ held[r] \subseteq group[r] /\ told[r] \subseteq held[r]
    /\ r \notin announcing => held[r] = group[r] /\ told[r] = {}
    /\ group[r] # {} => r \in group[r] /\ stage[r] = "wait"
    /\ r \in announcing => /\ held[r] # {} /\ (r \in held[r] \/ news[r] # {})
                           /\ \A m \in news[r] : m.set = group[r]
    /\ \A x, y \in told[r] : x = y
    /\ leavers[r] \subseteq group[r] \cup (IF stage[r] = "gather" THEN received[r] ELSE {})

\* Who counts as leaving does not stay, whatever happens to its group.
LeaversLeave ==
  /\ \A r \in PEs : \A q \in leavers[r] : q \in leaving /\ stage[q] \in {"gather", "wait", "left"}
  /\ \A p \in PEs : \A m \in dead_news[p] : \A q \in m.set : Leaver(q)
  /\ \A p \in PEs : stage[p] = "values" \/ Informed(p) => \A q \in dead[p] : Leaver(q)

\* While one member has yet to take a cluster, no other is past its values.
Together ==
  \A p, q \in PEs : \A S \in Claims(q) :
    Due(q) /\ p \in S => Gone(p) \/ Due(p) \/ stage[p] = "values"

\* q has a value to come for p: p needs it still.
Needs(p, q) ==
  /\ Due(p) \/ (stage[p] = "values" /\ q \notin received[p])
  /\ \A S \in Claims(p) : q \in S

Taken ==
  \A p \in PEs : stage[p] = "values" => \A q \in received[p] : ~Due(q) /\ q \in cluster[p]
OnTheWay == \A p \in PEs : ~Gone(p) => \A q \in values[p] : ~Due(q) /\ Needs(p, q)
ToSend ==
  \A q \in PEs : \A p \in tosend[q] :
    /\ stage[q] \in {"values", "left"}
    /\ ~Gone(p) => q \notin values[p] /\ Needs(p, q)

\* The dead of a PE's last cluster send it nothing any more.
DeadAreThrough ==
  \A p \in PEs : ~Gone(p) /\ stage[p] # "values" =>
    /\ Informed(p)  => \A q \in old_dead[p] : Through(q, p)
    /\ ~Informed(p) => \A q \in dead[p] : Through(q, p)

\* Who has reported to a root is in no group and announces nothing yet.
Reported(q, r) == ~Bound(q) /\ root[q] = r /\ (stage[q] = "wait" \/ (q = r /\ stage[r] = "gather"))
Reporting ==
  /\ \A r \in PEs : \A m \in reports[r] :
       /\ Reported(m.pe, r) /\ m.leaving = leaving \cap {m.pe}
       /\ stage[r] = "gather" => m.pe \notin received[r]
  /\ \A r \in PEs : stage[r] = "gather" =>
       /\ root[r] = r /\ ~Bound(r)
       /\ \A q \in received[r] : Gone(q) \/ Reported(q, r)

IInv ==
  /\ Types /\ Owned /\ Apart /\ Disjoint /\ Closed /\ OneNews /\ Waiting /\ Groups
  /\ LeaversLeave /\ Together /\ Taken /\ OnTheWay /\ ToSend
  /\ DeadAreThrough /\ Reporting

\* What a PE sees or will see of its cluster.
DeadLists(p) == IF dead_news[p] = {} THEN {dead[p]} ELSE {m.set : m \in dead_news[p]}
Views(p) ==
  {[set |-> m.set, root |-> m.root, dead |-> d] : m \in news[p], d \in DeadLists(p)} \cup
  (IF Settled(p) THEN {[set |-> cluster[p], root |-> root[p], dead |-> dead[p]]} ELSE {})

OneView ==
  /\ \A p, q \in PEs : \A v \in Views(p), w \in Views(q) : v.set = w.set => v = w
  /\ \A r \in announcing, p \in PEs : \A v \in Views(p) :
       v.set = group[r] => v.root = chosen[r] /\ v.dead = NewDead(r)
  /\ \A r \in PEs : \A p \in told[r] : ~Gone(p) => DeadLists(p) = {NewDead(r)}
-----------------------------------------------------------------------------
USE DEF Gone

\* No step takes a variable out of its type.
LEMMA TypesKept == ASSUME Types, [Next]_vars PROVE Types'
<1>1. CASE UNCHANGED vars
  BY <1>1 DEF Types, vars, own, joining, sent
<1>2. ASSUME NEW p \in PEs, Report(p) PROVE Types'
  <2>1. /\ stage' \in [PEs -> {"work", "gather", "wait", "values", "decide", "left"}]
        /\ received' \in [PEs -> SUBSET PEs]
    <3>1. CASE root[p] = p
      <4>1. stage' = [stage EXCEPT ![p] = "gather"] /\ received' = [received EXCEPT ![p] = dead[p]]
        BY <1>2, <3>1 DEF Report
      <4>2. dead[p] \in SUBSET PEs /\ received \in [PEs -> SUBSET PEs]
        BY DEF Types
      <4>3. received' \in [PEs -> SUBSET PEs]
        BY <4>1, <4>2
      <4> QED
        BY <4>1, <4>3 DEF Types
    <3>2. CASE root[p] # p
      BY <1>2, <3>2 DEF Types, Report
    <3> QED
      BY <3>1, <3>2
  <2>2. reports' \in [PEs -> SUBSET [pe : PEs, leaving : SUBSET PEs]]
    BY <1>2 DEF Types, Report
  <2> QED
    BY <1>2, <2>1, <2>2 DEF Types, Report, joining
<1>3. ASSUME NEW p \in PEs, NEW m \in reports[p], Gather(p, m) PROVE Types'
  <2>1. m.pe \in PEs /\ m.leaving \in SUBSET PEs
    BY DEF Types
  <2>2. reports' \in [PEs -> SUBSET [pe : PEs, leaving : SUBSET PEs]]
    BY <1>3 DEF Types, Gather
  <2>3. received' \in [PEs -> SUBSET PEs] /\ leavers' \in [PEs -> SUBSET PEs]
    BY <1>3, <2>1 DEF Types, Gather
  <2> QED
    BY <1>3, <2>2, <2>3 DEF Types, Gather
<1>4. ASSUME NEW p \in PEs, Start(p) PROVE Types'
  BY <1>4 DEF Types, Start, sent
<1>5. ASSUME NEW p \in PEs, NEW s \in PEs, Merge(p, s) PROVE Types'
  <2>1. announcing' \subseteq PEs /\ chosen' \in [PEs -> PEs \cup {None}]
    BY <1>5 DEF Types, Merge, Complete
  <2>2. group' \in [PEs -> SUBSET PEs]
    BY <1>5 DEF Types, Merge
  <2>3. held' \in [PEs -> SUBSET PEs]
    BY <1>5 DEF Types, Merge
  <2>4. leavers' \in [PEs -> SUBSET PEs]
    BY <1>5 DEF Types, Merge
  <2> QED
    BY <1>5, <2>1, <2>2, <2>3, <2>4 DEF Types, Merge, own, sent
<1>6. ASSUME NEW p \in PEs, GiveUp(p) PROVE Types'
  <2>1. root' \in [PEs -> PEs \cup {None}]
    BY <1>6 DEF Types, GiveUp
  <2>2. group' \in [PEs -> SUBSET PEs]
    BY <1>6 DEF Types, GiveUp
  <2>3. held' \in [PEs -> SUBSET PEs]
    BY <1>6 DEF Types, GiveUp
  <2>4. leavers' \in [PEs -> SUBSET PEs]
    BY <1>6 DEF Types, GiveUp
  <2> QED
    BY <1>6, <2>1, <2>2, <2>3, <2>4 DEF Types, GiveUp, sent
<1>7. ASSUME NEW p \in PEs, Announce(p) PROVE Types'
  BY <1>7 DEF Types, Announce, Complete, own, sent
<1>8. ASSUME NEW p \in PEs, NEW q \in PEs, TellDead(p, q) PROVE Types'
  BY <1>8 DEF Types, TellDead, NewDead, own
<1>9. ASSUME NEW p \in PEs, NEW q \in PEs, Tell(p, q) PROVE Types'
  <2>1. news' \in [PEs -> SUBSET [root : PEs \cup {None}, set : SUBSET PEs]]
    BY <1>9 DEF Types, Tell
  <2>2. group' \in [PEs -> SUBSET PEs] /\ leavers' \in [PEs -> SUBSET PEs]
    BY <1>9, ZenonT(60) DEF Types, Tell
  <2>3. announcing' \subseteq PEs /\ chosen' \in [PEs -> PEs \cup {None}]
    BY <1>9 DEF Types, Tell
  <2>4. held' \in [PEs -> SUBSET PEs] /\ told' \in [PEs -> SUBSET PEs]
    BY <1>9, SMTT(30) DEF Types, Tell
  <2> QED
    BY <1>9, <2>1, <2>2, <2>3, <2>4 DEF Types, Tell, own
<1>10. ASSUME NEW p \in PEs, NEW m \in dead_news[p], TakeDead(p, m) PROVE Types'
  BY <1>10 DEF Types, TakeDead, joining
<1>11. ASSUME NEW p \in PEs, NEW m \in news[p], Take(p, m) PROVE Types'
  <2>1. m.set \in SUBSET PEs /\ m.root \in PEs \cup {None}
    BY DEF Types
  <2>2. /\ stage' \in [PEs -> {"work", "gather", "wait", "values", "decide", "left"}]
        /\ values' \in [PEs -> SUBSET PEs] /\ received' \in [PEs -> SUBSET PEs]
    <3>1. CASE p \in leaving
      BY <1>11, <3>1 DEF Types, Take
    <3>2. CASE p \notin leaving
      BY <1>11, <2>1, <3>2, SMTT(40) DEF Types, Take
    <3> QED
      BY <3>1, <3>2
  <2>3. /\ cluster' \in [PEs -> SUBSET PEs] /\ root' \in [PEs -> PEs \cup {None}]
        /\ tosend' \in [PEs -> SUBSET PEs]
        /\ news' \in [PEs -> SUBSET [root : PEs \cup {None}, set : SUBSET PEs]]
    BY <1>11, <2>1 DEF Types, Take
  <2> QED
    BY <1>11, <2>2, <2>3 DEF Types, Take, joining
<1>12. ASSUME NEW p \in PEs, NEW q \in PEs, SendValue(p, q) PROVE Types'
  BY <1>12 DEF Types, SendValue, joining
<1>13. ASSUME NEW p \in PEs, NEW q \in PEs, ReceiveValue(p, q) PROVE Types'
  BY <1>13 DEF Types, ReceiveValue, joining
<1>14. ASSUME NEW p \in PEs, ValuesDone(p) PROVE Types'
  BY <1>14 DEF Types, ValuesDone, joining, sent
<1>15. ASSUME NEW p \in PEs, Decide(p) PROVE Types'
  BY <1>15 DEF Types, Decide, joining, sent
<1> QED
  BY <1>1, <1>2, <1>3, <1>4, <1>5, <1>6, <1>7, <1>8, <1>9, <1>10, <1>11, <1>12,
     <1>13, <1>14, <1>15 DEF Next, Step

\* In the first state everybody is alone.
LEMMA InitEstablishes == Init => IInv /\ OneView
<1> SUFFICES ASSUME Init PROVE IInv /\ OneView
  OBVIOUS
<1> USE DEF Init, Each
<1>1. \A q \in PEs : ~Gone(q) /\ ~Due(q) /\ Claims(q) = {{q}} /\ ~Informed(q)
  BY DEF Due, Claims, Informed
<1>2. Types
  BY DEF Types
<1>3. Owned
  <2> SUFFICES ASSUME NEW q \in PEs, NEW S \in Claims(q)
               PROVE  /\ q \in S /\ cluster[q] \subseteq S /\ dead[q] \subseteq S
                      /\ \A m \in dead_news[q] : m.set \subseteq S
    BY DEF Owned
  <2>1. S = {q}
    BY <1>1
  <2> QED
    BY <2>1
<1>8. Apart
  <2> SUFFICES ASSUME NEW p \in PEs, NEW q \in PEs, NEW x \in PEs,
                      NEW S \in Claims(p), NEW T \in Claims(q), x \in S, x \in T
               PROVE  S = T
    BY DEF Apart
  <2>1. S = {p} /\ T = {q}
    BY <1>1
  <2> QED
    BY <2>1
<1>7. Disjoint /\ Closed
  BY DEF Disjoint, Closed
<1>4. OneNews /\ Waiting /\ Groups /\ LeaversLeave
  BY <1>1 DEF OneNews, Waiting, Groups, LeaversLeave
<1>5. Together /\ Taken /\ OnTheWay /\ ToSend /\ DeadAreThrough /\ Reporting
  BY <1>1 DEF Together, Taken, OnTheWay, ToSend, DeadAreThrough, Reporting
<1>6. OneView
  BY DEF OneView, Views, Settled
<1> QED
  BY <1>2, <1>3, <1>4, <1>5, <1>6, <1>7, <1>8 DEF IInv

\* Whom a PE claims: the cluster announced to it if one is, else its own.
LEMMA ClaimsAre ==
  \A q \in PEs : \A S : S \in Claims(q) <=>
    /\ ~Gone(q)
    /\ \/ \E m \in news[q] : S = m.set
       \/ \E r \in announcing : q \in held[r] /\ S = group[r]
       \/ ~Due(q) /\ S = cluster[q]
BY DEF Claims

\* Nothing but announcements and what becomes of them changes a cluster.
LEMMA SameClaims ==
  ASSUME news' = news, cluster' = cluster, announcing' = announcing,
         \A q \in PEs : Gone(q)' <=> Gone(q),
         \A r \in announcing : held'[r] = held[r] /\ group'[r] = group[r]
  PROVE  \A q \in PEs : (Due(q)' <=> Due(q)) /\ Claims(q)' = Claims(q)
<1> SUFFICES ASSUME NEW q \in PEs PROVE (Due(q)' <=> Due(q)) /\ Claims(q)' = Claims(q)
  OBVIOUS
<1>1. Due(q)' <=> Due(q)
  BY DEF Due
<1> QED
  BY <1>1 DEF Claims

\* Report(p) moves p to the stage in which it waits for its root.
LEMMA ReportKeeps == ASSUME IInv, NEW p \in PEs, Report(p) PROVE IInv'
<1> USE DEF IInv
<1>1. Types'
  BY TypesKept DEF Next, Step
<1>2. /\ UNCHANGED <<leaving, cluster, root, dead, old_dead, tosend, dead_news, news, values,
                     group, leavers, announcing, held, told, chosen>>
      /\ stage[p] = "work" /\ stage'[p] \in {"gather", "wait"}
      /\ \A q \in PEs : q # p => stage'[q] = stage[q] /\ received'[q] = received[q]
      /\ stage'[p] = "gather" <=> root[p] = p
      /\ received'[p] = IF root[p] = p THEN dead[p] ELSE received[p]
  BY DEF Report, joining, Types
<1>3. /\ \A q \in PEs : (Due(q)' <=> Due(q)) /\ Claims(q)' = Claims(q)
      /\ \A q \in PEs : (Gone(q)' <=> Gone(q)) /\ (Leaver(q)' <=> Leaver(q))
      /\ \A q \in PEs : Informed(q)' <=> Informed(q)
      /\ \A q \in PEs : Bound(q)' <=> Bound(q)
  <2>1. \A q \in PEs : Gone(q)' <=> Gone(q)
    BY <1>2
  <2>2. \A q \in PEs : (Due(q)' <=> Due(q)) /\ Claims(q)' = Claims(q)
    BY <1>2, <2>1, SameClaims
  <2> QED
    BY <1>2, <2>1, <2>2 DEF Leaver, Informed, Bound
<1>4. ~Bound(p) /\ ~Due(p) /\ ~Informed(p) /\ group[p] = {}
  BY <1>2 DEF Waiting, Bound, Due, Groups, Informed, Types
<1>5. Owned' /\ Apart'
  BY <1>2, <1>3 DEF Owned, Apart
<1>6. Disjoint' /\ Closed'
  BY <1>2, <1>3 DEF Disjoint, Closed
<1>7. OneNews'
  BY <1>2, <1>3 DEF OneNews
<1>8. Waiting'
  BY <1>2, <1>3, <1>4, SMTT(30) DEF Waiting, Types
<1>9. Groups'
  BY <1>2, <1>3, <1>4 DEF Groups
<1>10. LeaversLeave'
  BY <1>2, <1>3, <1>4 DEF LeaversLeave, Types
<1>11. Together'
  BY <1>2, <1>3, <1>4 DEF Together
<1>12. Taken' /\ OnTheWay' /\ ToSend'
  <2>1. \A q \in PEs : ~Needs(p, q)
    BY <1>2, <1>4 DEF Needs
  <2>2. \A x, q \in PEs : x # p => (Needs(x, q)' <=> Needs(x, q))
    BY <1>2, <1>3 DEF Needs
  <2>3. Taken'
    BY <1>2, <1>3 DEF Taken, Types
  <2>4. OnTheWay'
    BY <1>2, <1>3, <2>1, <2>2 DEF OnTheWay, Types
  <2>5. ToSend'
    BY <1>2, <1>3, <2>1, <2>2 DEF ToSend, Types
  <2> QED
    BY <2>3, <2>4, <2>5
<1>13. DeadAreThrough'
  BY <1>2, <1>3, <1>4 DEF DeadAreThrough, Through, Types
<1>14. Reporting'
  <2>1. \A r \in PEs, q \in PEs : Reported(q, r) => q # p /\ Reported(q, r)'
    BY <1>2, <1>3 DEF Reported
  <2>2. \A q \in dead[p] : Gone(q)
    BY <1>2, <1>4 DEF DeadAreThrough, Through
  <2>3. ASSUME NEW r \in PEs, NEW m \in reports'[r]
        PROVE  /\ Reported(m.pe, r)' /\ m.leaving = leaving' \cap {m.pe}
               /\ stage'[r] = "gather" => m.pe \notin received'[r]
    <3>1. CASE m \in reports[r]
      <4>1. m.pe \in PEs /\ Reported(m.pe, r) /\ m.pe # p /\ ~Gone(m.pe)
        BY <2>1, <3>1 DEF Reporting, Types, Reported
      <4> QED
        BY <1>2, <2>1, <2>2, <3>1, <4>1 DEF Reporting, Types
    <3>2. CASE m \notin reports[r]
      <4>1. r = root[p] /\ m = [pe |-> p, leaving |-> leaving \cap {p}]
        BY <3>2 DEF Report, Types
      <4>2. Reported(p, r)'
        BY <1>2, <1>3, <1>4, <4>1 DEF Reported
      <4>3. stage'[r] = "gather" => p \notin received'[r]
        <5>1. CASE r = p
          BY <1>2, <2>2, <4>1, <5>1
        <5>2. CASE r # p
          BY <1>2, <5>2, <2>1 DEF Reporting, Types
        <5> QED
          BY <5>1, <5>2
      <4> QED
        BY <1>2, <4>1, <4>2, <4>3
    <3> QED
      BY <3>1, <3>2
  <2>4. ASSUME NEW r \in PEs, stage'[r] = "gather"
        PROVE  /\ root'[r] = r /\ ~Bound(r)'
               /\ \A q \in received'[r] : Gone(q)' \/ Reported(q, r)'
    <3>1. CASE r = p
      BY <1>2, <1>3, <1>4, <2>2, <2>4, <3>1 DEF Types
    <3>2. CASE r # p
      BY <1>2, <1>3, <2>1, <2>4, <3>2 DEF Reporting, Types
    <3> QED
      BY <3>1, <3>2
  <2> QED
    BY <2>3, <2>4 DEF Reporting
<1> QED
  BY <1>1, <1>5, <1>6, <1>7, <1>8, <1>9, <1>10, <1>11, <1>12, <1>13, <1>14

\* A report is what it says.
LEMMA SameReport ==
  ASSUME NEW m \in [pe : PEs, leaving : SUBSET PEs], NEW n \in [pe : PEs, leaving : SUBSET PEs],
         m.pe = n.pe, m.leaving = n.leaving
  PROVE  m = n
OBVIOUS

\* Gather(p, m) notes who has reported, and that it leaves.
LEMMA GatherKeeps ==
  ASSUME IInv, NEW p \in PEs, NEW m \in reports[p], Gather(p, m) PROVE IInv'
<1> USE DEF IInv
<1>1. Types'
  BY TypesKept DEF Next, Step
<1>2. /\ UNCHANGED <<stage, leaving, cluster, root, dead, old_dead, tosend, dead_news, news,
                     values, group, announcing, held, told, chosen>>
      /\ stage[p] = "gather"
      /\ \A q \in PEs : q # p => /\ reports'[q] = reports[q] /\ received'[q] = received[q]
                                 /\ leavers'[q] = leavers[q]
      /\ reports'[p] = reports[p] \ {m}
      /\ received'[p] = received[p] \cup {m.pe} /\ leavers'[p] = leavers[p] \cup m.leaving
  BY DEF Gather, Types
<1>3. /\ \A q \in PEs : (Due(q)' <=> Due(q)) /\ Claims(q)' = Claims(q)
      /\ \A q \in PEs : (Gone(q)' <=> Gone(q)) /\ (Leaver(q)' <=> Leaver(q))
      /\ \A q \in PEs : (Informed(q)' <=> Informed(q)) /\ (Bound(q)' <=> Bound(q))
      /\ \A q, r \in PEs : Reported(q, r)' <=> Reported(q, r)
  <2>1. \A q \in PEs : (Due(q)' <=> Due(q)) /\ Claims(q)' = Claims(q)
    BY <1>2, SameClaims
  <2> QED
    BY <1>2, <2>1 DEF Leaver, Informed, Bound, Reported
<1>4. /\ m.pe \in PEs /\ Reported(m.pe, p) /\ m.leaving = leaving \cap {m.pe}
      /\ stage[m.pe] \in {"wait", "gather"}
  BY DEF Reporting, Types, Reported
<1>5. Owned' /\ Apart'
  BY <1>2, <1>3 DEF Owned, Apart
<1>6. Disjoint' /\ Closed'
  BY <1>2, <1>3 DEF Disjoint, Closed
<1>7. OneNews' /\ Waiting'
  BY <1>2, <1>3 DEF OneNews, Waiting
<1>9. Groups'
  BY <1>2, <1>3, <1>4 DEF Groups, Types
<1>10. LeaversLeave'
  BY <1>2, <1>3, <1>4 DEF LeaversLeave, Types
<1>11. Together'
  BY <1>2, <1>3 DEF Together
<1>12. Taken' /\ OnTheWay' /\ ToSend'
  <2>1. \A x, q \in PEs : Needs(x, q)' <=> Needs(x, q)
    BY <1>2, <1>3 DEF Needs
  <2>2. Taken'
    BY <1>2, <1>3 DEF Taken, Types
  <2> QED
    BY <1>2, <1>3, <2>1, <2>2 DEF OnTheWay, ToSend, Types
<1>13. DeadAreThrough'
  BY <1>2, <1>3 DEF DeadAreThrough, Through, Types
<1>14. Reporting'
  <2>1. ASSUME NEW r \in PEs, NEW n \in reports'[r]
        PROVE  /\ Reported(n.pe, r)' /\ n.leaving = leaving' \cap {n.pe}
               /\ stage'[r] = "gather" => n.pe \notin received'[r]
    <3>1. /\ n \in reports[r] /\ n.pe \in PEs
          /\ n \in [pe : PEs, leaving : SUBSET PEs] /\ m \in [pe : PEs, leaving : SUBSET PEs]
      BY <1>2, <2>1 DEF Types
    <3>2. Reported(n.pe, r) /\ n.leaving = leaving \cap {n.pe}
      BY <3>1 DEF Reporting
    <3>3. r = p => n.pe # m.pe
      <4>1. SUFFICES ASSUME r = p, n.pe = m.pe PROVE n = m
        BY <1>2, <2>1
      <4>2. n.leaving = m.leaving
        BY <1>4, <3>2, <4>1
      <4> QED
        BY <3>1, <4>1, <4>2, SameReport
    <3> QED
      BY <1>2, <1>3, <3>1, <3>2, <3>3 DEF Reporting
  <2>2. ASSUME NEW r \in PEs, stage'[r] = "gather"
        PROVE  /\ root'[r] = r /\ ~Bound(r)'
               /\ \A q \in received'[r] : Gone(q)' \/ Reported(q, r)'
    BY <1>2, <1>3, <1>4, <2>2, SMTT(30) DEF Reporting, Types
  <2> QED
    BY <2>1, <2>2 DEF Reporting
<1> QED
  BY <1>1, <1>5, <1>6, <1>7, <1>9, <1>10, <1>11, <1>12, <1>13, <1>14

\* Start(p): all of p's cluster have reported, so that they are in no group yet.
LEMMA StartKeeps == ASSUME IInv, NEW p \in PEs, Start(p) PROVE IInv'
<1> USE DEF IInv
<1>1. Types'
  BY TypesKept DEF Next, Step
<1>2. /\ UNCHANGED <<leaving, cluster, root, dead, old_dead, tosend, leavers, announcing,
                     told, chosen, reports, dead_news, news, values>>
      /\ stage[p] = "gather" /\ stage'[p] = "wait"
      /\ received[p] = cluster[p] /\ received'[p] = {}
      /\ \A q \in PEs : q # p => /\ stage'[q] = stage[q] /\ received'[q] = received[q]
                                 /\ group'[q] = group[q] /\ held'[q] = held[q]
      /\ group'[p] = cluster[p] /\ held'[p] = cluster[p]
  BY DEF Start, sent, Types
<1>3. /\ ~Bound(p) /\ root[p] = p /\ group[p] = {} /\ held[p] = {} /\ ~Gone(p) /\ ~Due(p)
      /\ p \notin announcing /\ told[p] = {}
      /\ \A q \in cluster[p] : Gone(q) \/ Reported(q, p)
  <2>1. ~Bound(p) /\ root[p] = p /\ \A q \in cluster[p] : Gone(q) \/ Reported(q, p)
    BY <1>2 DEF Reporting
  <2>2. group[p] = {} /\ held[p] = {}
    BY <1>2 DEF Groups
  <2>3. p \notin announcing /\ told[p] = {}
    BY <2>2 DEF Groups
  <2> QED
    BY <1>2, <2>1, <2>2, <2>3 DEF Bound, Due, Types
<1>4. /\ \A q \in PEs : (Due(q)' <=> Due(q)) /\ Claims(q)' = Claims(q)
      /\ \A q \in PEs : (Gone(q)' <=> Gone(q)) /\ (Leaver(q)' <=> Leaver(q))
      /\ \A q \in PEs : Informed(q)' <=> Informed(q)
      /\ \A q \in PEs : Bound(q)' => Bound(q) \/ q \in cluster[p]
  <2>1. \A q \in PEs : Gone(q)' <=> Gone(q)
    BY <1>2
  <2>2. \A q \in PEs : (Due(q)' <=> Due(q)) /\ Claims(q)' = Claims(q)
    <3>1. \A r \in announcing : held'[r] = held[r] /\ group'[r] = group[r]
      BY <1>2, <1>3 DEF Types
    <3> QED
      BY <1>2, <2>1, <3>1, SameClaims
  <2> QED
    BY <1>2, <2>1, <2>2 DEF Leaver, Informed, Bound
<1>5. cluster[p] \in Claims(p) /\ p \in cluster[p]
  BY <1>3, ClaimsAre DEF Owned
<1>6. Owned' /\ Apart'
  BY <1>2, <1>4 DEF Owned, Apart
<1>7. \A q, x \in PEs : \A S \in Claims(q) : x \in S /\ x \in cluster[p] => S = cluster[p]
  BY <1>5 DEF Apart
<1>8. ASSUME NEW r \in PEs, r # p, NEW x \in PEs, x \in group[r], x \in cluster[p]
      PROVE  FALSE
  <2>1. CASE r \in announcing
    <3>1. group[r] # {} /\ stage[r] = "wait" /\ group[r] \in Claims(r) /\ r \in group[r] /\ Due(r)
      BY <1>8, <2>1, ClaimsAre DEF Groups, Due
    <3>2. group[r] = cluster[p]
      BY <1>7, <1>8, <3>1
    <3> QED
      BY <1>2, <1>3, <1>5, <3>1, <3>2 DEF Together
  <2>2. CASE r \notin announcing
    <3>1. cluster[p] \subseteq group[r]
      BY <1>5, <1>8, <2>2 DEF Closed
    <3> QED
      BY <1>3, <1>5, <2>2, <3>1 DEF Groups, Bound
  <2> QED
    BY <2>1, <2>2
<1>9. Disjoint' /\ Closed'
  <2>1. Disjoint'
    BY <1>2, <1>8 DEF Disjoint, Types
  <2>2. \A r \in PEs \ announcing, q, x \in PEs : \A S \in Claims(q) :
          x \in S /\ x \in group'[r] => S \subseteq group'[r]
    <3>1. \A q, x \in PEs : \A S \in Claims(q) : x \in S /\ x \in group'[p] => S \subseteq group'[p]
      BY <1>2, <1>7
    <3> QED
      BY <1>2, <3>1 DEF Closed
  <2>3. Closed'
    BY <1>2, <1>4, <2>2 DEF Closed
  <2> QED
    BY <2>1, <2>3
<1>10. OneNews'
  BY <1>2, <1>3, <1>4 DEF OneNews, Types, Reported, Bound
<1>11. Waiting'
  BY <1>2, <1>3, <1>4, SMTT(30) DEF Waiting, Types, Reported
<1>12. Groups'
  BY <1>2, <1>3, <1>5 DEF Groups, Types
<1>13. LeaversLeave'
  BY <1>2, <1>4 DEF LeaversLeave, Types
<1>14. Together'
  BY <1>2, <1>4 DEF Together
<1>15. Taken' /\ OnTheWay' /\ ToSend'
  <2>1. \A x, q \in PEs : Needs(x, q)' <=> Needs(x, q)
    BY <1>2, <1>4 DEF Needs
  <2>2. Taken'
    BY <1>2, <1>4 DEF Taken, Types
  <2> QED
    BY <1>2, <1>4, <2>1, <2>2 DEF OnTheWay, ToSend, Types
<1>16. DeadAreThrough'
  <2>1. ~Informed(p) /\ \A q \in dead[p] : Through(q, p)
    BY <1>2, <1>3 DEF Informed, Groups, Types, Bound, DeadAreThrough
  <2> QED
    BY <1>2, <1>4 DEF DeadAreThrough, Through, Types
<1>17. Reporting'
  <2>1. ASSUME NEW r \in PEs, NEW q \in PEs, Reported(q, r), r # p PROVE Reported(q, r)'
    <3>1. q \notin cluster[p] \/ Gone(q)
      BY <1>3, <2>1 DEF Reported
    <3> QED
      BY <1>2, <1>3, <1>4, <2>1, <3>1 DEF Reported
  <2>2. \A n \in reports[p] : n.pe \in PEs /\ n.pe \notin cluster[p] /\ Reported(n.pe, p) /\ n.pe # p
    BY <1>2, <1>5 DEF Reporting, Types
  <2>3. \A n \in reports[p] : Reported(n.pe, p)'
    BY <1>2, <1>4, <2>2 DEF Reported
  <2> QED
    BY <1>2, <1>3, <1>4, <2>1, <2>3 DEF Reporting, Types, Reported
<1> QED
  BY <1>1, <1>6, <1>9, <1>10, <1>11, <1>12, <1>13, <1>14, <1>15, <1>16, <1>17

\* An announcing root is in the cluster it announces.
LEMMA RootClaims ==
  ASSUME IInv, NEW r \in announcing
  PROVE  /\ r \in PEs /\ ~Gone(r) /\ stage[r] = "wait" /\ r \in group[r]
         /\ group[r] \in Claims(r) /\ Due(r)
<1>1. r \in PEs /\ group[r] # {} /\ r \in group[r] /\ stage[r] = "wait"
  BY DEF IInv, Groups, Types
<1> QED
  BY <1>1, ClaimsAre DEF IInv, Groups, Due

\* GiveUp(p) moves p's group to a root that joins it, or drops it.
LEMMA GiveUpKeeps == ASSUME IInv, NEW p \in PEs, GiveUp(p) PROVE IInv'
<1> USE DEF IInv
<1>1. Types'
  BY TypesKept DEF Next, Step
<1>2. /\ UNCHANGED <<stage, leaving, cluster, dead, old_dead, received, tosend,
                     announcing, told, chosen, reports, dead_news, news, values>>
      /\ p \notin announcing /\ group[p] # {} /\ held[p] = group[p] /\ p \in group[p]
      /\ stage[p] = "wait"
      /\ \A q \in PEs : q # p => /\ root'[q] = root[q] /\ group'[q] = group[q]
                                 /\ held'[q] = held[q] /\ leavers'[q] = leavers[q]
      /\ held'[p] = group'[p]
      /\ \/ group'[p] = group[p] /\ leavers'[p] = leavers[p]
         \/ group'[p] = {} /\ leavers'[p] = {}
  <2>1. /\ UNCHANGED <<stage, leaving, cluster, dead, old_dead, received, tosend,
                       announcing, told, chosen, reports, dead_news, news, values>>
        /\ p \notin announcing /\ group[p] # {}
    BY DEF GiveUp, Joining, sent
  <2>2. held[p] = group[p] /\ p \in group[p] /\ stage[p] = "wait"
    BY <2>1 DEF Groups
  <2>3. \A q \in PEs : q # p => root'[q] = root[q]
    BY DEF GiveUp, Types
  <2>4. CASE UNCHANGED <<group, held, leavers>>
    BY <2>1, <2>2, <2>3, <2>4
  <2>5. CASE /\ group' = [group EXCEPT ![p] = {}] /\ held' = [held EXCEPT ![p] = {}]
             /\ leavers' = [leavers EXCEPT ![p] = {}]
    BY <2>1, <2>2, <2>3, <2>5 DEF Types
  <2> QED
    BY <2>4, <2>5 DEF GiveUp
<1>3. /\ Bound(p)
      /\ \A q \in PEs : (Due(q)' <=> Due(q)) /\ Claims(q)' = Claims(q)
      /\ \A q \in PEs : (Leaver(q)' <=> Leaver(q)) /\ (Informed(q)' <=> Informed(q))
      /\ \A q \in PEs : Bound(q)' => Bound(q)
      /\ \A q, r \in PEs : Reported(q, r) => Reported(q, r)' /\ q # p
  <2>1. \A q \in PEs : (Due(q)' <=> Due(q)) /\ Claims(q)' = Claims(q)
    <3>1. \A r \in announcing : held'[r] = held[r] /\ group'[r] = group[r]
      BY <1>2 DEF Types
    <3> QED
      BY <1>2, <3>1, SameClaims
  <2>2. Bound(p) /\ \A q \in PEs : Bound(q)' => Bound(q)
    BY <1>2 DEF Bound
  <2> QED
    BY <1>2, <2>1, <2>2 DEF Leaver, Informed, Reported
<1>4. Owned' /\ Apart'
  BY <1>2, <1>3 DEF Owned, Apart
<1>5. Disjoint' /\ Closed'
  <2>1. \A r \in PEs : group'[r] = group[r] \/ group'[r] = {}
    BY <1>2
  <2> QED
    BY <1>2, <1>3, <2>1 DEF Disjoint, Closed
<1>6. OneNews' /\ Waiting'
  BY <1>2, <1>3 DEF OneNews, Waiting, Types
<1>7. Groups'
  BY <1>2 DEF Groups, Types
<1>8. LeaversLeave' /\ Together'
  BY <1>2, <1>3 DEF LeaversLeave, Together, Types
<1>9. Taken' /\ OnTheWay' /\ ToSend' /\ DeadAreThrough'
  <2>1. \A x, q \in PEs : (Needs(x, q)' <=> Needs(x, q)) /\ (Through(x, q)' <=> Through(x, q))
    BY <1>2, <1>3 DEF Needs, Through
  <2> QED
    BY <1>2, <1>3, <2>1 DEF Taken, OnTheWay, ToSend, DeadAreThrough, Types
<1>10. Reporting'
  BY <1>2, <1>3 DEF Reporting, Types
<1> QED
  BY <1>1, <1>4, <1>5, <1>6, <1>7, <1>8, <1>9, <1>10

\* TellDead(p, q) announces to q who leaves p's group: these are leaving.
LEMMA TellDeadKeeps ==
  ASSUME IInv, NEW p \in PEs, NEW q \in PEs, TellDead(p, q) PROVE IInv'
<1> USE DEF IInv
<1> DEFINE m == [root |-> chosen[p], set |-> NewDead(p)]
<1>1. Types'
  BY TypesKept DEF Next, Step
<1>2. /\ UNCHANGED <<own, group, leavers, announcing, held, chosen, reports, news, values>>
      /\ UNCHANGED <<stage, leaving, cluster, root, dead, old_dead, received, tosend>>
      /\ p \in announcing /\ told[p] = {} /\ q \in held[p] /\ q \in group[p]
      /\ \A x \in PEs : x # p => told'[x] = told[x]
      /\ told'[p] = {q}
      /\ \A x \in PEs : x # q => dead_news'[x] = dead_news[x]
      /\ Gone(q) => dead_news'[q] = dead_news[q]
      /\ ~Gone(q) => dead_news'[q] = dead_news[q] \cup {m}
  BY DEF TellDead, own, Types, Groups
<1>3. /\ \A x \in PEs : (Due(x)' <=> Due(x)) /\ Claims(x)' = Claims(x)
      /\ \A x \in PEs : (Leaver(x)' <=> Leaver(x)) /\ (Bound(x)' <=> Bound(x))
      /\ \A x, y \in PEs : /\ Needs(x, y)' <=> Needs(x, y)
                           /\ Through(x, y)' <=> Through(x, y)
                           /\ Reported(x, y)' <=> Reported(x, y)
  <2>1. \A x \in PEs : (Due(x)' <=> Due(x)) /\ Claims(x)' = Claims(x)
    BY <1>2, SameClaims
  <2> QED
    BY <1>2, <2>1 DEF Leaver, Bound, Needs, Through, Reported
<1>4. ASSUME ~Gone(q)
      PROVE  /\ stage[q] = "wait" /\ news[q] = {} /\ dead_news[q] = {} /\ ~Informed(q)
             /\ dead_news'[q] = {m}
  <2>1. stage[q] = "wait" /\ news[q] = {}
    BY <1>2, <1>4 DEF Waiting, OneNews
  <2>2. \A r \in PEs : q \notin told[r]
    BY <1>2 DEF Groups, Disjoint, Types
  <2>3. dead_news[q] = {}
    BY <2>1, <2>2 DEF Waiting
  <2> QED
    BY <1>2, <1>4, <2>1, <2>2, <2>3 DEF Informed
<1>5. \A x \in PEs : Informed(x)' <=> Informed(x)
  <2>1. ASSUME NEW x \in PEs, x # q PROVE Informed(x)' <=> Informed(x)
    BY <1>2, <2>1 DEF Informed
  <2>2. Informed(q)' <=> Informed(q)
    BY <1>2, <1>4 DEF Informed
  <2> QED
    BY <2>1, <2>2
<1>6. m.set = dead[p] \cup leavers[p] /\ m.set \subseteq group[p]
  <2>1. m.set = dead[p] \cup leavers[p]
    BY DEF NewDead
  <2>2. dead[p] \subseteq group[p]
    BY <1>2, RootClaims DEF Owned
  <2>3. leavers[p] \subseteq group[p]
    BY <1>2, RootClaims DEF Groups
  <2> QED
    BY <2>1, <2>2, <2>3
<1> HIDE DEF m
<1>7. Owned'
  <2>1. ASSUME ~Gone(q), NEW S \in Claims(q) PROVE S = group[p]
    <3>1. group[p] \in Claims(q)
      BY <1>2, <2>1, ClaimsAre
    <3> QED
      BY <2>1, <3>1 DEF Owned, Apart
  <2>2. ASSUME NEW x \in PEs, NEW S \in Claims(x), NEW n \in dead_news'[x] PROVE n.set \subseteq S
    <3>1. CASE n \in dead_news[x]
      BY <3>1 DEF Owned
    <3>2. CASE n \notin dead_news[x]
      BY <1>2, <1>6, <2>1, <2>2, <3>2
    <3> QED
      BY <3>1, <3>2
  <2> QED
    BY <1>2, <1>3, <2>2 DEF Owned
<1>8. Apart' /\ Disjoint' /\ Closed'
  BY <1>2, <1>3 DEF Apart, Disjoint, Closed
<1>9. OneNews' /\ Waiting' /\ Groups'
  <2>1. OneNews'
    BY <1>2, <1>4 DEF OneNews
  <2>2. Waiting'
    BY <1>2, <1>4, ZenonT(60) DEF Waiting, Types
  <2>3. Groups'
    BY <1>2 DEF Groups, Types
  <2> QED
    BY <2>1, <2>2, <2>3
<1>10. LeaversLeave'
  <2>1. \A x \in dead[p] : Leaver(x)
    <3>1. CASE Informed(p)
      BY <3>1 DEF LeaversLeave
    <3>2. CASE ~Informed(p)
      BY <1>2, <3>2, RootClaims DEF DeadAreThrough, Through, Leaver
    <3> QED
      BY <3>1, <3>2
  <2>2. ASSUME NEW x \in leavers[p] PROVE Leaver(x)
    <3>1. x \in PEs /\ x \in leaving /\ stage[x] # "values" /\ x \in group[p]
      BY <1>2, <1>6 DEF LeaversLeave, Types
    <3>2. Gone(x) \/ Due(x)
      BY <1>2, <3>1, RootClaims DEF Together
    <3> QED
      BY <3>1, <3>2 DEF Leaver
  <2>3. ASSUME NEW x \in PEs, NEW n \in dead_news'[x], NEW y \in n.set PROVE Leaver(y)
    <3>1. CASE n \in dead_news[x]
      BY <3>1 DEF LeaversLeave
    <3>2. CASE n \notin dead_news[x]
      BY <1>2, <1>6, <2>1, <2>2, <2>3, <3>2
    <3> QED
      BY <3>1, <3>2
  <2>4. \A x \in PEs : \A n \in dead_news'[x] : \A y \in n.set : y \in PEs
    BY <1>1 DEF Types
  <2> QED
    BY <1>2, <1>3, <1>5, <2>3, <2>4 DEF LeaversLeave, Types
<1>11. Together' /\ Taken' /\ OnTheWay' /\ ToSend'
  BY <1>2, <1>3 DEF Together, Taken, OnTheWay, ToSend, Types
<1>12. DeadAreThrough'
  BY <1>2, <1>3, <1>5 DEF DeadAreThrough, Types
<1>13. Reporting'
  BY <1>2, <1>3 DEF Reporting, Types
<1> QED
  BY <1>1, <1>7, <1>8, <1>9, <1>10, <1>11, <1>12, <1>13

\* TakeDead(p, m): what p knew before is of a cluster it is through with.
LEMMA TakeDeadKeeps ==
  ASSUME IInv, NEW p \in PEs, NEW m \in dead_news[p], TakeDead(p, m) PROVE IInv'
<1> USE DEF IInv
<1>1. Types'
  BY TypesKept DEF Next, Step
<1>2. /\ UNCHANGED <<stage, leaving, cluster, received, tosend, group, leavers, announcing,
                     held, told, chosen, reports, news, values>>
      /\ stage[p] = "wait" /\ dead_news'[p] = {} /\ dead_news[p] = {m}
      /\ \A q \in PEs : q # p => /\ dead_news'[q] = dead_news[q] /\ dead'[q] = dead[q]
                                 /\ old_dead'[q] = old_dead[q] /\ root'[q] = root[q]
      /\ old_dead'[p] = dead[p] /\ dead'[p] = m.set
  <2>1. dead_news[p] = {m}
    BY DEF OneNews
  <2> QED
    BY <2>1 DEF TakeDead, joining, Types
<1>3. /\ \A q \in PEs : (Due(q)' <=> Due(q)) /\ Claims(q)' = Claims(q)
      /\ \A q \in PEs : (Leaver(q)' <=> Leaver(q)) /\ (Bound(q)' <=> Bound(q))
      /\ \A x, q \in PEs : (Needs(x, q)' <=> Needs(x, q)) /\ (Through(x, q)' <=> Through(x, q))
  <2>1. \A q \in PEs : (Due(q)' <=> Due(q)) /\ Claims(q)' = Claims(q)
    BY <1>2, SameClaims
  <2> QED
    BY <1>2, <2>1 DEF Leaver, Bound, Needs, Through
<1>4. /\ Bound(p) /\ ~Informed(p)
      /\ \A q \in PEs : q # p => (Informed(q)' <=> Informed(q))
      /\ \A q, r \in PEs : Reported(q, r) => Reported(q, r)' /\ q # p
  <2>1. Bound(p)
    BY <1>2 DEF Waiting, Bound, Groups
  <2> QED
    BY <1>2, <1>3, <2>1 DEF Informed, Reported
<1>5. Informed(p)'
  BY <1>2 DEF Informed, Waiting
<1>6. Owned' /\ Apart'
  BY <1>2, <1>3 DEF Owned, Apart
<1>7. Disjoint' /\ Closed'
  BY <1>2, <1>3 DEF Disjoint, Closed
<1>8. OneNews' /\ Waiting' /\ Groups'
  <2>1. OneNews'
    BY <1>2 DEF OneNews
  <2>2. Waiting'
    BY <1>2 DEF Waiting
  <2>3. Groups'
    BY <1>2 DEF Groups
  <2> QED
    BY <2>1, <2>2, <2>3
<1>9. LeaversLeave'
  <2>1. \A q \in m.set : q \in PEs /\ Leaver(q)
    BY <1>1, <1>2 DEF LeaversLeave, Types
  <2> QED
    BY <1>2, <1>3, <1>4, <2>1, SMTT(30) DEF LeaversLeave, Types
<1>10. Together' /\ Taken' /\ OnTheWay' /\ ToSend'
  BY <1>2, <1>3 DEF Together, Taken, OnTheWay, ToSend, Types
<1>11. DeadAreThrough'
  <2>1. \A q \in dead[p] : Through(q, p)
    BY <1>2, <1>4 DEF DeadAreThrough
  <2> QED
    BY <1>2, <1>3, <1>4, <1>5, <2>1 DEF DeadAreThrough, Types
<1>12. Reporting'
  BY <1>2, <1>3, <1>4 DEF Reporting, Types
<1> QED
  BY <1>1, <1>6, <1>7, <1>8, <1>9, <1>10, <1>11, <1>12

\* SendValue(p, q): q needs p's value.
LEMMA SendValueKeeps ==
  ASSUME IInv, NEW p \in PEs, NEW q \in PEs, SendValue(p, q) PROVE IInv'
<1> USE DEF IInv
<1>1. Types'
  BY TypesKept DEF Next, Step
<1>2. /\ UNCHANGED <<stage, leaving, cluster, root, dead, old_dead, received, group, leavers,
                     announcing, held, told, chosen, reports, dead_news, news>>
      /\ q \in tosend[p] /\ stage[p] \in {"values", "left"}
      /\ \A x \in PEs : x # p => tosend'[x] = tosend[x]
      /\ tosend'[p] = tosend[p] \ {q}
      /\ \A x \in PEs : x # q => values'[x] = values[x]
      /\ Gone(q) => values'[q] = values[q]
      /\ ~Gone(q) => values'[q] = values[q] \cup {p}
  BY DEF SendValue, joining, Types, ToSend
<1>3. /\ \A x \in PEs : (Due(x)' <=> Due(x)) /\ Claims(x)' = Claims(x)
      /\ \A x \in PEs : (Leaver(x)' <=> Leaver(x)) /\ (Bound(x)' <=> Bound(x))
      /\ \A x \in PEs : Informed(x)' <=> Informed(x)
      /\ \A x, y \in PEs : (Needs(x, y)' <=> Needs(x, y)) /\ (Reported(x, y)' <=> Reported(x, y))
  <2>1. \A x \in PEs : (Due(x)' <=> Due(x)) /\ Claims(x)' = Claims(x)
    BY <1>2, SameClaims
  <2> QED
    BY <1>2, <2>1 DEF Leaver, Bound, Informed, Needs, Reported
<1>4. Owned' /\ Apart'
  BY <1>2, <1>3 DEF Owned, Apart
<1>5. Disjoint' /\ Closed'
  BY <1>2, <1>3 DEF Disjoint, Closed
<1>6. OneNews' /\ Waiting' /\ Groups'
  BY <1>2 DEF OneNews, Waiting, Groups
<1>7. LeaversLeave' /\ Together' /\ Taken'
  BY <1>2, <1>3 DEF LeaversLeave, Together, Taken, Types
<1>8. ~Due(p)
  BY <1>2 DEF Due, Waiting, Types
<1>9. OnTheWay'
  <2>1. ~Gone(q) => Needs(q, p)
    BY <1>2 DEF ToSend
  <2> QED
    BY <1>2, <1>3, <1>8, <2>1 DEF OnTheWay, Types
<1>10. ToSend'
  <2> SUFFICES ASSUME NEW x \in PEs, NEW y \in tosend'[x]
               PROVE  /\ stage'[x] \in {"values", "left"}
                      /\ ~Gone(y)' => x \notin values'[y] /\ Needs(y, x)'
    BY DEF ToSend
  <2>1. y \in PEs /\ y \in tosend[x] /\ ~(x = p /\ y = q)
    BY <1>1, <1>2 DEF Types
  <2>2. stage[x] \in {"values", "left"} /\ (~Gone(y) => x \notin values[y] /\ Needs(y, x))
    BY <2>1 DEF ToSend
  <2> QED
    BY <1>2, <1>3, <2>1, <2>2
<1>11. DeadAreThrough'
  <2>1. \A x, y \in PEs : Through(x, y) => Through(x, y)'
    BY <1>2 DEF Through, ToSend
  <2> QED
    BY <1>2, <1>3, <2>1 DEF DeadAreThrough, Types
<1>12. Reporting'
  BY <1>2, <1>3 DEF Reporting, Types
<1> QED
  BY <1>1, <1>4, <1>5, <1>6, <1>7, <1>9, <1>10, <1>11, <1>12

\* ReceiveValue(p, q): each value is taken once.
LEMMA ReceiveValueKeeps ==
  ASSUME IInv, NEW p \in PEs, NEW q \in PEs, ReceiveValue(p, q) PROVE IInv'
<1> USE DEF IInv
<1>1. Types'
  BY TypesKept DEF Next, Step
<1>2. /\ UNCHANGED <<stage, leaving, cluster, root, dead, old_dead, tosend, group, leavers,
                     announcing, held, told, chosen, reports, dead_news, news>>
      /\ stage[p] = "values" /\ q \in values[p]
      /\ \A x \in PEs : x # p => received'[x] = received[x] /\ values'[x] = values[x]
      /\ received'[p] = received[p] \cup {q}
      /\ values'[p] = values[p] \ {q}
  BY DEF ReceiveValue, joining, Types
<1>3. /\ \A x \in PEs : (Due(x)' <=> Due(x)) /\ Claims(x)' = Claims(x)
      /\ \A x \in PEs : (Leaver(x)' <=> Leaver(x)) /\ (Bound(x)' <=> Bound(x))
      /\ \A x \in PEs : Informed(x)' <=> Informed(x)
      /\ \A x, y \in PEs : (Through(x, y) => Through(x, y)') /\ (Reported(x, y)' <=> Reported(x, y))
      /\ \A x, y \in PEs : Needs(x, y) /\ ~(x = p /\ y = q) => Needs(x, y)'
  <2>1. \A x \in PEs : (Due(x)' <=> Due(x)) /\ Claims(x)' = Claims(x)
    BY <1>2, SameClaims
  <2> QED
    BY <1>2, <2>1 DEF Leaver, Bound, Informed, Needs, Reported, Through
<1>4. Owned' /\ Apart'
  BY <1>2, <1>3 DEF Owned, Apart
<1>5. Disjoint' /\ Closed'
  BY <1>2, <1>3 DEF Disjoint, Closed
<1>6. OneNews' /\ Waiting' /\ Groups'
  <2>1. OneNews'
    BY <1>2 DEF OneNews
  <2>2. Waiting'
    BY <1>2 DEF Waiting, Types
  <2>3. Groups'
    BY <1>2 DEF Groups, Types
  <2> QED
    BY <2>1, <2>2, <2>3
<1>7. LeaversLeave' /\ Together'
  BY <1>2, <1>3 DEF LeaversLeave, Together, Types
<1>8. ~Due(q) /\ q \in cluster[p]
  <2>1. ~Due(q) /\ Needs(p, q)
    BY <1>2 DEF OnTheWay
  <2>2. cluster[p] \in Claims(p)
    BY <1>2, ClaimsAre DEF Due, Waiting, Types
  <2> QED
    BY <2>1, <2>2 DEF Needs
<1>9. Taken'
  BY <1>2, <1>3, <1>8 DEF Taken, Types
<1>10. OnTheWay' /\ ToSend'
  BY <1>2, <1>3 DEF OnTheWay, ToSend, Types
<1>11. DeadAreThrough'
  BY <1>2, <1>3 DEF DeadAreThrough, Types
<1>12. Reporting'
  BY <1>2, <1>3 DEF Reporting, Types
<1> QED
  BY <1>1, <1>4, <1>5, <1>6, <1>7, <1>9, <1>10, <1>11, <1>12

\* Decide(p): whoever counts as leaving already is in another stage.
LEMMA DecideKeeps == ASSUME IInv, NEW p \in PEs, Decide(p) PROVE IInv'
<1> USE DEF IInv
<1>1. Types'
  BY TypesKept DEF Next, Step
<1>2. /\ UNCHANGED <<cluster, root, dead, old_dead, received, tosend, group, leavers, announcing,
                     held, told, chosen, reports, dead_news, news, values>>
      /\ stage[p] = "decide" /\ stage'[p] = "work"
      /\ \A q \in PEs : q # p => stage'[q] = stage[q] /\ (q \in leaving' <=> q \in leaving)
      /\ leaving \subseteq leaving'
  BY DEF Decide, joining, sent, Types
<1>3. /\ \A q \in PEs : (Due(q)' <=> Due(q)) /\ Claims(q)' = Claims(q)
      /\ \A q \in PEs : (Leaver(q) => Leaver(q)') /\ (Bound(q)' <=> Bound(q))
      /\ \A q \in PEs : Informed(q)' <=> Informed(q)
      /\ \A x, q \in PEs : (Through(x, q)' <=> Through(x, q)) /\ (Needs(x, q)' <=> Needs(x, q))
      /\ \A q, r \in PEs : Reported(q, r) => Reported(q, r)' /\ q # p
  <2>1. \A q \in PEs : (Due(q)' <=> Due(q)) /\ Claims(q)' = Claims(q)
    BY <1>2, SameClaims
  <2>2. \A q \in PEs : Gone(q)' <=> Gone(q)
    BY <1>2
  <2> QED
    BY <1>2, <2>1, <2>2 DEF Leaver, Bound, Informed, Through, Needs, Reported
<1>4. Owned' /\ Apart'
  BY <1>2, <1>3 DEF Owned, Apart
<1>5. Disjoint' /\ Closed'
  BY <1>2, <1>3 DEF Disjoint, Closed
<1>6. OneNews' /\ Waiting' /\ Groups'
  <2>1. OneNews'
    BY <1>2 DEF OneNews
  <2>2. Waiting'
    BY <1>2 DEF Waiting, Types
  <2>3. Groups'
    BY <1>2 DEF Groups, Types
  <2> QED
    BY <2>1, <2>2, <2>3
<1>7. LeaversLeave' /\ Together' /\ Taken'
  BY <1>2, <1>3, SMTT(30) DEF LeaversLeave, Together, Taken, Types
<1>8. OnTheWay' /\ ToSend'
  BY <1>2, <1>3 DEF OnTheWay, ToSend, Types
<1>9. DeadAreThrough'
  BY <1>2, <1>3 DEF DeadAreThrough, Types
<1>10. Reporting'
  BY <1>2, <1>3 DEF Reporting, Types
<1> QED
  BY <1>1, <1>4, <1>5, <1>6, <1>7, <1>8, <1>9, <1>10

\* ValuesDone(p): with a value of everybody p needs none, and nobody is behind.
LEMMA ValuesDoneKeeps == ASSUME IInv, NEW p \in PEs, ValuesDone(p) PROVE IInv'
<1> USE DEF IInv
<1>1. Types'
  BY TypesKept DEF Next, Step
<1>2. /\ UNCHANGED <<leaving, cluster, root, dead, old_dead, tosend, group, leavers, announcing,
                     held, told, chosen, reports, dead_news, news, values>>
      /\ stage[p] = "values" /\ stage'[p] = "decide"
      /\ tosend[p] = {} /\ received[p] = cluster[p]
      /\ \A q \in PEs : q # p => stage'[q] = stage[q] /\ received'[q] = received[q]
      /\ received'[p] = {}
  BY DEF ValuesDone, joining, sent, Types
<1>3. /\ \A q \in PEs : (Due(q)' <=> Due(q)) /\ Claims(q)' = Claims(q)
      /\ \A q \in PEs : (Gone(q)' <=> Gone(q)) /\ (Leaver(q)' <=> Leaver(q))
      /\ \A q \in PEs : (Informed(q)' <=> Informed(q)) /\ (Bound(q)' <=> Bound(q))
      /\ \A x, q \in PEs : Through(x, q)' <=> Through(x, q)
      /\ \A q, r \in PEs : Reported(q, r) => Reported(q, r)' /\ q # p
      /\ \A x, q \in PEs : x # p => (Needs(x, q)' <=> Needs(x, q))
  <2>1. \A q \in PEs : Gone(q)' <=> Gone(q)
    BY <1>2
  <2>2. \A q \in PEs : (Due(q)' <=> Due(q)) /\ Claims(q)' = Claims(q)
    BY <1>2, <2>1, SameClaims
  <2> QED
    BY <1>2, <2>1, <2>2 DEF Leaver, Bound, Informed, Through, Needs, Reported
<1>4. ~Due(p) /\ ~Informed(p) /\ cluster[p] \in Claims(p) /\ p \in cluster[p]
  <2>1. ~Due(p) /\ ~Informed(p)
    BY <1>2 DEF Due, Informed, Waiting, Groups, Types
  <2>2. cluster[p] \in Claims(p)
    BY <1>2, <2>1, ClaimsAre
  <2> QED
    BY <2>1, <2>2 DEF Owned
<1>5. \A q \in cluster[p] : ~Due(q)
  BY <1>2 DEF Taken
<1>6. \A q \in PEs : ~Needs(p, q)
  BY <1>2, <1>4 DEF Needs
<1>7. values[p] = {} /\ \A q \in PEs : p \notin tosend[q]
  BY <1>2, <1>6 DEF OnTheWay, ToSend, Types
<1>8. Owned' /\ Apart'
  BY <1>2, <1>3 DEF Owned, Apart
<1>9. Disjoint' /\ Closed'
  BY <1>2, <1>3 DEF Disjoint, Closed
<1>10. OneNews' /\ Waiting' /\ Groups'
  <2>1. OneNews'
    BY <1>2, <1>3 DEF OneNews
  <2>2. Waiting'
    BY <1>2, ZenonT(60) DEF Waiting, Types
  <2>3. Groups'
    BY <1>2 DEF Groups, Types
  <2> QED
    BY <2>1, <2>2, <2>3
<1>11. LeaversLeave'
  <2>1. \A r \in PEs : \A q \in leavers[r] : q \in PEs /\ q # p
    BY <1>2 DEF LeaversLeave, Types
  <2>2. \A x \in PEs : \A m \in dead_news[x] : \A q \in m.set : q \in PEs /\ Leaver(q)'
    BY <1>3 DEF LeaversLeave, Types
  <2>3. \A x \in PEs : stage'[x] = "values" \/ Informed(x)' =>
          \A q \in dead[x] : q \in PEs /\ Leaver(q)'
    BY <1>2, <1>3, <1>4 DEF LeaversLeave, Types
  <2> QED
    BY <1>2, <2>1, <2>2, <2>3 DEF LeaversLeave
<1>12. Together'
  <2> SUFFICES ASSUME NEW x \in PEs, NEW q \in PEs, NEW S \in Claims(q), Due(q), x \in S
               PROVE  Gone(x)' \/ Due(x)' \/ stage'[x] = "values"
    BY <1>3 DEF Together
  <2>1. CASE x = p
    <3>1. S = cluster[p] /\ q \in S
      BY <1>4, <2>1 DEF Apart, Owned
    <3> QED
      BY <1>5, <3>1
  <2>2. CASE x # p
    BY <1>2, <1>3, <2>2 DEF Together
  <2> QED
    BY <2>1, <2>2
<1>13. Taken' /\ OnTheWay' /\ ToSend'
  <2>1. Taken'
    BY <1>2, <1>3 DEF Taken, Types
  <2>2. OnTheWay'
    BY <1>2, <1>3, <1>7 DEF OnTheWay, Types
  <2>3. ToSend'
    BY <1>2, <1>3, <1>7 DEF ToSend, Types
  <2> QED
    BY <2>1, <2>2, <2>3
<1>14. DeadAreThrough'
  <2>1. \A q \in dead[p] : Through(q, p)
    <3> SUFFICES ASSUME NEW q \in dead[p] PROVE Through(q, p)
      OBVIOUS
    <3>1. q \in PEs /\ Leaver(q) /\ q \in cluster[p]
      BY <1>2, <1>4 DEF LeaversLeave, Owned, Types
    <3> QED
      BY <1>5, <1>7, <3>1 DEF Leaver, Through
  <2> QED
    BY <1>2, <1>3, <1>4, <2>1 DEF DeadAreThrough, Types
<1>15. Reporting'
  BY <1>2, <1>3 DEF Reporting, Types
<1> QED
  BY <1>1, <1>8, <1>9, <1>10, <1>11, <1>12, <1>13, <1>14, <1>15

\* Take(p, m): whoever p waits for has not taken m's cluster, or needs p's value.
LEMMA TakeKeeps == ASSUME IInv, NEW p \in PEs, NEW m \in news[p], Take(p, m) PROVE IInv'
<1> USE DEF IInv
<1> DEFINE S == m.set
<1>1. Types'
  BY TypesKept DEF Next, Step
<1>2. /\ UNCHANGED <<leaving, dead, old_dead, group, leavers, announcing,
                     held, told, chosen, reports, dead_news>>
      /\ stage[p] = "wait" /\ p \notin announcing /\ dead_news[p] = {}
      /\ news[p] = {m} /\ news'[p] = {}
      /\ cluster'[p] = S /\ tosend'[p] = S \ old_dead[p]
      /\ \A q \in PEs : q # p =>
           /\ stage'[q] = stage[q] /\ cluster'[q] = cluster[q] /\ root'[q] = root[q]
           /\ tosend'[q] = tosend[q] /\ news'[q] = news[q]
           /\ received'[q] = received[q] /\ values'[q] = values[q]
  <2>1. news[p] = {m}
    BY DEF OneNews
  <2>2. /\ UNCHANGED <<leaving, dead, old_dead, group, leavers, announcing,
                       held, told, chosen, reports, dead_news>>
        /\ stage[p] = "wait" /\ p \notin announcing /\ dead_news[p] = {}
    BY DEF Take, joining
  <2>3. /\ news'[p] = news[p] \ {m} /\ cluster'[p] = S /\ tosend'[p] = S \ old_dead[p]
        /\ \A q \in PEs : q # p => /\ cluster'[q] = cluster[q] /\ root'[q] = root[q]
                                   /\ tosend'[q] = tosend[q] /\ news'[q] = news[q]
    BY DEF Take, Types
  <2>4. \A q \in PEs : q # p =>
          stage'[q] = stage[q] /\ received'[q] = received[q] /\ values'[q] = values[q]
    <3>1. CASE p \in leaving
      BY <3>1 DEF Take, Types
    <3>2. CASE p \notin leaving
      BY <3>2 DEF Take, Types
    <3> QED
      BY <3>1, <3>2
  <2> QED
    BY <2>1, <2>2, <2>3, <2>4
<1>3. /\ p \in leaving => stage'[p] = "left" /\ values'[p] = {}
      /\ p \notin leaving => /\ stage'[p] = "values" /\ values'[p] = values[p]
                             /\ received'[p] = S \cap old_dead[p]
  BY DEF Take, Types
<1>4. S \in SUBSET PEs
  BY DEF Types
<1> HIDE DEF S
<1>5. /\ \A r \in PEs : p \notin held[r] /\ p \notin told[r]
      /\ group[p] = {} /\ Due(p) /\ Informed(p) /\ Bound(p) /\ Claims(p) = {S}
  <2>1. \A r \in PEs : p \notin held[r] /\ p \notin told[r]
    BY <1>2 DEF OneNews, Groups
  <2>2. group[p] = {}
    BY <1>2, <2>1 DEF Groups
  <2>3. Due(p) /\ Informed(p) /\ Bound(p)
    BY <1>2 DEF Due, Informed, Bound
  <2>4. \A U : U \in Claims(p) <=> U = S
    BY <1>2, <2>1, <2>3, ClaimsAre DEF S, Types
  <2> QED
    BY <2>1, <2>2, <2>3, <2>4
<1>6. p \in S /\ cluster[p] \subseteq S /\ dead[p] \subseteq S
  BY <1>5 DEF Owned
<1>7. \A q \in old_dead[p] : Gone(q) /\ q # p /\ p \notin tosend[q] /\ q \notin values[p]
  BY <1>2, <1>5 DEF DeadAreThrough, Through
<1>8. /\ \A q \in PEs : q # p => (Gone(q)' <=> Gone(q))
      /\ ~Gone(p) /\ (Gone(p)' <=> p \in leaving)
      /\ ~Due(p)' /\ \A q \in PEs : q # p => (Due(q)' <=> Due(q))
      /\ \A q \in PEs : q # p => Claims(q)' = Claims(q)
      /\ Claims(p)' = IF p \in leaving THEN {} ELSE {S}
  <2>1. /\ \A q \in PEs : q # p => (Gone(q)' <=> Gone(q))
        /\ ~Gone(p) /\ (Gone(p)' <=> p \in leaving)
    BY <1>2, <1>3
  <2>2. ~Due(p)' /\ \A q \in PEs : q # p => (Due(q)' <=> Due(q))
    BY <1>2, <1>5, <2>1 DEF Due, Types
  <2>3. ASSUME NEW q \in PEs, q # p PROVE Claims(q)' = Claims(q)
    <3>1. /\ UNCHANGED <<announcing, held, group>>
          /\ news'[q] = news[q] /\ cluster'[q] = cluster[q]
          /\ (Gone(q)' <=> Gone(q)) /\ (Due(q)' <=> Due(q))
      BY <1>2, <2>1, <2>2, <2>3
    <3> QED
      BY <3>1 DEF Claims
  <2>4. Claims(p)' = IF p \in leaving THEN {} ELSE {S}
    <3>1. CASE p \in leaving
      BY <2>1, <3>1 DEF Claims
    <3>2. CASE p \notin leaving
      <4>1. {r \in announcing : p \in held[r]} = {}
        BY <1>5 DEF Types
      <4> QED
        BY <1>2, <2>1, <2>2, <3>2, <4>1 DEF Claims
    <3> QED
      BY <3>1, <3>2
  <2> QED
    BY <2>1, <2>2, <2>3, <2>4
<1>9. /\ \A q \in PEs : Claims(q)' \subseteq Claims(q)
      /\ \A q \in PEs : Leaver(q) => Leaver(q)'
      /\ \A q \in PEs : q # p => (Informed(q)' <=> Informed(q)) /\ (Bound(q)' <=> Bound(q))
      /\ \A x, y \in PEs : Through(x, y) => Through(x, y)'
      /\ \A q, r \in PEs : Reported(q, r) => Reported(q, r)' /\ q # p
      /\ \A x, q \in PEs : x # p => (Needs(x, q)' <=> Needs(x, q))
  <2>1. \A q \in PEs : q # p => (Informed(q)' <=> Informed(q)) /\ (Bound(q)' <=> Bound(q))
    BY <1>2, <1>8 DEF Informed, Bound
  <2>2. \A q \in PEs : Leaver(q) => Leaver(q)'
    BY <1>2, <1>8 DEF Leaver
  <2>3. \A x, y \in PEs : Through(x, y) => Through(x, y)'
    BY <1>2, <1>3, <1>8 DEF Through
  <2>4. \A q, r \in PEs : Reported(q, r) => Reported(q, r)' /\ q # p
    BY <1>2, <1>5, <2>1 DEF Reported
  <2>5. \A x, q \in PEs : x # p => (Needs(x, q)' <=> Needs(x, q))
    BY <1>2, <1>8 DEF Needs
  <2>6. \A q \in PEs : Claims(q)' \subseteq Claims(q)
    BY <1>5, <1>8
  <2> QED
    BY <2>1, <2>2, <2>3, <2>4, <2>5, <2>6
<1>10. Owned'
  <2> SUFFICES ASSUME NEW q \in PEs, NEW U \in Claims(q)'
               PROVE  /\ q \in U /\ cluster'[q] \subseteq U /\ dead'[q] \subseteq U
                      /\ \A n \in dead_news'[q] : n.set \subseteq U
    BY DEF Owned
  <2>1. CASE q = p
    BY <1>2, <1>5, <1>6, <1>9, <2>1
  <2>2. CASE q # p
    BY <1>2, <1>9, <2>2 DEF Owned
  <2> QED
    BY <2>1, <2>2
<1>11. Apart' /\ Disjoint' /\ Closed'
  <2>1. Apart'
    BY <1>9 DEF Apart
  <2>2. Disjoint' /\ Closed'
    BY <1>2, <1>9 DEF Disjoint, Closed
  <2> QED
    BY <2>1, <2>2
<1>12. OneNews'
  BY <1>2, <1>8 DEF OneNews
<1>13. Waiting'
  <2>1. \A r \in PEs : \A q \in held[r] : q \in PEs /\ q # p /\ (Gone(q) \/ stage[q] = "wait")
    BY <1>5 DEF Waiting, Types
  <2>2. \A r \in PEs : \A q \in held'[r] : Gone(q)' \/ stage'[q] = "wait"
    BY <1>2, <1>8, <2>1
  <2>3. \A q \in PEs : news'[q] # {} \/ dead_news'[q] # {} => stage'[q] = "wait"
    BY <1>2 DEF Waiting
  <2>4. \A q \in PEs : dead_news'[q] # {} => news'[q] # {} \/ \E r \in PEs : q \in told'[r]
    BY <1>2 DEF Waiting
  <2> QED
    BY <2>2, <2>3, <2>4 DEF Waiting
<1>14. Groups'
  BY <1>2, <1>3, <1>5 DEF Groups, Types
<1>15. LeaversLeave'
  <2>1. \A r \in PEs : \A q \in leavers[r] :
          q \in leaving /\ stage'[q] \in {"gather", "wait", "left"}
    BY <1>2, <1>3 DEF LeaversLeave, Types
  <2>2. \A x \in PEs : \A n \in dead_news[x] : \A q \in n.set : q \in PEs /\ Leaver(q)'
    BY <1>9 DEF LeaversLeave, Types
  <2>3. \A x \in PEs : stage'[x] = "values" \/ Informed(x)' =>
          \A q \in dead[x] : q \in PEs /\ Leaver(q)'
    BY <1>2, <1>5, <1>9 DEF LeaversLeave, Types
  <2> QED
    BY <1>2, <2>1, <2>2, <2>3 DEF LeaversLeave
<1>16. Together'
  BY <1>2, <1>3, <1>8 DEF Together
<1>17. \A q \in PEs : Needs(p, q) /\ q \notin old_dead[p] /\ ~Gone(p)' => Needs(p, q)'
  BY <1>3, <1>5, <1>8 DEF Needs
<1>18. Taken'
  <2> SUFFICES ASSUME NEW x \in PEs, stage'[x] = "values", NEW q \in received'[x]
               PROVE  ~Due(q)' /\ q \in cluster'[x]
    BY DEF Taken
  <2>1. CASE x = p
    <3>1. q \in S /\ q \in old_dead[p] /\ q \in PEs
      BY <1>3, <1>4, <2>1
    <3> QED
      BY <1>2, <1>7, <1>8, <2>1, <3>1 DEF Due
  <2>2. CASE x # p
    BY <1>1, <1>2, <1>8, <2>2 DEF Taken, Types
  <2> QED
    BY <2>1, <2>2
<1>19. OnTheWay'
  <2> SUFFICES ASSUME NEW x \in PEs, ~Gone(x)', NEW q \in values'[x]
               PROVE  ~Due(q)' /\ Needs(x, q)'
    BY DEF OnTheWay
  <2>1. q \in PEs /\ q \in values[x] /\ ~Gone(x) /\ ~Due(q) /\ Needs(x, q)
    BY <1>1, <1>2, <1>3, <1>8 DEF OnTheWay, Types
  <2>2. ~Due(q)'
    BY <1>8, <2>1
  <2>3. x = p => Needs(x, q)'
    BY <1>7, <1>17, <2>1
  <2> QED
    BY <1>9, <2>1, <2>2, <2>3
<1>20. ToSend'
  <2> SUFFICES ASSUME NEW q \in PEs, NEW x \in tosend'[q]
               PROVE  /\ stage'[q] \in {"values", "left"}
                      /\ ~Gone(x)' => q \notin values'[x] /\ Needs(x, q)'
    BY DEF ToSend
  <2>1. x \in PEs
    BY <1>1 DEF Types
  <2>2. CASE q # p
    <3>1. x \in tosend[q] /\ stage[q] \in {"values", "left"}
      BY <1>2, <2>2 DEF ToSend
    <3>2. ~Gone(x)' => ~Gone(x) /\ q \notin values[x] /\ Needs(x, q)
      BY <1>8, <2>1, <3>1 DEF ToSend
    <3>3. x = p => q \notin old_dead[p]
      BY <1>7, <3>1
    <3> QED
      BY <1>2, <1>3, <1>8, <1>9, <1>17, <2>1, <2>2, <3>1, <3>2, <3>3
  <2>3. CASE q = p
    <3>1. x \in S /\ x \notin old_dead[p] /\ stage'[p] \in {"values", "left"}
      BY <1>2, <1>3, <2>3
    <3>2. ASSUME x = p, ~Gone(x)' PROVE p \notin values'[x] /\ Needs(x, p)'
      <4>1. p \notin values[p]
        BY <1>5, <1>8 DEF OnTheWay
      <4> QED
        BY <1>3, <1>6, <1>8, <3>1, <3>2, <4>1 DEF Needs
    <3>3. ASSUME x # p, ~Gone(x)' PROVE p \notin values'[x] /\ Needs(x, p)'
      <4>1. ~Gone(x) /\ p \notin values[x]
        BY <1>5, <1>8, <2>1, <3>3 DEF OnTheWay
      <4>2. Due(x) \/ (stage[x] = "values" /\ p \notin received[x])
        BY <1>5, <2>1, <3>1, <4>1 DEF Together, Taken
      <4>3. \A U \in Claims(x) : p \in U
        BY <1>5, <1>6, <2>1, <3>1 DEF Owned, Apart
      <4> QED
        BY <1>2, <1>9, <2>1, <3>3, <4>1, <4>2, <4>3 DEF Needs
    <3> QED
      BY <2>3, <3>1, <3>2, <3>3
  <2> QED
    BY <2>2, <2>3
<1>21. DeadAreThrough'
  <2> SUFFICES ASSUME NEW x \in PEs, ~Gone(x)', stage'[x] # "values"
               PROVE  /\ Informed(x)'  => \A q \in old_dead[x] : Through(q, x)'
                      /\ ~Informed(x)' => \A q \in dead[x] : Through(q, x)'
    BY <1>2 DEF DeadAreThrough
  <2>1. x # p
    BY <1>3
  <2> QED
    BY <1>2, <1>8, <1>9, <2>1 DEF DeadAreThrough, Types
<1>22. Reporting'
  <2>1. ASSUME NEW r \in PEs, NEW n \in reports'[r]
        PROVE  /\ Reported(n.pe, r)' /\ n.leaving = leaving' \cap {n.pe}
               /\ stage'[r] = "gather" => n.pe \notin received'[r]
    <3>1. n.pe \in PEs /\ n \in reports[r] /\ (stage'[r] = "gather" => r # p)
      BY <1>2, <1>3, <2>1 DEF Types
    <3> QED
      BY <1>2, <1>9, <3>1 DEF Reporting
  <2>2. ASSUME NEW r \in PEs, stage'[r] = "gather"
        PROVE  /\ root'[r] = r /\ ~Bound(r)'
               /\ \A q \in received'[r] : Gone(q)' \/ Reported(q, r)'
    <3>1. r # p
      BY <1>3, <2>2
    <3>2. \A q \in received'[r] : q \in PEs /\ q \in received[r]
      BY <1>1, <1>2, <3>1 DEF Types
    <3> QED
      BY <1>2, <1>8, <1>9, <2>2, <3>1, <3>2 DEF Reporting
  <2> QED
    BY <2>1, <2>2 DEF Reporting
<1> QED
  BY <1>1, <1>10, <1>11, <1>12, <1>13, <1>14, <1>15, <1>16, <1>18, <1>19, <1>20, <1>21, <1>22

\* Tell(p, q): the cluster was q's from the moment p announced it.
LEMMA TellKeeps == ASSUME IInv, NEW p \in PEs, NEW q \in PEs, Tell(p, q) PROVE IInv'
<1> USE DEF IInv
<1> DEFINE n == [root |-> chosen[p], set |-> group[p]]
<1>1. Types'
  BY TypesKept DEF Next, Step
<1>2. /\ UNCHANGED <<stage, leaving, cluster, root, dead, old_dead, received, tosend,
                     reports, dead_news, values>>
      /\ p \in announcing /\ told[p] = {q} /\ told'[p] = {} /\ q \in held[p] /\ q \in group[p]
      /\ held'[p] = held[p] \ {q}
      /\ \A x \in PEs : x # p => /\ told'[x] = told[x] /\ held'[x] = held[x]
                                 /\ group'[x] = group[x] /\ leavers'[x] = leavers[x]
      /\ \A x \in PEs : x # q => news'[x] = news[x]
      /\ Gone(q) => news'[q] = news[q]
      /\ ~Gone(q) => news'[q] = news[q] \cup {n}
      /\ held[p] = {q} => group'[p] = {} /\ leavers'[p] = {} /\ announcing' = announcing \ {p}
      /\ held[p] # {q} => group' = group /\ leavers' = leavers /\ announcing' = announcing
  <2>1. /\ UNCHANGED <<stage, leaving, cluster, root, dead, old_dead, received, tosend,
                       reports, dead_news, values>>
        /\ p \in announcing /\ q \in told[p]
    BY DEF Tell, own
  <2>2. told[p] = {q} /\ q \in held[p] /\ q \in group[p]
    BY <2>1 DEF Groups, Types
  <2>3. /\ told'[p] = {} /\ held'[p] = held[p] \ {q}
        /\ \A x \in PEs : x # p => told'[x] = told[x] /\ held'[x] = held[x]
    BY DEF Tell, Types
  <2>4. /\ \A x \in PEs : x # q => news'[x] = news[x]
        /\ Gone(q) => news'[q] = news[q]
        /\ ~Gone(q) => news'[q] = news[q] \cup {n}
    BY DEF Tell, Types
  <2>5. /\ held[p] = {q} => /\ group'[p] = {} /\ leavers'[p] = {} /\ announcing' = announcing \ {p}
                            /\ \A x \in PEs : x # p => group'[x] = group[x] /\ leavers'[x] = leavers[x]
        /\ held[p] # {q} => group' = group /\ leavers' = leavers /\ announcing' = announcing
    BY DEF Tell, Types
  <2> QED
    BY <2>1, <2>2, <2>3, <2>4, <2>5
<1>3. n.set = group[p]
  OBVIOUS
<1> HIDE DEF n
<1>4. /\ \A r \in PEs : held'[r] \subseteq held[r] /\ told'[r] \subseteq told[r]
      /\ \A r \in PEs : group'[r] = group[r] \/ group'[r] = {}
      /\ \A r \in PEs : leavers'[r] \subseteq leavers[r]
      /\ \A x \in PEs : news[x] \subseteq news'[x]
  BY <1>2
<1>5. \A r \in PEs : r # p => q \notin held[r] /\ q \notin group[r] /\ q \notin told[r]
  BY <1>2 DEF Disjoint, Groups
<1>6. ASSUME ~Gone(q)
      PROVE  stage[q] = "wait" /\ news[q] = {} /\ news'[q] = {n} /\ Due(q) /\ Due(q)'
  <2>1. news[q] = {} /\ news'[q] = {n}
    BY <1>2, <1>6 DEF OneNews
  <2> QED
    BY <1>2, <1>6, <2>1 DEF Waiting, Due
<1>7. \A x \in PEs : Due(x)' <=> Due(x)
  <2> SUFFICES ASSUME NEW x \in PEs PROVE Due(x)' <=> Due(x)
    OBVIOUS
  <2>1. CASE x = q
    BY <1>2, <1>6, <2>1 DEF Due
  <2>2. CASE x # q
    <3>1. \A r \in PEs : r \in announcing /\ x \in held[r] <=> r \in announcing' /\ x \in held'[r]
      BY <1>2, <2>2
    <3> QED
      BY <1>2, <2>2, <3>1 DEF Due, Types
  <2> QED
    BY <2>1, <2>2
<1>8. \A x \in PEs : Claims(x)' = Claims(x)
  <2> SUFFICES ASSUME NEW x \in PEs PROVE Claims(x)' = Claims(x)
    OBVIOUS
  <2>1. \A r \in announcing : r \in PEs
    BY DEF Types
  <2>2. CASE Gone(x)
    BY <1>2, <2>2 DEF Claims
  <2>3. CASE x = q /\ ~Gone(x)
    <3>1. \A S : S \in Claims(q) <=> S = group[p]
      BY <1>2, <1>5, <1>6, <2>1, <2>3, ClaimsAre
    <3>2. {s \in announcing' : q \in held'[s]} = {}
      BY <1>2, <1>4, <1>5, <2>1
    <3>3. Claims(q)' = {group[p]}
      BY <1>2, <1>3, <1>6, <2>3, <3>2 DEF Claims
    <3> QED
      BY <2>3, <3>1, <3>3
  <2>4. CASE x # q /\ ~Gone(x)
    <3>1. \A r : r \in announcing /\ x \in held[r] <=> r \in announcing' /\ x \in held'[r]
      BY <1>2, <2>1, <2>4
    <3>2. \A r : r \in announcing /\ x \in held[r] => group'[r] = group[r]
      BY <1>2, <2>1, <2>4
    <3>3. {group'[r] : r \in {s \in announcing' : x \in held'[s]}} =
          {group[r] : r \in {s \in announcing : x \in held[s]}}
      BY <3>1, <3>2
    <3> QED
      BY <1>2, <1>7, <2>4, <3>3 DEF Claims
  <2> QED
    BY <2>2, <2>3, <2>4
<1>9. /\ \A x \in PEs : Leaver(x)' <=> Leaver(x)
      /\ \A x \in PEs : Informed(x)' <=> Informed(x)
      /\ \A x \in PEs : ~Gone(x) => (Bound(x)' <=> Bound(x))
      /\ \A x, y \in PEs : /\ Needs(x, y)' <=> Needs(x, y)
                           /\ Through(x, y)' <=> Through(x, y)
                           /\ Reported(x, y)' <=> Reported(x, y)
  <2>1. \A x \in PEs : Informed(x)' <=> Informed(x)
    <3>1. Informed(q)' <=> Informed(q)
      BY <1>2, <1>6 DEF Informed
    <3>2. ASSUME NEW x \in PEs, x # q PROVE Informed(x)' <=> Informed(x)
      <4>1. \A r \in PEs : x \in told'[r] <=> x \in told[r]
        BY <1>2, <3>2
      <4> QED
        BY <1>2, <3>2, <4>1 DEF Informed
    <3> QED
      BY <3>1, <3>2
  <2>2. ASSUME NEW x \in PEs, ~Gone(x) PROVE Bound(x)' <=> Bound(x)
    <3>1. CASE x = q
      BY <1>2, <1>6, <2>2, <3>1 DEF Bound
    <3>2. CASE x # q
      <4>1. \A r \in PEs : x \in held'[r] <=> x \in held[r]
        BY <1>2, <3>2
      <4> QED
        BY <1>2, <3>2, <4>1 DEF Bound
    <3> QED
      BY <3>1, <3>2
  <2>3. \A x, y \in PEs : Reported(x, y)' <=> Reported(x, y)
    BY <1>2, <2>2 DEF Reported
  <2> QED
    BY <1>2, <1>7, <1>8, <2>1, <2>2, <2>3 DEF Leaver, Needs, Through
<1>10. Owned' /\ Apart'
  BY <1>2, <1>8 DEF Owned, Apart
<1>11. Disjoint' /\ Closed'
  <2>1. Disjoint'
    BY <1>4 DEF Disjoint
  <2>2. \A r \in PEs : r \notin announcing' /\ group'[r] # {} => r \notin announcing /\ group'[r] = group[r]
    BY <1>2
  <2>3. Closed'
    BY <1>8, <2>2 DEF Closed
  <2> QED
    BY <2>1, <2>3
<1>12. OneNews'
  <2> SUFFICES ASSUME NEW x \in PEs
               PROVE  /\ \A k, l \in news'[x] : k = l
                      /\ \A k, l \in dead_news'[x] : k = l
                      /\ \A r \in PEs : ~Gone(x)' /\ x \in held'[r] => news'[x] = {}
    BY DEF OneNews
  <2>1. CASE x = q /\ ~Gone(q)
    BY <1>2, <1>4, <1>5, <1>6, <2>1 DEF OneNews
  <2>2. CASE ~(x = q /\ ~Gone(q))
    BY <1>2, <1>4, <2>2 DEF OneNews
  <2> QED
    BY <2>1, <2>2
<1>13. Waiting'
  <2>1. \A r \in PEs : \A x \in held'[r] : Gone(x)' \/ stage'[x] = "wait"
    BY <1>2, <1>4 DEF Waiting
  <2>2. \A x \in PEs : news'[x] # {} \/ dead_news'[x] # {} => stage'[x] = "wait"
    BY <1>2, <1>6 DEF Waiting
  <2>3. ASSUME NEW x \in PEs, dead_news'[x] # {}
        PROVE  news'[x] # {} \/ \E r \in PEs : x \in told'[r]
    <3>1. stage[x] = "wait" /\ (news[x] # {} \/ \E r \in PEs : x \in told[r])
      BY <1>2, <2>3 DEF Waiting
    <3>2. CASE x = q
      BY <1>6, <3>1, <3>2
    <3>3. CASE x # q
      BY <1>2, <3>1, <3>3
    <3> QED
      BY <3>2, <3>3
  <2> QED
    BY <2>1, <2>2, <2>3 DEF Waiting
<1>14. Groups'
  <2> SUFFICES ASSUME NEW r \in PEs
               PROVE  /\ held'[r] \subseteq group'[r] /\ told'[r] \subseteq held'[r]
                      /\ r \notin announcing' => held'[r] = group'[r] /\ told'[r] = {}
                      /\ group'[r] # {} => r \in group'[r] /\ stage'[r] = "wait"
                      /\ r \in announcing' =>
                           /\ held'[r] # {} /\ (r \in held'[r] \/ news'[r] # {})
                           /\ \A m \in news'[r] : m.set = group'[r]
                      /\ \A x, y \in told'[r] : x = y
                      /\ leavers'[r] \subseteq
                           group'[r] \cup (IF stage'[r] = "gather" THEN received'[r] ELSE {})
    BY DEF Groups
  <2>1. CASE r # p
    <3>1. r \in announcing => r # q
      BY <1>5, <2>1, RootClaims
    <3>2. r \in announcing' => r \in announcing /\ news'[r] = news[r]
      BY <1>2, <3>1
    <3> QED
      BY <1>2, <2>1, <3>2 DEF Groups
  <2>2. CASE r = p /\ held[p] = {q}
    BY <1>2, <2>2
  <2>3. CASE r = p /\ held[p] # {q}
    <3>1. \A k \in news'[p] : k.set = group[p]
      BY <1>2, <1>3 DEF Groups
    <3>2. p = q => news'[p] # {}
      BY <1>2, <1>6, RootClaims
    <3> QED
      BY <1>2, <1>4, <2>3, <3>1, <3>2 DEF Groups
  <2> QED
    BY <2>1, <2>2, <2>3
<1>15. LeaversLeave'
  BY <1>2, <1>4, <1>9 DEF LeaversLeave, Types
<1>16. Together' /\ Taken' /\ OnTheWay' /\ ToSend'
  BY <1>2, <1>7, <1>8, <1>9 DEF Together, Taken, OnTheWay, ToSend, Types
<1>17. DeadAreThrough'
  BY <1>2, <1>9 DEF DeadAreThrough, Types
<1>18. Reporting'
  BY <1>2, <1>9 DEF Reporting, Types
<1> QED
  BY <1>1, <1>10, <1>11, <1>12, <1>13, <1>14, <1>15, <1>16, <1>17, <1>18

\* r's group takes over s's, or is its own (s = r); it may be complete then.
Joins(r, s) ==
  /\ Joining(r) /\ Joining(s)
  /\ UNCHANGED <<own, told, sent>>
  /\ announcing' \in {announcing, announcing \cup {r}}
  /\ group'[r] = group[r] \cup group[s] /\ held'[r] = held[r] \cup held[s]
  /\ leavers'[r] = leavers[r] \cup leavers[s]
  /\ s # r => group'[s] = {} /\ held'[s] = {} /\ leavers'[s] = {}
  /\ \A x \in PEs \ {r, s} : /\ group'[x] = group[x] /\ held'[x] = held[x]
                             /\ leavers'[x] = leavers[x]

\* Whoever claims a cluster that meets a group that still grows is in the group.
LEMMA JoinsWhole ==
  ASSUME IInv, NEW r \in PEs, NEW s \in PEs, r \notin announcing, s \notin announcing,
         NEW q \in PEs, NEW S \in Claims(q), NEW x \in S, x \in group[r] \cup group[s]
  PROVE  S \subseteq group[r] \cup group[s] /\ q \in group[r] \cup group[s]
<1>1. x \in PEs
  BY DEF IInv, Types
<1>2. S \subseteq group[r] \cup group[s]
  BY <1>1 DEF IInv, Closed
<1> QED
  BY <1>2 DEF IInv, Owned

\* Joining groups keeps all of the above: nobody has reported who is in one.
LEMMA JoinsKeeps ==
  ASSUME IInv, Types', NEW p \in PEs, NEW s \in PEs, Joins(p, s) PROVE IInv'
<1> USE DEF IInv
<1> DEFINE T == group[p] \cup group[s]
           N == announcing' # announcing
<1>2. /\ UNCHANGED <<stage, leaving, cluster, root, dead, old_dead, received, tosend,
                     told, reports, dead_news, news, values>>
      /\ p \notin announcing /\ s \notin announcing
      /\ told[p] = {} /\ told[s] = {} /\ held[p] = group[p] /\ held[s] = group[s]
      /\ p \in group[p] /\ s \in group[s] /\ stage[p] = "wait" /\ stage[s] = "wait"
      /\ group'[p] = T /\ held'[p] = T
      /\ s # p => group'[s] = {} /\ held'[s] = {} /\ leavers'[s] = {}
      /\ leavers'[p] = leavers[p] \cup leavers[s]
      /\ \A x \in PEs \ {p, s} : /\ group'[x] = group[x] /\ held'[x] = held[x]
                                 /\ leavers'[x] = leavers[x]
  BY DEF Joins, Joining, Groups, own, sent
<1>3. /\ announcing' = IF N THEN announcing \cup {p} ELSE announcing
      /\ \A r \in announcing : r \in PEs \ {p, s}
      /\ T \subseteq PEs
  BY <1>2 DEF Joins, Types
<1>4. \A x, q \in PEs : \A S \in Claims(q) : x \in S /\ x \in T => S \subseteq T /\ q \in T
  BY <1>2, JoinsWhole
<1> HIDE DEF T, N
<1>5. \A x \in T : \A y \in PEs : x \in group[y] => y \in {p, s}
  BY <1>3 DEF T, Disjoint
<1>6. \A x \in T : x \in PEs /\ x \notin {y \in PEs : \E r \in announcing : y \in held[r]}
  BY <1>3, <1>5 DEF Groups
<1>7. ASSUME NEW x \in T, ~Gone(x)
      PROVE  /\ stage[x] = "wait" /\ news[x] = {} /\ dead_news[x] = {}
             /\ ~Due(x) /\ cluster[x] \subseteq T /\ dead[x] \subseteq T
  <2>1. x \in PEs /\ \E r \in PEs : x \in held[r]
    BY <1>2, <1>3 DEF T
  <2>2. stage[x] = "wait" /\ news[x] = {}
    BY <1>7, <2>1 DEF Waiting, OneNews
  <2>3. ~Due(x)
    BY <1>6, <2>1, <2>2 DEF Due
  <2>4. \A r \in PEs : x \notin told[r]
    BY <1>2, <1>5 DEF Groups
  <2>5. dead_news[x] = {}
    BY <2>1, <2>2, <2>4 DEF Waiting
  <2>6. cluster[x] \in Claims(x)
    BY <1>7, <2>1, <2>3, ClaimsAre
  <2>7. cluster[x] \subseteq T
    BY <1>4, <2>1, <2>6 DEF Owned
  <2>8. dead[x] \subseteq T
    BY <2>1, <2>6, <2>7 DEF Owned
  <2> QED
    BY <2>2, <2>3, <2>5, <2>7, <2>8
<1>8. \A x \in PEs : Due(x)' <=> Due(x) \/ (N /\ x \in T /\ ~Gone(x))
  <2>1. \A x \in PEs : (\E r \in announcing' : x \in held'[r]) <=>
          (\E r \in announcing : x \in held[r]) \/ (N /\ x \in T)
    BY <1>2, <1>3
  <2> QED
    BY <1>2, <2>1 DEF Due
<1>9. \A x \in PEs : Claims(x)' = IF N /\ x \in T /\ ~Gone(x) THEN {T} ELSE Claims(x)
  <2> SUFFICES ASSUME NEW x \in PEs
               PROVE  Claims(x)' = IF N /\ x \in T /\ ~Gone(x) THEN {T} ELSE Claims(x)
    OBVIOUS
  <2>1. CASE N /\ x \in T /\ ~Gone(x)
    <3>1. {r \in announcing' : x \in held'[r]} = {p}
      BY <1>2, <1>3, <1>6, <2>1
    <3>2. Due(x)' /\ news'[x] = {} /\ ~Gone(x)'
      BY <1>2, <1>7, <1>8, <2>1
    <3> QED
      BY <1>2, <2>1, <3>1, <3>2 DEF Claims
  <2>2. CASE ~(N /\ x \in T /\ ~Gone(x))
    <3>1. CASE Gone(x)
      BY <1>2, <3>1 DEF Claims
    <3>2. CASE ~Gone(x)
      <4>1. {group'[r] : r \in {y \in announcing' : x \in held'[y]}} =
            {group[r] : r \in {y \in announcing : x \in held[y]}}
        <5>1. \A r : r \in announcing /\ x \in held[r] <=> r \in announcing' /\ x \in held'[r]
          BY <1>2, <1>3, <2>2, <3>2
        <5>2. \A r \in announcing : group'[r] = group[r]
          BY <1>2, <1>3
        <5> QED
          BY <5>1, <5>2
      <4> QED
        BY <1>2, <1>8, <2>2, <3>2, <4>1 DEF Claims
    <3> QED
      BY <2>2, <3>1, <3>2
  <2> QED
    BY <2>1, <2>2
<1>10. /\ \A x \in PEs : Leaver(x) => Leaver(x)'
       /\ \A x \in PEs : (Informed(x)' <=> Informed(x)) /\ (Bound(x)' <=> Bound(x))
       /\ \A x, y \in PEs : /\ Through(x, y)' <=> Through(x, y)
                            /\ Reported(x, y)' <=> Reported(x, y)
       /\ \A x, y \in PEs : Needs(x, y) /\ ~Gone(x) => Needs(x, y)' /\ x \notin T
  <2>1. \A x \in PEs : Bound(x)' <=> Bound(x)
    <3>1. \A x \in PEs : (\E r \in PEs : x \in held'[r]) <=> (\E r \in PEs : x \in held[r])
      BY <1>2 DEF T
    <3> QED
      BY <1>2, <3>1 DEF Bound
  <2>2. \A x \in PEs : Leaver(x) => Leaver(x)'
    BY <1>2, <1>8 DEF Leaver
  <2>3. \A x \in PEs : Informed(x)' <=> Informed(x)
    BY <1>2 DEF Informed
  <2>4. \A x, y \in PEs : /\ Through(x, y)' <=> Through(x, y)
                          /\ Reported(x, y)' <=> Reported(x, y)
    BY <1>2, <2>1 DEF Through, Reported
  <2>5. ASSUME NEW x \in PEs, NEW y \in PEs, Needs(x, y), ~Gone(x)
        PROVE  Needs(x, y)' /\ x \notin T
    <3>1. x \notin T
      BY <1>7, <2>5 DEF Needs
    <3> QED
      BY <1>2, <1>8, <1>9, <2>5, <3>1 DEF Needs
  <2> QED
    BY <2>1, <2>2, <2>3, <2>4, <2>5
<1>11. Owned'
  <2> SUFFICES ASSUME NEW q \in PEs, NEW S \in Claims(q)'
               PROVE  /\ q \in S /\ cluster[q] \subseteq S /\ dead[q] \subseteq S
                      /\ \A m \in dead_news[q] : m.set \subseteq S
    BY <1>2 DEF Owned
  <2>1. CASE N /\ q \in T /\ ~Gone(q)
    BY <1>7, <1>9, <2>1
  <2>2. CASE ~(N /\ q \in T /\ ~Gone(q))
    <3>1. S \in Claims(q)
      BY <1>9, <2>2
    <3> QED
      BY <3>1 DEF Owned
  <2> QED
    BY <2>1, <2>2
<1>12. Apart'
  <2> SUFFICES ASSUME NEW x \in PEs, NEW y \in PEs, NEW z \in PEs,
                      NEW S \in Claims(x)', NEW U \in Claims(y)', z \in S, z \in U
               PROVE  S = U
    BY DEF Apart
  <2>1. \A q \in PEs : \A V \in Claims(q)' : z \in V =>
          \/ N /\ z \in T /\ V = T
          \/ V \in Claims(q) /\ (N => z \notin T)
    <3> SUFFICES ASSUME NEW q \in PEs, NEW V \in Claims(q)', z \in V
                 PROVE  \/ N /\ z \in T /\ V = T
                        \/ V \in Claims(q) /\ (N => z \notin T)
      OBVIOUS
    <3>1. CASE N /\ q \in T /\ ~Gone(q)
      BY <1>9, <3>1
    <3>2. CASE ~(N /\ q \in T /\ ~Gone(q))
      <4>1. V \in Claims(q)
        BY <1>9, <3>2
      <4>2. ~Gone(q)
        BY <4>1, ClaimsAre
      <4> QED
        BY <1>4, <3>2, <4>1, <4>2
    <3> QED
      BY <3>1, <3>2
  <2> QED
    BY <2>1 DEF Apart
<1>13. Disjoint'
  <2>1. \A r \in PEs : \A x \in group'[r] : x \in group[r] \/ (r = p /\ x \in T)
    BY <1>2
  <2>2. \A r \in PEs : r # p => group'[r] \subseteq group[r] /\ (r = s => group'[r] = {})
    BY <1>2
  <2> QED
    BY <1>2, <1>5, <2>1, <2>2 DEF Disjoint, T
<1>14. Closed'
  <2> SUFFICES ASSUME NEW r \in PEs, r \notin announcing', NEW q \in PEs, NEW x \in PEs,
                      NEW S \in Claims(q)', x \in S, x \in group'[r]
               PROVE  S \subseteq group'[r]
    BY DEF Closed
  <2>1. r \notin announcing /\ (r = p => ~N)
    BY <1>3
  <2>2. CASE r = p
    <3>1. S \in Claims(q)
      BY <1>9, <2>1, <2>2
    <3> QED
      BY <1>2, <1>4, <2>2, <3>1
  <2>3. CASE r # p
    <3>1. r # s /\ group'[r] = group[r]
      BY <1>2, <2>3
    <3>2. x \notin T
      BY <1>5, <2>3, <3>1
    <3>3. S \in Claims(q)
      BY <1>9, <3>2
    <3> QED
      BY <2>1, <3>1, <3>3 DEF Closed
  <2> QED
    BY <2>2, <2>3
<1>15. \A r \in PEs : \A x \in held'[r] : \E y \in PEs : x \in held[y]
  BY <1>2 DEF T
<1>16. OneNews' /\ Waiting'
  <2>1. OneNews'
    BY <1>2, <1>15 DEF OneNews
  <2>2. Waiting'
    BY <1>2, <1>15 DEF Waiting
  <2> QED
    BY <2>1, <2>2
<1>17. Groups'
  <2> SUFFICES ASSUME NEW r \in PEs
               PROVE  /\ held'[r] \subseteq group'[r] /\ told'[r] \subseteq held'[r]
                      /\ r \notin announcing' => held'[r] = group'[r] /\ told'[r] = {}
                      /\ group'[r] # {} => r \in group'[r] /\ stage'[r] = "wait"
                      /\ r \in announcing' =>
                           /\ held'[r] # {} /\ (r \in held'[r] \/ news'[r] # {})
                           /\ \A m \in news'[r] : m.set = group'[r]
                      /\ \A x, y \in told'[r] : x = y
                      /\ leavers'[r] \subseteq
                           group'[r] \cup (IF stage'[r] = "gather" THEN received'[r] ELSE {})
    BY DEF Groups
  <2>1. CASE r = p
    <3>1. p \in T /\ ~Gone(p) /\ news[p] = {}
      BY <1>2, <1>7 DEF T
    <3>2. leavers[p] \cup leavers[s] \subseteq T
      BY <1>2 DEF Groups, T
    <3> QED
      BY <1>2, <2>1, <3>1, <3>2
  <2>2. CASE r = s /\ r # p
    BY <1>2, <1>3, <2>2
  <2>3. CASE r # p /\ r # s
    <3>1. r \in announcing' <=> r \in announcing
      BY <1>3, <2>3
    <3> QED
      BY <1>2, <2>3, <3>1 DEF Groups
  <2> QED
    BY <2>1, <2>2, <2>3
<1>18. LeaversLeave'
  <2>1. \A r \in PEs : \A q \in leavers'[r] : \E y \in PEs : q \in leavers[y]
    BY <1>2
  <2> QED
    BY <1>2, <1>10, <2>1 DEF LeaversLeave, Types
<1>19. Together'
  <2> SUFFICES ASSUME NEW x \in PEs, NEW q \in PEs, NEW S \in Claims(q)', Due(q)', x \in S
               PROVE  Gone(x) \/ Due(x)' \/ stage[x] = "values"
    BY <1>2 DEF Together
  <2>1. CASE N /\ q \in T /\ ~Gone(q)
    BY <1>8, <1>9, <2>1
  <2>2. CASE ~(N /\ q \in T /\ ~Gone(q))
    BY <1>8, <1>9, <2>2 DEF Together
  <2> QED
    BY <2>1, <2>2
<1>20. Taken' /\ OnTheWay' /\ ToSend'
  <2>1. Taken'
    <3> SUFFICES ASSUME NEW x \in PEs, stage[x] = "values", NEW q \in received[x]
                 PROVE  ~Due(q)' /\ q \in cluster[x]
      BY <1>2 DEF Taken
    <3>1. q \in PEs /\ ~Due(q) /\ q \in cluster[x]
      BY DEF Taken, Types
    <3>2. cluster[x] \in Claims(x)
      <4>1. ~Due(x)
        BY DEF Due, Waiting, Types
      <4> QED
        BY <4>1, ClaimsAre
    <3>3. x \notin T
      BY <1>7
    <3> QED
      BY <1>4, <1>8, <3>1, <3>2, <3>3
  <2>2. OnTheWay'
    <3> SUFFICES ASSUME NEW x \in PEs, ~Gone(x), NEW q \in values[x]
                 PROVE  ~Due(q)' /\ Needs(x, q)'
      BY <1>2 DEF OnTheWay
    <3>1. q \in PEs /\ ~Due(q) /\ Needs(x, q)
      BY DEF OnTheWay, Types
    <3>2. \E S : S \in Claims(x)
      <4>1. CASE ~Due(x)
        BY <4>1, ClaimsAre
      <4>2. CASE news[x] # {}
        <5>1. PICK m \in news[x] : TRUE
          BY <4>2
        <5> QED
          BY <5>1, ClaimsAre
      <4>3. CASE \E r \in announcing : x \in held[r]
        BY <4>3, ClaimsAre
      <4> QED
        BY <4>1, <4>2, <4>3 DEF Due
    <3>3. q \notin T
      BY <1>4, <1>10, <3>1, <3>2 DEF Needs
    <3> QED
      BY <1>8, <1>10, <3>1, <3>3
  <2>3. ToSend'
    BY <1>2, <1>10 DEF ToSend, Types
  <2> QED
    BY <2>1, <2>2, <2>3
<1>21. DeadAreThrough'
  BY <1>2, <1>10 DEF DeadAreThrough, Types
<1>22. Reporting'
  BY <1>2, <1>10 DEF Reporting, Types
<1> QED
  BY <1>11, <1>12, <1>13, <1>14, <1>16, <1>17, <1>18, <1>19, <1>20, <1>21, <1>22

\* Announce declares a group of whole clusters complete.
LEMMA AnnounceKeeps == ASSUME IInv, NEW p \in PEs, Announce(p) PROVE IInv'
<1>1. Types'
  BY TypesKept DEF IInv, Next, Step
<1>2. Joins(p, p)
  BY DEF IInv, Announce, Complete, Joins
<1> QED
  BY <1>1, <1>2, JoinsKeeps

\* Merge joins two groups of whole clusters, and may declare them complete.
LEMMA MergeKeeps ==
  ASSUME IInv, NEW p \in PEs, NEW s \in PEs, Merge(p, s) PROVE IInv'
<1>1. Types'
  BY TypesKept DEF IInv, Next, Step
<1>2. Joins(p, s)
  BY DEF IInv, Types, Merge, Complete, Joins
<1> QED
  BY <1>1, <1>2, JoinsKeeps

\* What a step keeps that only its own PE's reports, values or decisions change.
LEMMA NextKeeps == ASSUME IInv, [Next]_vars PROVE IInv'
<1>1. CASE UNCHANGED vars
  <2> USE <1>1 DEF vars, own, joining, sent
  <2>1. /\ \A q \in PEs : (Due(q)' <=> Due(q)) /\ (Informed(q)' <=> Informed(q))
        /\ \A q \in PEs : (Bound(q)' <=> Bound(q)) /\ (Gone(q)' <=> Gone(q))
    BY DEF Due, Informed, Bound
  <2>2. \A q \in PEs : Claims(q)' = Claims(q)
    BY <2>1 DEF Claims
  <2>3. /\ \A q \in PEs : Leaver(q)' <=> Leaver(q)
        /\ \A q, r \in PEs : /\ Needs(q, r)' <=> Needs(q, r)
                             /\ Through(q, r)' <=> Through(q, r)
                             /\ Reported(q, r)' <=> Reported(q, r)
    BY <2>1, <2>2 DEF Leaver, Needs, Through, Reported
  <2> USE DEF IInv
  <2>4. Types' /\ Owned' /\ Apart' /\ Disjoint' /\ Closed'
    BY <2>2 DEF Types, Owned, Apart, Disjoint, Closed
  <2>5. OneNews' /\ Waiting' /\ Groups'
    BY DEF OneNews, Waiting, Groups
  <2>6. LeaversLeave' /\ Together' /\ Taken'
    BY <2>1, <2>2, <2>3 DEF LeaversLeave, Together, Taken, Types
  <2>7. OnTheWay' /\ ToSend' /\ DeadAreThrough'
    BY <2>1, <2>3 DEF OnTheWay, ToSend, DeadAreThrough, Types
  <2>8. Reporting'
    BY <2>1, <2>3 DEF Reporting, Types
  <2> QED
    BY <2>4, <2>5, <2>6, <2>7, <2>8
<1>2. CASE Next
  BY <1>2, ReportKeeps, StartKeeps, GiveUpKeeps, AnnounceKeeps, ValuesDoneKeeps, DecideKeeps,
     GatherKeeps, TakeDeadKeeps, TakeKeeps, MergeKeeps, TellDeadKeeps, TellKeeps, SendValueKeeps,
     ReceiveValueKeeps DEF Next, Step
<1> QED
  BY <1>1, <1>2

\* A view is of a cluster that its PE claims.
LEMMA ViewsAreClaims ==
  ASSUME IInv, NEW p \in PEs, NEW v \in Views(p)
  PROVE  /\ v.set \in Claims(p) /\ p \in v.set /\ ~Gone(p)
         /\ v = [set |-> v.set, root |-> v.root, dead |-> v.dead]
         /\ news[p] # {} \/ stage[p] # "wait"
<1>1. CASE Settled(p) /\ v = [set |-> cluster[p], root |-> root[p], dead |-> dead[p]]
  <2>1. ~Gone(p) /\ stage[p] # "wait" /\ ~Due(p)
    BY <1>1 DEF Settled, IInv, Waiting, Types, Due
  <2>2. cluster[p] \in Claims(p)
    BY <2>1, ClaimsAre
  <2> QED
    BY <1>1, <2>1, <2>2 DEF IInv, Owned
<1>2. CASE \E m \in news[p], d \in DeadLists(p) : v = [set |-> m.set, root |-> m.root, dead |-> d]
  <2>1. PICK m \in news[p], d \in DeadLists(p) : v = [set |-> m.set, root |-> m.root, dead |-> d]
    BY <1>2
  <2>2. stage[p] = "wait" /\ ~Gone(p) /\ news[p] # {}
    BY <2>1 DEF IInv, Waiting
  <2>3. m.set \in Claims(p)
    BY <2>2, ClaimsAre
  <2> QED
    BY <2>1, <2>2, <2>3 DEF IInv, Owned
<1> QED
  BY <1>1, <1>2 DEF Views

\* No new view, and no new group that is announced.
LEMMA ViewsKept ==
  ASSUME IInv, OneView, told' = told, announcing' = announcing,
         \A p \in PEs : Views(p)' \subseteq Views(p),
         \A r \in announcing : /\ group'[r] = group[r] /\ chosen'[r] = chosen[r]
                               /\ NewDead(r)' = NewDead(r),
         \A r \in PEs : \A p \in told[r] :
           ~Gone(p)' => ~Gone(p) /\ DeadLists(p)' = DeadLists(p)
  PROVE  OneView'
<1>1. \A r \in PEs : \A p \in told[r] : r \in announcing
  BY DEF IInv, Groups
<1>2. \A r \in announcing : r \in PEs
  BY DEF IInv, Types
<1>3. \A p, q \in PEs : \A v \in Views(p)', w \in Views(q)' : v.set = w.set => v = w
  BY DEF OneView
<1>4. \A r \in announcing', p \in PEs : \A v \in Views(p)' :
        v.set = group'[r] => v.root = chosen'[r] /\ v.dead = NewDead(r)'
  BY <1>2 DEF OneView
<1>5. \A r \in PEs : \A p \in told'[r] : ~Gone(p)' => DeadLists(p)' = {NewDead(r)'}
  BY <1>1 DEF OneView
<1> QED
  BY <1>3, <1>4, <1>5 DEF OneView

\* A group that is complete contains nobody who has seen that cluster before.
LEMMA JoinsOneView ==
  ASSUME IInv, OneView, NEW p \in PEs, NEW s \in PEs, Joins(p, s),
         \A r \in announcing : chosen'[r] = chosen[r]
  PROVE  OneView'
<1>1. /\ UNCHANGED <<stage, cluster, root, dead, told, dead_news, news>>
      /\ p \notin announcing /\ s \notin announcing /\ told[p] = {} /\ told[s] = {}
      /\ announcing' \subseteq announcing \cup {p}
      /\ held[p] = group[p] /\ held[s] = group[s]
      /\ group'[p] = group[p] \cup group[s]
      /\ \A x \in PEs \ {p, s} : group'[x] = group[x] /\ leavers'[x] = leavers[x]
  BY DEF Joins, Joining, IInv, Groups, own, sent
<1>2. \A x \in PEs : Views(x)' = Views(x) /\ DeadLists(x)' = DeadLists(x)
  BY <1>1 DEF Views, DeadLists, Settled
<1>3. ASSUME NEW r \in announcing
      PROVE  r \in PEs \ {p, s} /\ group'[r] = group[r] /\ NewDead(r)' = NewDead(r)
  BY <1>1 DEF IInv, Types, NewDead
<1>4. ASSUME NEW x \in PEs, NEW v \in Views(x) PROVE v.set # group[p] \cup group[s]
  <2>1. SUFFICES ASSUME x \in group[p] \cup group[s] PROVE FALSE
    BY <1>4, ViewsAreClaims
  <2>2. ~Gone(x) /\ (news[x] # {} \/ stage[x] # "wait")
    BY <1>4, ViewsAreClaims
  <2>3. news[x] = {} /\ stage[x] = "wait"
    BY <1>1, <2>1, <2>2 DEF IInv, OneNews, Waiting
  <2> QED
    BY <2>2, <2>3
<1>5. \A r \in PEs : \A x \in told[r] : r \in announcing
  BY DEF IInv, Groups
<1>6. \A x, y \in PEs : \A v \in Views(x)', w \in Views(y)' : v.set = w.set => v = w
  BY <1>2 DEF OneView
<1>7. \A r \in announcing', x \in PEs : \A v \in Views(x)' :
        v.set = group'[r] => v.root = chosen'[r] /\ v.dead = NewDead(r)'
  <2> SUFFICES ASSUME NEW r \in announcing', NEW x \in PEs, NEW v \in Views(x), v.set = group'[r]
               PROVE  v.root = chosen'[r] /\ v.dead = NewDead(r)'
    BY <1>2
  <2>1. r \in announcing
    BY <1>1, <1>4
  <2> QED
    BY <1>3, <2>1 DEF OneView
<1>8. \A r \in PEs : \A x \in told'[r] : ~Gone(x)' => DeadLists(x)' = {NewDead(r)'}
  BY <1>1, <1>2, <1>3, <1>5 DEF OneView, IInv, Types
<1> QED
  BY <1>6, <1>7, <1>8 DEF OneView

\* Tell(p, q) shows q what all are shown who are in p's group.
LEMMA TellOneView ==
  ASSUME IInv, OneView, NEW p \in PEs, NEW q \in PEs, Tell(p, q) PROVE OneView'
<1> USE DEF IInv
<1> DEFINE v0 == [set |-> group[p], root |-> chosen[p], dead |-> NewDead(p)]
<1>1. /\ UNCHANGED <<stage, cluster, root, dead, dead_news>>
      /\ p \in announcing /\ told[p] = {q} /\ q \in held[p]
      /\ told'[p] = {} /\ \A r \in PEs : r # p => told'[r] = told[r]
      /\ announcing' \subseteq announcing
      /\ \A r \in announcing' : r \in PEs /\ group'[r] = group[r] /\ chosen'[r] = chosen[r]
                                /\ NewDead(r)' = NewDead(r)
      /\ \A r \in PEs : r # p => NewDead(r)' = NewDead(r)
      /\ \A x \in PEs : x # q => news'[x] = news[x]
      /\ Gone(q) => news'[q] = news[q]
      /\ ~Gone(q) => news'[q] = news[q] \cup {[root |-> chosen[p], set |-> group[p]]}
  <2>1. UNCHANGED <<stage, cluster, root, dead, dead_news>> /\ p \in announcing
    BY DEF Tell, own
  <2>2. told[p] = {q} /\ q \in held[p]
    BY <2>1 DEF Tell, Groups, Types
  <2>3. told'[p] = {} /\ \A r \in PEs : r # p => told'[r] = told[r]
    BY DEF Tell, Types
  <2>4. /\ announcing' \subseteq announcing
        /\ \A r \in announcing' : r \in PEs /\ group'[r] = group[r] /\ chosen'[r] = chosen[r]
                                  /\ leavers'[r] = leavers[r]
        /\ \A r \in PEs : r # p => leavers'[r] = leavers[r]
    <3>1. CASE held[p] = {q}
      BY <3>1 DEF Tell, Types
    <3>2. CASE held[p] # {q}
      BY <3>2 DEF Tell, Types
    <3> QED
      BY <3>1, <3>2
  <2>5. /\ \A x \in PEs : x # q => news'[x] = news[x]
        /\ Gone(q) => news'[q] = news[q]
        /\ ~Gone(q) => news'[q] = news[q] \cup {[root |-> chosen[p], set |-> group[p]]}
    BY DEF Tell, Types
  <2> QED
    BY <2>1, <2>2, <2>3, <2>4, <2>5 DEF NewDead
<1>2. \A x \in PEs : DeadLists(x)' = DeadLists(x)
  BY <1>1 DEF DeadLists
<1>3. \A x \in PEs : x # q \/ Gone(q) => Views(x)' = Views(x)
  BY <1>1, <1>2 DEF Views, Settled
<1>4. ~Gone(q) => Views(q)' = {v0}
  <2> SUFFICES ASSUME ~Gone(q) PROVE Views(q)' = {v0}
    OBVIOUS
  <2>1. stage[q] = "wait" /\ news[q] = {}
    BY <1>1 DEF Waiting, OneNews
  <2>2. DeadLists(q)' = {NewDead(p)}
    BY <1>1, <1>2 DEF OneView
  <2>3. news'[q] = {[root |-> chosen[p], set |-> group[p]]} /\ ~Settled(q)'
    BY <1>1, <2>1 DEF Settled
  <2>4. Views(q)' = {[set |-> m.set, root |-> m.root, dead |-> d] : m \in news'[q], d \in DeadLists(q)'}
    BY <2>3 DEF Views
  <2> QED
    BY <2>2, <2>3, <2>4
<1>5. ASSUME NEW x \in PEs, NEW v \in Views(x), v.set = group[p] PROVE v = v0
  <2>1. v.root = chosen[p] /\ v.dead = NewDead(p)
    BY <1>1, <1>5 DEF OneView
  <2> QED
    BY <1>5, <2>1, ViewsAreClaims
<1>6. \A r \in announcing : r # p => group[r] # group[p]
  BY <1>1, RootClaims DEF Disjoint
<1>7. v0.set = group[p] /\ v0.root = chosen[p] /\ v0.dead = NewDead(p)
  OBVIOUS
<1> HIDE DEF v0
<1>8. \A x, y \in PEs : \A v \in Views(x)', w \in Views(y)' : v.set = w.set => v = w
  <2>1. \A x \in PEs : \A v \in Views(x)' : v \in Views(x) \/ v = v0
    BY <1>3, <1>4
  <2> QED
    BY <1>5, <1>7, <2>1 DEF OneView
<1>9. \A r \in announcing', x \in PEs : \A v \in Views(x)' :
        v.set = group'[r] => v.root = chosen'[r] /\ v.dead = NewDead(r)'
  <2> SUFFICES ASSUME NEW r \in announcing', NEW x \in PEs, NEW v \in Views(x)',
                      v.set = group'[r]
               PROVE  v.root = chosen'[r] /\ v.dead = NewDead(r)'
    OBVIOUS
  <2>1. CASE v \in Views(x)
    BY <1>1, <2>1 DEF OneView
  <2>2. CASE v = v0
    BY <1>1, <1>6, <1>7, <2>2
  <2> QED
    BY <1>3, <1>4, <2>1, <2>2
<1>10. \A r \in PEs : \A x \in told'[r] : ~Gone(x)' => DeadLists(x)' = {NewDead(r)'}
  <2> SUFFICES ASSUME NEW r \in PEs, NEW x \in told'[r], ~Gone(x)'
               PROVE  DeadLists(x)' = {NewDead(r)'}
    OBVIOUS
  <2>1. r # p /\ x \in told[r] /\ x \in PEs /\ ~Gone(x)
    BY <1>1 DEF Types
  <2> QED
    BY <1>1, <1>2, <2>1 DEF OneView
<1> QED
  BY <1>8, <1>9, <1>10 DEF OneView

\* Members of a cluster are shown the same, whatever step is taken.
LEMMA NextOneView == ASSUME IInv, OneView, [Next]_vars PROVE OneView'
<1> USE DEF IInv
<1>1. CASE UNCHANGED vars
  <2>1. /\ UNCHANGED <<stage, told, announcing, group, chosen>>
        /\ \A p \in PEs : Views(p)' = Views(p) /\ DeadLists(p)' = DeadLists(p) /\ NewDead(p)' = NewDead(p)
        /\ \A r \in announcing : r \in PEs
        /\ \A r \in PEs : \A p \in told[r] : p \in PEs
    BY <1>1 DEF vars, own, joining, sent, Views, DeadLists, NewDead, Settled, Types
  <2> QED
    BY <2>1, ViewsKept
<1>2. ASSUME NEW p \in PEs,
             \/ Report(p) \/ Start(p) \/ GiveUp(p) \/ ValuesDone(p) \/ Decide(p)
             \/ \E m \in reports[p] : Gather(p, m)
             \/ \E q \in PEs : SendValue(p, q) \/ ReceiveValue(p, q)
      PROVE  OneView'
  <2>1. /\ UNCHANGED <<cluster, dead, told, announcing, chosen, news, dead_news>>
        /\ \A x \in PEs : /\ Settled(x)' => Settled(x) /\ root'[x] = root[x]
                          /\ Gone(x)' <=> Gone(x)
    <3>1. CASE Report(p)
      BY <3>1 DEF Report, joining, Settled, Types
    <3>2. CASE Start(p)
      BY <3>2 DEF Start, sent, Settled, Types
    <3>3. CASE GiveUp(p)
      <4>1. ~Settled(p)
        BY <3>3 DEF GiveUp, Joining, Groups, Settled
      <4> QED
        BY <3>3, <4>1 DEF GiveUp, sent, Settled, Types
    <3>4. CASE ValuesDone(p)
      BY <3>4 DEF ValuesDone, joining, sent, Settled, Types
    <3>5. CASE Decide(p)
      BY <3>5 DEF Decide, joining, sent, Settled, Types
    <3>6. CASE \E m \in reports[p] : Gather(p, m)
      BY <3>6 DEF Gather, Settled
    <3>7. CASE \E q \in PEs : SendValue(p, q) \/ ReceiveValue(p, q)
      BY <3>7 DEF SendValue, ReceiveValue, joining, Settled
    <3> QED
      BY <1>2, <3>1, <3>2, <3>3, <3>4, <3>5, <3>6, <3>7
  <2>2. \A x \in PEs : DeadLists(x)' = DeadLists(x) /\ Views(x)' \subseteq Views(x)
    BY <2>1 DEF DeadLists, Views
  <2>3. \A r \in announcing : group'[r] = group[r] /\ leavers'[r] = leavers[r]
    <3>1. \A r \in announcing : r \in PEs /\ stage[r] = "wait"
      BY RootClaims
    <3>2. CASE Start(p)
      BY <3>1, <3>2 DEF Start, Types
    <3>3. CASE GiveUp(p)
      BY <3>1, <3>3 DEF GiveUp, Joining, Types
    <3>4. CASE \E m \in reports[p] : Gather(p, m)
      BY <3>1, <3>4 DEF Gather, Types
    <3> QED
      BY <1>2, <3>2, <3>3, <3>4 DEF Report, ValuesDone, Decide, SendValue, ReceiveValue, joining
  <2>4. \A r \in announcing : NewDead(r)' = NewDead(r)
    BY <2>1, <2>3 DEF NewDead
  <2>5. \A r \in PEs : \A x \in told[r] : x \in PEs
    BY DEF Types
  <2> QED
    BY <2>1, <2>2, <2>3, <2>4, <2>5, ViewsKept
<1>3. ASSUME NEW p \in PEs, Announce(p) PROVE OneView'
  <2>1. Joins(p, p) /\ \A r \in announcing : chosen'[r] = chosen[r]
    BY <1>3 DEF Announce, Complete, Joins, Joining, Types
  <2> QED
    BY <2>1, JoinsOneView
<1>4. ASSUME NEW p \in PEs, NEW s \in PEs, Merge(p, s) PROVE OneView'
  <2>1. Joins(p, s) /\ \A r \in announcing : chosen'[r] = chosen[r]
    BY <1>4 DEF Merge, Complete, Joins, Joining, Types
  <2> QED
    BY <2>1, JoinsOneView
<1>5. ASSUME NEW p \in PEs, NEW q \in PEs, TellDead(p, q) PROVE OneView'
  <2>1. /\ UNCHANGED <<stage, cluster, root, dead, group, leavers, announcing, chosen, news>>
        /\ p \in announcing /\ told[p] = {} /\ q \in held[p]
        /\ told'[p] = {q} /\ \A r \in PEs : r # p => told'[r] = told[r]
        /\ \A x \in PEs : x # q => dead_news'[x] = dead_news[x]
        /\ Gone(q) => dead_news'[q] = dead_news[q]
        /\ ~Gone(q) => dead_news'[q] = dead_news[q] \cup {[root |-> chosen[p], set |-> NewDead(p)]}
    BY <1>5 DEF TellDead, own, Types
  <2>2. ~Gone(q) => stage[q] = "wait" /\ news[q] = {} /\ \A r \in PEs : q \notin told[r]
    BY <2>1 DEF Waiting, OneNews, Groups, Disjoint
  <2>3. ~Gone(q) => dead_news[q] = {} /\ DeadLists(q)' = {NewDead(p)}
    <3>1. ~Gone(q) => dead_news[q] = {}
      BY <2>1, <2>2 DEF Waiting
    <3> DEFINE n == [root |-> chosen[p], set |-> NewDead(p)]
    <3>2. n.set = NewDead(p) /\ (~Gone(q) => dead_news'[q] = {n})
      BY <2>1, <3>1
    <3> HIDE DEF n
    <3> QED
      BY <3>1, <3>2 DEF DeadLists
  <2>4. \A x \in PEs : x # q \/ Gone(q) => DeadLists(x)' = DeadLists(x)
    BY <2>1 DEF DeadLists
  <2>5. \A x \in PEs : Views(x)' = Views(x) /\ NewDead(x)' = NewDead(x)
    <3>1. \A x \in PEs : x # q \/ Gone(q) => Views(x)' = Views(x)
      BY <2>1, <2>4 DEF Views, Settled
    <3>2. ~Gone(q) => Views(q)' = Views(q)
      BY <2>1, <2>2 DEF Views, Settled
    <3> QED
      BY <2>1, <3>1, <3>2 DEF NewDead
  <2>6. \A x, y \in PEs : \A v \in Views(x)', w \in Views(y)' : v.set = w.set => v = w
    BY <2>5 DEF OneView
  <2>7. \A r \in announcing', x \in PEs : \A v \in Views(x)' :
          v.set = group'[r] => v.root = chosen'[r] /\ v.dead = NewDead(r)'
    BY <2>1, <2>5, RootClaims DEF OneView
  <2>8. \A r \in PEs : \A x \in told'[r] : ~Gone(x)' => DeadLists(x)' = {NewDead(r)'}
    <3> SUFFICES ASSUME NEW r \in PEs, NEW x \in told'[r], ~Gone(x)
                 PROVE  DeadLists(x)' = {NewDead(r)'}
      BY <2>1
    <3>1. CASE r = p
      BY <2>1, <2>3, <2>5, <3>1
    <3>2. CASE r # p
      <4>1. x \in told[r] /\ x \in PEs /\ x # q
        BY <2>1, <2>2, <3>2 DEF Types
      <4> QED
        BY <2>4, <2>5, <4>1 DEF OneView
    <3> QED
      BY <3>1, <3>2
  <2> QED
    BY <2>6, <2>7, <2>8 DEF OneView
<1>6. ASSUME NEW p \in PEs, NEW m \in dead_news[p], TakeDead(p, m) PROVE OneView'
  <2>1. /\ UNCHANGED <<stage, cluster, group, leavers, announcing, told, chosen, news>>
        /\ stage[p] = "wait" /\ p \notin announcing /\ dead_news[p] = {m} /\ dead_news'[p] = {}
        /\ dead'[p] = m.set
        /\ \A x \in PEs : x # p => /\ dead'[x] = dead[x] /\ root'[x] = root[x]
                                   /\ dead_news'[x] = dead_news[x]
    <3>1. dead_news[p] = {m}
      BY DEF OneNews
    <3> QED
      BY <1>6, <3>1 DEF TakeDead, joining, Types
  <2>2. \A x \in PEs : DeadLists(x)' = DeadLists(x)
    BY <2>1 DEF DeadLists
  <2>3. \A x \in PEs : Views(x)' = Views(x)
    BY <2>1, <2>2 DEF Views, Settled
  <2>4. \A r \in announcing : NewDead(r)' = NewDead(r)
    BY <2>1, RootClaims DEF NewDead
  <2>5. \A r \in PEs : \A x \in told[r] : x \in PEs
    BY DEF Types
  <2> QED
    BY <2>1, <2>2, <2>3, <2>4, <2>5, ViewsKept
<1>7. ASSUME NEW p \in PEs, NEW m \in news[p], Take(p, m) PROVE OneView'
  <2>1. /\ UNCHANGED <<dead, group, leavers, announcing, told, chosen, dead_news>>
        /\ stage[p] = "wait" /\ dead_news[p] = {} /\ news[p] = {m} /\ news'[p] = {}
        /\ cluster'[p] = m.set /\ root'[p] = m.root
        /\ \A x \in PEs : x # p => /\ stage'[x] = stage[x] /\ cluster'[x] = cluster[x]
                                   /\ root'[x] = root[x] /\ news'[x] = news[x]
    <3>1. news[p] = {m}
      BY DEF OneNews
    <3>2. \A x \in PEs : x # p => stage'[x] = stage[x]
      BY <1>7 DEF Take, Types
    <3> QED
      BY <1>7, <3>1, <3>2 DEF Take, joining, Types
  <2>2. \A x \in PEs : DeadLists(x)' = DeadLists(x) /\ NewDead(x)' = NewDead(x)
    BY <2>1 DEF DeadLists, NewDead
  <2>3. \A x \in PEs : x # p => Views(x)' = Views(x)
    BY <2>1, <2>2 DEF Views, Settled
  <2>4. Views(p)' \subseteq Views(p)
    <3>1. Views(p)' \subseteq {[set |-> m.set, root |-> m.root, dead |-> dead[p]]}
      BY <2>1 DEF Views
    <3>2. DeadLists(p) = {dead[p]}
      BY <2>1 DEF DeadLists
    <3>3. [set |-> m.set, root |-> m.root, dead |-> dead[p]] \in Views(p)
      BY <2>1, <3>2 DEF Views
    <3> QED
      BY <3>1, <3>3
  <2>5. /\ \A r \in PEs : \A x \in told[r] : x \in PEs
        /\ \A r \in announcing : r \in PEs
    BY DEF Types
  <2>6. \A x \in PEs : Gone(x) => Gone(x)'
    BY <2>1
  <2> QED
    BY <2>1, <2>2, <2>3, <2>4, <2>5, <2>6, ViewsKept
<1>8. ASSUME NEW p \in PEs, NEW q \in PEs, Tell(p, q) PROVE OneView'
  BY <1>8, TellOneView
<1> QED
  BY <1>1, <1>2, <1>3, <1>4, <1>5, <1>6, <1>7, <1>8 DEF Next, Step

\* Spec => []Invariant: all of the above, always.
LEMMA AlwaysIInv == Spec => [](IInv /\ OneView)
<1>1. Init => IInv /\ OneView
  BY InitEstablishes
<1>2. (IInv /\ OneView) /\ [Next]_vars => (IInv /\ OneView)'
  BY NextKeeps, NextOneView
<1> QED
  BY <1>1, <1>2, PTL DEF Spec

\* A step that gives a PE a cluster gives it one that contains its last.
LEMMA NextOnlyGrows ==
  ASSUME IInv, [Next]_vars, NEW x \in PEs PROVE cluster[x] \subseteq cluster'[x]
<1>1. CASE UNCHANGED vars
  BY <1>1 DEF vars, own
<1>2. ASSUME NEW p \in PEs, NEW m \in news[p], Take(p, m) PROVE cluster[x] \subseteq cluster'[x]
  <2>1. ~Gone(p)
    BY <1>2 DEF Take
  <2>2. m.set \in Claims(p)
    BY <2>1, ClaimsAre
  <2>3. cluster[p] \subseteq m.set
    BY <2>2 DEF IInv, Owned
  <2> QED
    BY <1>2, <2>3 DEF Take, IInv, Types
<1>3. ASSUME NEW p \in PEs, Step(p), ~\E m \in news[p] : Take(p, m)
      PROVE  cluster' = cluster
  BY <1>3 DEF Step, Report, Start, GiveUp, Announce, ValuesDone, Decide, Gather, TakeDead,
              Merge, TellDead, Tell, SendValue, ReceiveValue, own
<1> QED
  BY <1>1, <1>2, <1>3 DEF Next

\* Who exchanges values with p and is in its cluster sees what p sees.
LEMMA ViewsAgree == IInv /\ OneView => Agree
<1> SUFFICES ASSUME IInv, OneView, NEW p \in PEs, NEW q \in PEs,
                    Settled(p), Settled(q), q \in cluster[p]
             PROVE  cluster[q] = cluster[p] /\ root[q] = root[p] /\ dead[q] = dead[p]
  BY DEF Agree
<1> DEFINE View(x) == [set |-> cluster[x], root |-> root[x], dead |-> dead[x]]
<1>1. ASSUME NEW x \in PEs, Settled(x) PROVE View(x) \in Views(x) /\ cluster[x] \in Claims(x)
  <2>1. ~Gone(x) /\ ~Due(x)
    BY <1>1 DEF Settled, IInv, Waiting, Types, Due
  <2> QED
    BY <1>1, <2>1, ClaimsAre DEF Views
<1>2. cluster[q] = cluster[p]
  <2>1. cluster[p] \in Claims(p) /\ cluster[q] \in Claims(q)
    BY <1>1
  <2>2. q \in cluster[q]
    BY <2>1 DEF IInv, Owned
  <2> QED
    BY <2>1, <2>2 DEF IInv, Apart
<1>3. View(p).set = cluster[p] /\ View(q).set = cluster[q]
  OBVIOUS
<1>4. View(p) = View(q)
  <2> HIDE DEF View
  <2> QED
    BY <1>1, <1>2, <1>3 DEF OneView
<1> QED
  BY <1>2, <1>4

\* Spec => OnlyGrow: whatever groups join, a PE is never uncoupled again.
THEOREM ClustersGrow == Spec => OnlyGrow
<1>1. IInv /\ [Next]_vars => [\A p \in PEs : cluster[p] \subseteq cluster'[p]]_vars
  BY NextOnlyGrows
<1> QED
  BY <1>1, AlwaysIInv, PTL DEF Spec, OnlyGrow

\* Spec => []Agree: PEs that are coupled and stay have the same view.
THEOREM ClustersAgree == Spec => []Agree
BY AlwaysIInv, ViewsAgree, PTL
-----------------------------------------------------------------------------
(* What the invariant says to whoever implements the clusters *)

\* A root that gathers is in its own cluster.
LEMMA RootIsMember == IInv => \A p \in PEs : stage[p] = "gather" => p \in cluster[p]
<1> SUFFICES ASSUME IInv, NEW p \in PEs, stage[p] = "gather" PROVE p \in cluster[p]
  OBVIOUS
<1>1. ~Bound(p)
  BY DEF IInv, Reporting
<1>2. ~Due(p)
  BY <1>1 DEF Due, Bound, IInv, Types
<1>3. cluster[p] \in Claims(p)
  BY <1>2 DEF Claims
<1> QED
  BY <1>3 DEF IInv, Owned

\* While a group joins others, no announcement is on its way to its root.
LEMMA JoiningHearsNothing ==
  IInv => \A p \in PEs \ announcing : group[p] # {} => news[p] = {} /\ dead_news[p] = {}
<1> SUFFICES ASSUME IInv, NEW p \in PEs \ announcing, group[p] # {}
             PROVE  news[p] = {} /\ dead_news[p] = {}
  OBVIOUS
<1>1. p \in group[p] /\ p \in held[p] /\ stage[p] = "wait" /\ told[p] = {}
  BY DEF IInv, Groups
<1>2. news[p] = {}
  BY <1>1 DEF IInv, OneNews
<1>3. \A r \in PEs : p \notin told[r]
  BY <1>1 DEF IInv, Groups, Disjoint
<1> QED
  BY <1>2, <1>3 DEF IInv, Waiting

\* Whoever is still to be told of a cluster has no announcement on its way.
LEMMA HeldHearNothing ==
  IInv => \A r \in announcing : \A q \in held[r] : stage[q] # "left" =>
            news[q] = {} /\ (told[r] = {} => dead_news[q] = {})
<1> SUFFICES ASSUME IInv, NEW r \in announcing, NEW q \in held[r], stage[q] # "left"
             PROVE  news[q] = {} /\ (told[r] = {} => dead_news[q] = {})
  OBVIOUS
<1>1. r \in PEs /\ q \in PEs /\ q \in group[r]
  BY DEF IInv, Types, Groups
<1>2. news[q] = {}
  BY <1>1 DEF IInv, OneNews
<1>3. told[r] = {} => \A s \in PEs : q \notin told[s]
  BY <1>1 DEF IInv, Groups, Disjoint
<1> QED
  BY <1>1, <1>2, <1>3 DEF IInv, Waiting

\* No report of a PE that works is on its way.
LEMMA WorkersHaveNotReported ==
  IInv => \A p, r \in PEs : stage[p] = "work" => \A m \in reports[r] : m.pe # p
BY DEF IInv, Reporting, Reported

\* A value that is still to be sent is not on its way.
LEMMA SentOnce ==
  IInv => \A p \in PEs : \A q \in tosend[p] : stage[q] # "left" => p \notin values[q]
BY DEF IInv, ToSend
=============================================================================
