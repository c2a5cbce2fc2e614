--------------------------- MODULE CouplingProofs ---------------------------
(***************************************************************************)
(* Proofs about Coupling, for any number of PEs and any programs: the      *)
(* state is well typed, the coupling implements Clusters.tla, a PE is      *)
(* never uncoupled again, and PEs that are coupled and stay agree.         *)
(***************************************************************************)
EXTENDS CouplingClusters, WellFoundedInduction, TLAPS

C == INSTANCE ClustersProofs WITH None <- -1
-----------------------------------------------------------------------------
(* The smallest, the greatest and the next of some PEs *)

\* A set of numbers has a smallest one.
LEMMA NatsHaveLeast ==
  ASSUME NEW S \in SUBSET Nat, S # {} PROVE \E x \in S : \A y \in S : x <= y
<1>1. PICK x \in S : \A y \in S : ~(<<y, x>> \in OpToRel(<, Nat))
  BY NatLessThanWellFounded, WFMin, Zenon
<1>2. \A y \in S : ~(y < x)
  BY <1>1, Zenon DEF OpToRel
<1> QED
  BY <1>2

\* There is a PE.
LEMMA NumberOfPEs == NPes \in Nat /\ NPes > 0
<1>1. NPes \in Nat \ {0}
  BY CouplingAssumption, Zenon
<1> QED
  BY <1>1

\* The least of some PEs is one of them ...
LEMMA LeastIsOne == ASSUME NEW S \in SUBSET PEs, S # {} PROVE Least(S) \in S
<1>1. S \in SUBSET Nat
  BY NumberOfPEs DEF PEs
<1>2. \E x \in S : \A y \in S : x <= y
  BY <1>1, NatsHaveLeast
<1> QED
  BY <1>2 DEF Least

\* ... and so is the greatest, whom a root that leaves names as the next root.
LEMMA GreatestIsOne == ASSUME NEW S \in SUBSET PEs, S # {} PROVE Greatest(S) \in S
<1>1. {NPes - x : x \in S} \in SUBSET Nat /\ {NPes - x : x \in S} # {}
  <2>1. \A x \in S : NPes - x \in Nat
    BY NumberOfPEs DEF PEs
  <2> QED
    BY <2>1
<1>2. PICK z \in {NPes - x : x \in S} : \A y \in {NPes - x : x \in S} : z <= y
  BY <1>1, NatsHaveLeast
<1>3. PICK x \in S : z = NPes - x
  BY <1>2
<1>4. \A y \in S : NPes - x <= NPes - y
  BY <1>2, <1>3
<1>5. \A y \in S : x >= y
  BY <1>4, NumberOfPEs DEF PEs
<1>6. \E m \in S : \A y \in S : m >= y
  BY <1>5
<1> QED
  BY <1>6 DEF Greatest

\* The PE a root asks next is one that it wants and does not have.
LEMMA NextTargetIsOne ==
  ASSUME NEW c, Missing(c) \in SUBSET PEorNone, Missing(c) # {}, c.target_pe \in PEorNone
  PROVE  NextTarget(c) \in Missing(c)
<1> DEFINE far(t) == (t - c.target_pe) % NPes
<1>1. \A t \in Missing(c) : far(t) \in Nat
  BY NumberOfPEs DEF PEorNone, PEs
<1>2. {far(t) : t \in Missing(c)} \in SUBSET Nat /\ {far(t) : t \in Missing(c)} # {}
  BY <1>1
<1> HIDE DEF far
<1>3. PICK z \in {far(t) : t \in Missing(c)} : \A y \in {far(t) : t \in Missing(c)} : z <= y
  BY <1>2, NatsHaveLeast
<1>4. \E t \in Missing(c) : \A u \in Missing(c) : far(t) <= far(u)
  BY <1>3
<1> QED
  BY <1>4 DEF NextTarget, far
-----------------------------------------------------------------------------
(* Mailboxes *)

\* The types of a mail system.
Typed(ms) == /\ ms = [b \in Mailboxes |-> ms[b]]
             /\ \A b \in Mailboxes : ms[b] \in [PEs -> Seq(Message(b))]

Reaches(b, q) == IF b = "coupling" THEN Couples(q) ELSE Alive(q)

\* A message is put last into one mailbox, or nowhere.
LEMMA SentIs ==
  ASSUME NEW ms, Typed(ms), NEW b \in Mailboxes, NEW q, NEW m \in Message(b)
  PROVE  /\ Typed(Sent(ms, b, q, m))
         /\ \A x \in Mailboxes, y \in PEs :
              Sent(ms, b, q, m)[x][y] = IF x = b /\ y = q /\ Reaches(b, q)
                                        THEN Append(ms[x][y], m) ELSE ms[x][y]
<1>1. CASE ~Reaches(b, q)
  BY <1>1 DEF Sent, Reaches
<1>2. CASE Reaches(b, q)
  <2>1. q \in PEs
    BY <1>2 DEF Reaches, Couples, Alive
  <2>2. Sent(ms, b, q, m) = [ms EXCEPT ![b] = [ms[b] EXCEPT ![q] = Append(ms[b][q], m)]]
    BY <1>2 DEF Sent, Reaches, Typed
  <2>3. ms[b] \in [PEs -> Seq(Message(b))] /\ Append(ms[b][q], m) \in Seq(Message(b))
    BY <2>1 DEF Typed
  <2>4. [ms[b] EXCEPT ![q] = Append(ms[b][q], m)] \in [PEs -> Seq(Message(b))]
    BY <2>3
  <2> DEFINE box == [ms[b] EXCEPT ![q] = Append(ms[b][q], m)]
  <2>5. \A y \in PEs : box[y] = IF y = q THEN Append(ms[b][y], m) ELSE ms[b][y]
    BY <2>3
  <2> HIDE DEF box
  <2>6. Sent(ms, b, q, m) = [x \in Mailboxes |-> IF x = b THEN box ELSE ms[x]]
    BY <2>2 DEF box, Typed
  <2>7. box \in [PEs -> Seq(Message(b))]
    BY <2>4 DEF box
  <2>8. Typed(Sent(ms, b, q, m))
    BY <2>6, <2>7 DEF Typed
  <2> QED
    BY <1>2, <2>5, <2>6, <2>8
<1> QED
  BY <1>1, <1>2

\* The first message of a mailbox is taken out.
LEMMA ReceivedIs ==
  ASSUME NEW ms, Typed(ms), NEW b \in Mailboxes, NEW p \in PEs, ms[b][p] # <<>>
  PROVE  /\ Typed(Received(ms, b, p)) /\ Head(ms[b][p]) \in Message(b)
         /\ \A x \in Mailboxes, y \in PEs :
              Received(ms, b, p)[x][y] = IF x = b /\ y = p THEN Tail(ms[x][y]) ELSE ms[x][y]
<1>1. ms[b] \in [PEs -> Seq(Message(b))] /\ ms[b][p] \in Seq(Message(b))
  BY DEF Typed
<1>2. Head(ms[b][p]) \in Message(b) /\ Tail(ms[b][p]) \in Seq(Message(b))
  BY <1>1
<1> DEFINE box == [ms[b] EXCEPT ![p] = Tail(ms[b][p])]
<1>3. box \in [PEs -> Seq(Message(b))]
  BY <1>1, <1>2
<1>4. \A y \in PEs : box[y] = IF y = p THEN Tail(ms[b][y]) ELSE ms[b][y]
  BY <1>1
<1>5. Received(ms, b, p) = [ms EXCEPT ![b] = box]
  BY DEF Received, Typed
<1> HIDE DEF box
<1>6. Received(ms, b, p) = [x \in Mailboxes |-> IF x = b THEN box ELSE ms[x]]
  BY <1>5 DEF Typed
<1> QED
  BY <1>2, <1>3, <1>4, <1>6 DEF Typed

\* What a mailbox of each kind holds.
LEMMA MessageIs ==
  /\ Message("coupling") = [type : {"request"}, pe : PEs] \cup
                           [type : {"all_terminated", "coupled"}, pe : PEorNone, set : SUBSET PEs]
  /\ Message("ack_dead") = [type : {"dead"}, pe : PEs] \cup
                           [type : {"ack"}, pe : PEs, root_pe : PEorNone, abort : BOOLEAN]
  /\ Message("to_couple_with") = [pe : PEs, set : SUBSET PEs, terminating : BOOLEAN]
  /\ Message("root_info") = [pe : PEs, coupled : SUBSET PEs, wants : SUBSET PEorNone,
                             terminating : SUBSET PEs]
  /\ Message("value") = PEs
BY Zenon DEF Message
-----------------------------------------------------------------------------
(* What is in a mailbox *)

\* Of each type there is one at most, the dead list first.
InOrder(s) ==
  \A i, j \in DOMAIN s : i < j /\ s[i].type # "request" /\ s[j].type # "request" =>
    s[i].type = "all_terminated" /\ s[j].type = "coupled"

OneEach(s) == \A i, j \in DOMAIN s : s[i].pe = s[j].pe => i = j
NoRepeat(s) == \A i, j \in DOMAIN s : s[i] = s[j] => i = j

\* A message more ...
LEMMA AppendElements ==
  ASSUME NEW X, NEW s \in Seq(X), NEW m \in X
  PROVE  /\ Elements(Append(s, m)) = Elements(s) \cup {m}
         /\ OneEach(s) /\ (\A n \in Elements(s) : n.pe # m.pe) => OneEach(Append(s, m))
         /\ NoRepeat(s) /\ m \notin Elements(s) => NoRepeat(Append(s, m))
<1>1. /\ DOMAIN Append(s, m) = DOMAIN s \cup {Len(s) + 1} /\ Len(s) + 1 \notin DOMAIN s
      /\ \A i \in DOMAIN s : Append(s, m)[i] = s[i]
      /\ Append(s, m)[Len(s) + 1] = m
  OBVIOUS
<1>2. Elements(Append(s, m)) = Elements(s) \cup {m}
  BY <1>1 DEF Elements
<1>3. OneEach(s) /\ (\A n \in Elements(s) : n.pe # m.pe) => OneEach(Append(s, m))
  BY <1>1 DEF OneEach, Elements
<1>4. NoRepeat(s) /\ m \notin Elements(s) => NoRepeat(Append(s, m))
  BY <1>1 DEF NoRepeat, Elements
<1> QED
  BY <1>2, <1>3, <1>4

\* ... and the first message less.
LEMMA TailElements ==
  ASSUME NEW X, NEW s \in Seq(X), s # <<>>
  PROVE  /\ Elements(s) = Elements(Tail(s)) \cup {Head(s)}
         /\ OneEach(s) => OneEach(Tail(s)) /\ \A n \in Elements(Tail(s)) : n.pe # Head(s).pe
         /\ NoRepeat(s) => NoRepeat(Tail(s)) /\ Head(s) \notin Elements(Tail(s))
<1>1. /\ 1 \in DOMAIN s /\ Head(s) = s[1]
      /\ \A i \in DOMAIN Tail(s) : i + 1 \in DOMAIN s /\ i + 1 # 1 /\ Tail(s)[i] = s[i + 1]
      /\ \A i \in DOMAIN s : i # 1 => i - 1 \in DOMAIN Tail(s) /\ Tail(s)[i - 1] = s[i]
      /\ \A i, j \in DOMAIN Tail(s) : i + 1 = j + 1 => i = j
  OBVIOUS
<1>2. Elements(s) = Elements(Tail(s)) \cup {Head(s)}
  <2>1. \A x : x \in Elements(s) => x \in Elements(Tail(s)) \/ x = Head(s)
    BY <1>1 DEF Elements
  <2>2. Head(s) \in Elements(s) /\ \A x : x \in Elements(Tail(s)) => x \in Elements(s)
    BY <1>1 DEF Elements
  <2> QED
    BY <2>1, <2>2
<1>3. OneEach(s) => OneEach(Tail(s)) /\ \A n \in Elements(Tail(s)) : n.pe # Head(s).pe
  BY <1>1 DEF OneEach, Elements
<1>4. NoRepeat(s) => NoRepeat(Tail(s)) /\ Head(s) \notin Elements(Tail(s))
  BY <1>1 DEF NoRepeat, Elements
<1> QED
  BY <1>2, <1>3, <1>4

\* A message appended to a coupling_mailbox is one announcement more of its type,
\* and none if it is a request.
LEMMA AppendNews ==
  ASSUME NEW s \in Seq(Message("coupling")), NEW m \in Message("coupling")
  PROVE  /\ \A t : t # m.type => NewsIn(Append(s, m), t) = NewsIn(s, t)
         /\ NewsIn(Append(s, m), m.type) = NewsIn(s, m.type) \cup {[root |-> m.pe, set |-> m.set]}
         /\ InOrder(s) /\ m.type = "request" => InOrder(Append(s, m))
         /\ InOrder(s) /\ m.type = "coupled" /\ NewsIn(s, "coupled") = {} => InOrder(Append(s, m))
         /\ InOrder(s) /\ m.type = "all_terminated" /\ NewsIn(s, "coupled") = {}
              /\ NewsIn(s, "all_terminated") = {} => InOrder(Append(s, m))
<1>1. Elements(Append(s, m)) = Elements(s) \cup {m}
  BY AppendElements
<1>2. /\ DOMAIN Append(s, m) = DOMAIN s \cup {Len(s) + 1}
      /\ \A i \in DOMAIN s : Append(s, m)[i] = s[i] /\ i < Len(s) + 1
      /\ Append(s, m)[Len(s) + 1] = m
      /\ \A i \in DOMAIN s : ~(Len(s) + 1 < i)
  OBVIOUS
<1>3. ~(Len(s) + 1 < Len(s) + 1)
  OBVIOUS
<1>4. \A n \in Elements(s) : n.type \in {"request", "all_terminated", "coupled"}
  BY MessageIs DEF Elements
<1>5. \A t : NewsIn(s, t) = {} => \A i \in DOMAIN s : s[i].type # t
  BY DEF NewsIn, Elements
<1>6. \A i \in DOMAIN s : s[i].type \in {"request", "all_terminated", "coupled"}
  BY <1>4 DEF Elements
<1>7. \A t : t # m.type => NewsIn(Append(s, m), t) = NewsIn(s, t)
  BY <1>1 DEF NewsIn
<1>8. NewsIn(Append(s, m), m.type) = NewsIn(s, m.type) \cup {[root |-> m.pe, set |-> m.set]}
  BY <1>1 DEF NewsIn
<1>9. InOrder(s) /\ m.type = "request" => InOrder(Append(s, m))
  BY <1>2, <1>3 DEF InOrder
<1>10. InOrder(s) /\ m.type = "coupled" /\ NewsIn(s, "coupled") = {} => InOrder(Append(s, m))
  BY <1>2, <1>3, <1>5, <1>6 DEF InOrder
<1>11. InOrder(s) /\ m.type = "all_terminated" /\ NewsIn(s, "coupled") = {}
         /\ NewsIn(s, "all_terminated") = {} => InOrder(Append(s, m))
  BY <1>2, <1>3, <1>5, <1>6 DEF InOrder
<1> QED
  BY <1>7, <1>8, <1>9, <1>10, <1>11

\* The first message of a coupling_mailbox, once taken, was the only announcement
\* of its type.
LEMMA TailNews ==
  ASSUME NEW s \in Seq(Message("coupling")), s # <<>>, InOrder(s)
  PROVE  /\ InOrder(Tail(s))
         /\ \A t : t # Head(s).type => NewsIn(Tail(s), t) = NewsIn(s, t)
         /\ Head(s).type # "request" => /\ NewsIn(Tail(s), Head(s).type) = {}
                                        /\ NewsIn(s, Head(s).type) =
                                             {[root |-> Head(s).pe, set |-> Head(s).set]}
         /\ Head(s).type = "coupled" => NewsIn(s, "all_terminated") = {}
<1>1. /\ 1 \in DOMAIN s /\ Head(s) = s[1]
      /\ \A i \in DOMAIN Tail(s) : i + 1 \in DOMAIN s /\ 1 < i + 1 /\ Tail(s)[i] = s[i + 1]
      /\ \A i, j \in DOMAIN Tail(s) : i < j => i + 1 < j + 1
  OBVIOUS
<1>2. Elements(s) = Elements(Tail(s)) \cup {Head(s)}
  BY TailElements
<1>3. InOrder(Tail(s))
  BY <1>1 DEF InOrder
<1>4. \A n \in Elements(Tail(s)) : Head(s).type # "request" =>
        n.type = "request" \/ (Head(s).type = "all_terminated" /\ n.type = "coupled")
  BY <1>1 DEF InOrder, Elements
<1>5. \A t : t # Head(s).type => NewsIn(Tail(s), t) = NewsIn(s, t)
  BY <1>2 DEF NewsIn
<1>6. Head(s).type # "request" => NewsIn(Tail(s), Head(s).type) = {}
  BY <1>4 DEF NewsIn
<1>7. Head(s).type # "request" =>
        NewsIn(s, Head(s).type) = {[root |-> Head(s).pe, set |-> Head(s).set]}
  BY <1>2, <1>4 DEF NewsIn
<1>8. Head(s).type = "coupled" => NewsIn(s, "all_terminated") = {}
  BY <1>2, <1>4 DEF NewsIn
<1> QED
  BY <1>3, <1>5, <1>6, <1>7, <1>8

\* One mail system differs from another in nothing but requests and acks.
Talk(ms, ns) ==
  /\ Typed(ns)
  /\ \A q \in PEs : /\ InOrder(ms["coupling"][q]) => InOrder(ns["coupling"][q])
                    /\ \A t \in {"all_terminated", "coupled"} :
                         NewsIn(ns["coupling"][q], t) = NewsIn(ms["coupling"][q], t)
                    /\ \A b \in {"to_couple_with", "root_info", "value"} : ns[b][q] = ms[b][q]

\* Sending a request is talk.
LEMMA TalkRequest ==
  ASSUME NEW ms, Typed(ms), NEW p \in PEs, NEW q PROVE Talk(ms, Sent(ms, "coupling", q, Request(p)))
<1> DEFINE ns == Sent(ms, "coupling", q, Request(p))
<1>1. Request(p) \in Message("coupling") /\ Request(p).type = "request"
  BY MessageIs DEF Request
<1>2. /\ Typed(ns)
      /\ \A x \in Mailboxes, y \in PEs :
           ns[x][y] = IF x = "coupling" /\ y = q /\ Reaches("coupling", q)
                      THEN Append(ms[x][y], Request(p)) ELSE ms[x][y]
  BY <1>1, SentIs DEF Mailboxes
<1> HIDE DEF ns
<1>3. ASSUME NEW y \in PEs
      PROVE  /\ InOrder(ms["coupling"][y]) => InOrder(ns["coupling"][y])
             /\ \A t \in {"all_terminated", "coupled"} :
                  NewsIn(ns["coupling"][y], t) = NewsIn(ms["coupling"][y], t)
  <2>1. ms["coupling"][y] \in Seq(Message("coupling"))
    BY DEF Typed, Mailboxes
  <2>2. CASE ns["coupling"][y] = ms["coupling"][y]
    BY <2>2
  <2>3. CASE ns["coupling"][y] = Append(ms["coupling"][y], Request(p))
    BY <1>1, <2>1, <2>3, AppendNews
  <2> QED
    BY <1>2, <2>2, <2>3 DEF Mailboxes
<1>4. \A y \in PEs : \A b \in {"to_couple_with", "root_info", "value"} : ns[b][y] = ms[b][y]
  BY <1>2 DEF Mailboxes
<1> QED
  BY <1>2, <1>3, <1>4 DEF Talk, ns

\* So is taking a request,
LEMMA TalkTaken ==
  ASSUME NEW ms, Typed(ms), NEW p \in PEs, ms["coupling"][p] # <<>>,
         InOrder(ms["coupling"][p]), Head(ms["coupling"][p]).type = "request"
  PROVE  Talk(ms, Received(ms, "coupling", p))
<1> DEFINE ns == Received(ms, "coupling", p)
<1>2. /\ Typed(ns)
      /\ \A x \in Mailboxes, y \in PEs :
           ns[x][y] = IF x = "coupling" /\ y = p THEN Tail(ms[x][y]) ELSE ms[x][y]
  BY ReceivedIs DEF Mailboxes
<1> HIDE DEF ns
<1>3. ASSUME NEW y \in PEs
      PROVE  /\ InOrder(ms["coupling"][y]) => InOrder(ns["coupling"][y])
             /\ \A t \in {"all_terminated", "coupled"} :
                  NewsIn(ns["coupling"][y], t) = NewsIn(ms["coupling"][y], t)
  <2>1. ms["coupling"][y] \in Seq(Message("coupling"))
    BY DEF Typed, Mailboxes
  <2>2. CASE y # p
    BY <1>2, <2>2 DEF Mailboxes
  <2>3. CASE y = p
    <3>1. ns["coupling"][p] = Tail(ms["coupling"][p])
      BY <1>2 DEF Mailboxes
    <3> QED
      BY <2>1, <2>3, <3>1, TailNews
  <2> QED
    BY <2>2, <2>3
<1>4. \A y \in PEs : \A b \in {"to_couple_with", "root_info", "value"} : ns[b][y] = ms[b][y]
  BY <1>2 DEF Mailboxes
<1> QED
  BY <1>2, <1>3, <1>4 DEF Talk, ns

\* sending an ack or a dead message,
LEMMA TalkAck ==
  ASSUME NEW ms, Typed(ms), NEW q, NEW m \in Message("ack_dead")
  PROVE  Talk(ms, Sent(ms, "ack_dead", q, m))
BY SentIs DEF Talk, Mailboxes

\* taking one,
LEMMA TalkAckTaken ==
  ASSUME NEW ms, Typed(ms), NEW p \in PEs, ms["ack_dead"][p] # <<>>
  PROVE  Talk(ms, Received(ms, "ack_dead", p)) /\ Head(ms["ack_dead"][p]) \in Message("ack_dead")
BY ReceivedIs DEF Talk, Mailboxes

\* and more than one of these.
LEMMA TalkOn ==
  ASSUME NEW ms, NEW ns, NEW os, Talk(ms, ns), Talk(ns, os) PROVE Talk(ms, os)
BY DEF Talk
-----------------------------------------------------------------------------
(* The invariant *)

\* The sets a PE counts on are those of its stage.
Stages ==
  \A p \in PEs :
    /\ At(p, Loop \cup Sharing) => p \in ctx[p].coupled_pes
    /\ At(p, Sharing \cup {"exiting"}) => ctx[p].todo # {}
    /\ At(p, {"values", "poll"}) => ctx[p].coupled_pes = ctx[p].prev_coupled_pes
    /\ At(p, {"exiting", "exited"}) => ctx[p].terminating

\* A root that lost its role waits, and its sets are on their way once.
LosersWait ==
  /\ \A x \in PEs : OneEach(mail["root_info"][x])
  /\ \A x \in PEs : \A m \in InBox("root_info", x) : At(m.pe, {"info"}) /\ m.pe \in m.coupled
  /\ \A x, y \in PEs : \A m \in InBox("root_info", x), n \in InBox("root_info", y) :
       m.pe = n.pe => x = y

\* No announcement, no wish and no value comes twice, or in the wrong order.
Boxes ==
  \A q \in PEs : /\ InOrder(mail["coupling"][q])
                 /\ OneEach(mail["to_couple_with"][q])
                 /\ ~Last(q) => NoRepeat(mail["value"][q])

CInv == TypeOK /\ Stages /\ LosersWait /\ Boxes

\* p's context becomes new, and no other changes.
Moves(p, new) ==
  /\ new \in Context /\ ctx' \in [PEs -> Context] /\ ctx'[p] = new
  /\ \A q \in PEs : q # p => ctx'[q] = ctx[q]

\* Set(p, new) is a move of p.
LEMMA SetMoves ==
  ASSUME TypeOK, NEW p \in PEs, NEW new \in Context, Set(p, new) PROVE Moves(p, new)
BY DEF TypeOK, Set, Moves

\* The messages are typed if the state is, before a step ...
LEMMA MailIsTyped == TypeOK => Typed(mail)
BY DEF TypeOK, Typed

\* ... and the state is if the messages and contexts are, after it.
LEMMA TypedAgain == Typed(mail)' /\ ctx' \in [PEs -> Context] => TypeOK'
BY DEF TypeOK, Typed
-----------------------------------------------------------------------------
(* What the state means for the clusters *)

\* The infos of a PE that waits are one at most, and others have none.
LEMMA OneInfo ==
  ASSUME CInv, NEW r \in PEs
  PROVE  /\ \A m, n \in Infos(r) : m = n
         /\ ~At(r, {"info"}) => Infos(r) = {}
         /\ \A m \in Infos(r) : m \in Message("root_info") /\ r \in m.coupled
<1>1. \A m \in Infos(r) : \E x \in PEs : m \in InBox("root_info", x) /\ m.pe = r
  BY DEF Infos
<1>2. ASSUME NEW m \in Infos(r), NEW n \in Infos(r) PROVE m = n
  <2>1. PICK x \in PEs : m \in InBox("root_info", x) /\ m.pe = r
    BY <1>1
  <2>2. PICK y \in PEs : n \in InBox("root_info", y) /\ n.pe = r
    BY <1>1
  <2>3. x = y
    BY <2>1, <2>2 DEF CInv, LosersWait
  <2> QED
    BY <2>1, <2>2, <2>3 DEF CInv, LosersWait, OneEach, InBox, Elements
<1>3. ~At(r, {"info"}) => Infos(r) = {}
  BY <1>1 DEF CInv, LosersWait
<1>4. \A m \in Infos(r) : r \in m.coupled
  BY <1>1 DEF CInv, LosersWait
<1>5. ASSUME NEW m \in Infos(r) PROVE m \in Message("root_info")
  <2>1. PICK x \in PEs : m \in InBox("root_info", x)
    BY <1>1
  <2>2. mail["root_info"][x] \in Seq(Message("root_info"))
    BY DEF CInv, TypeOK, Mailboxes
  <2> QED
    BY <2>1, <2>2 DEF InBox, Elements
<1> QED
  BY <1>2, <1>3, <1>4, <1>5

\* The same context means the same.
SameSelf(q) ==
  /\ stage'[q] = stage[q] /\ cluster'[q] = cluster[q] /\ root'[q] = root[q]
  /\ dead'[q] = dead[q] /\ old_dead'[q] = old_dead[q] /\ received'[q] = received[q]
  /\ tosend'[q] = tosend[q] /\ told'[q] = told[q] /\ chosen'[q] = chosen[q]
  /\ (q \in leaving' <=> q \in leaving) /\ (q \in announcing' <=> q \in announcing)

SameGroup(q) == group'[q] = group[q] /\ held'[q] = held[q] /\ leavers'[q] = leavers[q]

\* A PE whose context did not change is the same to the clusters.
LEMMA Elsewhere ==
  ASSUME NEW q \in PEs, ctx'[q] = ctx[q]
  PROVE  /\ SameSelf(q)
         /\ Infos(q)' = Infos(q) => SameGroup(q)
         /\ mail'["value"][q] = mail["value"][q] => values'[q] = values[q]
<1>1. (Last(q)' <=> Last(q)) /\ Stage(q)' = Stage(q)
  BY DEF Last, Stage, At
<1>2. new_root(q)' = new_root(q)
  BY DEF new_root, NewDead
<1>3. SameSelf(q)
  BY <1>1, <1>2 DEF SameSelf, stage, cluster, root, dead, old_dead, received, tosend, told,
     chosen, leaving, announcing, At
<1>4. ASSUME Infos(q)' = Infos(q) PROVE SameGroup(q)
  <2>1. Group(q)' = Group(q) /\ Leavers(q)' = Leavers(q)
    BY <1>4 DEF Group, Leavers, At
  <2> QED
    BY <2>1 DEF SameGroup, group, held, leavers, At
<1>5. mail'["value"][q] = mail["value"][q] => values'[q] = values[q]
  BY <1>1 DEF values, InBox
<1> QED
  BY <1>3, <1>4, <1>5

\* Nothing that the clusters know of has changed.
Unchanged(q) ==
  /\ SameSelf(q) /\ SameGroup(q)
  /\ reports'[q] = reports[q] /\ dead_news'[q] = dead_news[q]
  /\ news'[q] = news[q] /\ values'[q] = values[q]

\* A step that changes nothing of any PE is a stutter of the clusters.
LEMMA Stutters == ASSUME \A q \in PEs : Unchanged(q) PROVE UNCHANGED C!vars
<1>1. /\ stage' = stage /\ cluster' = cluster /\ root' = root /\ dead' = dead
      /\ old_dead' = old_dead /\ received' = received /\ tosend' = tosend
      /\ told' = told /\ chosen' = chosen
  <2>1. stage' = stage /\ cluster' = cluster /\ root' = root
    BY DEF Unchanged, SameSelf, stage, cluster, root
  <2>2. dead' = dead /\ old_dead' = old_dead /\ received' = received
    BY DEF Unchanged, SameSelf, dead, old_dead, received
  <2>3. tosend' = tosend /\ told' = told /\ chosen' = chosen
    BY DEF Unchanged, SameSelf, tosend, told, chosen
  <2> QED
    BY <2>1, <2>2, <2>3
<1>2. leaving' = leaving /\ announcing' = announcing
  BY DEF Unchanged, SameSelf, leaving, announcing
<1>3. group' = group /\ held' = held /\ leavers' = leavers
  BY DEF Unchanged, SameGroup, group, held, leavers
<1>4. reports' = reports /\ dead_news' = dead_news /\ news' = news /\ values' = values
  BY DEF Unchanged, reports, dead_news, news, values
<1> QED
  BY <1>1, <1>2, <1>3, <1>4 DEF C!vars, C!own, C!joining, C!sent

\* Requests and acks mean nothing to the clusters.
LEMMA TalkMeansNothing ==
  ASSUME Talk(mail, mail')
  PROVE  \A q \in PEs : /\ Infos(q)' = Infos(q) /\ reports'[q] = reports[q]
                        /\ dead_news'[q] = dead_news[q] /\ news'[q] = news[q]
                        /\ \A b \in {"to_couple_with", "root_info", "value"} :
                             mail'[b][q] = mail[b][q]
BY DEF Talk, Infos, InBox, reports, dead_news, news, Announced
-----------------------------------------------------------------------------
(* What a step of one PE keeps *)

\* What Stages says of one context.
OwnStage(p, c) ==
  /\ c.pc \in Loop \cup Sharing => p \in c.coupled_pes
  /\ c.pc \in Sharing \cup {"exiting"} => c.todo # {}
  /\ c.pc \in {"values", "poll"} => c.coupled_pes = c.prev_coupled_pes
  /\ c.pc \in {"exiting", "exited"} => c.terminating

\* Stages is kept by a step whose new context has the sets of its stage.
LEMMA StagesKept ==
  ASSUME Stages, NEW p \in PEs, NEW new, Moves(p, new), OwnStage(p, new) PROVE Stages'
BY DEF Stages, OwnStage, Moves, At

\* Contexts but p's are as before, and so is what they mean.
LEMMA OthersSame ==
  ASSUME NEW p \in PEs, NEW new, Moves(p, new)
  PROVE  \A q \in PEs : q # p => ctx'[q] = ctx[q] /\ SameSelf(q) /\ (Last(q)' <=> Last(q))
BY Elsewhere DEF Moves, Last, At

\* As long as no sets are sent, only a root that waits for a new one matters.
LEMMA LosersKept ==
  ASSUME CInv, NEW p \in PEs, NEW new, Moves(p, new),
         \A x \in PEs : mail'["root_info"][x] = mail["root_info"][x],
         new.pc = "info" \/ Infos(p) = {}
  PROVE  LosersWait' /\ \A q \in PEs : Infos(q)' = Infos(q)
<1>1. \A q \in PEs : Infos(q)' = Infos(q) /\ InBox("root_info", q)' = InBox("root_info", q)
  BY DEF Infos, InBox
<1>2. ASSUME NEW x \in PEs, NEW m \in InBox("root_info", x)
      PROVE  At(m.pe, {"info"})' /\ m.pe \in m.coupled
  <2>1. At(m.pe, {"info"}) /\ m.pe \in m.coupled
    BY DEF CInv, LosersWait
  <2>2. m.pe \in PEs
    <3>1. mail["root_info"][x] \in Seq(Message("root_info"))
      BY DEF CInv, TypeOK, Mailboxes
    <3>2. m \in Message("root_info")
      BY <3>1 DEF InBox, Elements
    <3>3. m \in [pe : PEs, coupled : SUBSET PEs, wants : SUBSET PEorNone,
                terminating : SUBSET PEs]
      BY <3>2, MessageIs, Zenon
    <3> QED
      BY <3>3
  <2>3. m.pe = p => new.pc = "info"
    <3>1. m.pe = p => m \in Infos(p)
      BY DEF Infos
    <3> QED
      BY <3>1
  <2> QED
    BY <2>1, <2>2, <2>3 DEF Moves, At
<1> QED
  BY <1>1, <1>2 DEF CInv, LosersWait

\* A PE that is not in the stage to have lost its role has no sets on their way.
LEMMA NoInfos == ASSUME CInv, NEW p \in PEs, ~At(p, {"info"}) PROVE Infos(p) = {}
BY OneInfo

\* The cluster's group of a root in its loop, and of anyone else.
LEMMA GroupIs ==
  \A r \in PEs :
    /\ At(r, Loop) => group[r] = ctx[r].coupled_pes /\ held[r] = ctx[r].coupled_pes
                      /\ leavers[r] = ctx[r].terminating_pes
    /\ At(r, Sharing) => group[r] = ctx[r].coupled_pes /\ held[r] = ctx[r].todo
                         /\ leavers[r] = ctx[r].terminating_pes
    /\ ~At(r, Loop \cup Sharing) => group[r] = UNION {m.coupled : m \in Infos(r)} /\ held[r] = group[r]
    /\ At(r, {"gather"}) => leavers[r] = ctx[r].terminating_pes
    /\ ~At(r, Loop \cup Sharing \cup {"gather"}) =>
          leavers[r] = UNION {m.terminating : m \in Infos(r)}
BY DEF group, held, leavers, Group, Leavers, At, Loop, Sharing

\* What the clusters know of a context, whatever its stage.
SameIn(c, new) ==
  /\ new.coupled_pes = c.coupled_pes /\ new.prev_coupled_pes = c.prev_coupled_pes
  /\ new.coupled_pes_root = c.coupled_pes_root /\ new.received_from = c.received_from
  /\ new.terminating_pes = c.terminating_pes /\ new.cluster_dead = c.cluster_dead
  /\ new.prev_dead = c.prev_dead /\ new.terminating = c.terminating

\* Boxes is kept by talk.
LEMMA BoxesTalk ==
  ASSUME CInv, NEW p \in PEs, NEW new, Moves(p, new), Talk(mail, mail'), Last(p) => Last(p)'
  PROVE  Boxes'
<1>1. \A q \in PEs : Last(q) => Last(q)'
  BY OthersSame
<1> QED
  BY <1>1 DEF CInv, Boxes, Talk

\* A root in its loop that only talks to other roots does nothing to clusters.
LEMMA LoopQuiet ==
  ASSUME CInv, NEW p \in PEs, NEW new, Moves(p, new), At(p, Loop), new.pc \in Loop,
         SameIn(ctx[p], new), Talk(mail, mail')
  PROVE  CInv' /\ UNCHANGED C!vars
<1>1. ctx'[p] = new /\ At(p, Loop)' /\ ctx[p].pc \in Loop
  BY DEF Moves, At
<1>2. ~At(p, {"info"}) /\ Infos(p) = {}
  BY NoInfos, <1>1 DEF At, Loop
<1>3. OwnStage(p, new)
  BY <1>1 DEF OwnStage, CInv, Stages, At, Loop, Sharing, SameIn
<1>4. LosersWait' /\ \A q \in PEs : Infos(q)' = Infos(q)
  BY <1>2, TalkMeansNothing, LosersKept
<1>5. ~Last(p) /\ ~Last(p)'
  BY <1>1 DEF Last, At, Loop
<1>6. CInv'
  <2>1. TypeOK'
    BY TypedAgain DEF Talk, Moves, Typed
  <2>2. Boxes'
    BY <1>5, BoxesTalk
  <2> QED
    BY <1>3, <1>4, <2>1, <2>2, StagesKept DEF CInv
<1>7. Unchanged(p)
  <2>1. Stage(p)' = Stage(p)
    BY <1>1, <1>5 DEF Stage, Loop, At
  <2>2. SameSelf(p)
    BY <1>1, <1>5, <2>1 DEF SameSelf, SameIn, Loop, Sharing, stage, cluster, root, dead, old_dead,
       received, tosend, told, chosen, leaving, announcing, At
  <2>3. SameGroup(p)
    BY <1>1, GroupIs DEF SameGroup, group, held, leavers, Group, Leavers, At, Loop, Sharing, SameIn
  <2>4. values'[p] = values[p]
    BY <1>5, TalkMeansNothing DEF values, InBox
  <2> QED
    BY <2>2, <2>3, <2>4, TalkMeansNothing DEF Unchanged
<1>8. \A q \in PEs : q # p => Unchanged(q)
  BY <1>4, OthersSame, Elsewhere, TalkMeansNothing DEF Unchanged
<1> QED
  BY <1>6, <1>7, <1>8, Stutters

\* Nor does a PE that has its last cluster, when it leaves.
LEMMA LastQuiet ==
  ASSUME CInv, NEW p \in PEs, NEW new, Moves(p, new), Last(p),
         new.pc \in {"values", "poll", "exiting", "exited"}, new.terminating,
         OwnStage(p, new),
         new.prev_coupled_pes = ctx[p].prev_coupled_pes, new.cluster_dead = ctx[p].cluster_dead,
         new.coupled_pes_root = ctx[p].coupled_pes_root, new.prev_dead = ctx[p].prev_dead,
         tosend'[p] = tosend[p], Typed(mail'),
         \A b \in {"coupling", "to_couple_with", "root_info"} : \A q \in PEs : mail'[b][q] = mail[b][q],
         \A q \in PEs : q # p => mail'["value"][q] = mail["value"][q]
  PROVE  CInv' /\ UNCHANGED C!vars
<1>1. ctx'[p] = new /\ ~At(p, {"info"}) /\ ctx[p].terminating
      /\ ctx[p].pc \in {"values", "poll", "exiting", "exited"} /\ Last(p)'
  BY DEF Moves, At, Last
<1>2. Infos(p) = {}
  BY NoInfos, <1>1
<1>3. LosersWait' /\ \A q \in PEs : Infos(q)' = Infos(q)
  BY <1>2, LosersKept
<1>4. CInv'
  <2>1. TypeOK'
    BY TypedAgain DEF Moves, Typed
  <2>2. Boxes'
    BY <1>1, OthersSame DEF CInv, Boxes
  <2> QED
    BY <1>3, <2>1, <2>2, StagesKept DEF CInv
<1>5. \A q \in PEs : reports'[q] = reports[q] /\ dead_news'[q] = dead_news[q] /\ news'[q] = news[q]
  BY DEF reports, dead_news, news, Announced, InBox
<1>6. Unchanged(p)
  <2>1. Stage(p)' = Stage(p)
    BY <1>1 DEF Stage
  <2>2. SameSelf(p)
    BY <1>1, <2>1 DEF SameSelf, Sharing, stage, cluster, root, dead, old_dead,
       received, told, chosen, leaving, announcing, At
  <2>3. ~At(p, Loop \cup Sharing \cup {"gather"}) /\ ~At(p, Loop \cup Sharing \cup {"gather"})'
    BY <1>1 DEF At, Loop, Sharing
  <2>4. SameGroup(p)
    BY <1>3, <2>3 DEF SameGroup, group, held, leavers, Group, Leavers, At
  <2> QED
    BY <1>1, <1>5, <2>2, <2>4 DEF Unchanged, values
<1>7. \A q \in PEs : q # p => Unchanged(q)
  BY <1>3, <1>5, OthersSame, Elsewhere DEF Unchanged
<1> QED
  BY <1>4, <1>6, <1>7, Stutters
-----------------------------------------------------------------------------
(* The first state *)

\* In the first state everybody works alone, and no message is on its way.
LEMMA InitImplements == Init => CInv /\ C!Init
<1> SUFFICES ASSUME Init PROVE CInv /\ C!Init
  OBVIOUS
<1>1. PICK program \in Programs : ctx = [p \in PEs |-> Fresh(p, program[p])]
  BY DEF Init
<1>2. \A p \in PEs : program[p] \in [wants : SUBSET PEs, terminates : {"never", "any time", "complete"}]
  BY CouplingAssumption, Zenon
<1>3. \A p \in PEs : ctx[p] = Fresh(p, program[p])
  BY <1>1
<1>14. ASSUME NEW p \in PEs
       PROVE  /\ ctx[p].pc = "work" /\ ctx[p].prev_coupled_pes = {p}
              /\ ctx[p].coupled_pes_root = p /\ ctx[p].cluster_dead = {}
              /\ ctx[p].prev_dead = {} /\ ctx[p].received_from = {}
              /\ ctx[p].terminating = FALSE
  <2>1. ctx[p] = Fresh(p, program[p])
    BY <1>3
  <2> QED
    BY <2>1 DEF Fresh
<1>4. ASSUME NEW b \in Mailboxes, NEW p \in PEs PROVE mail[b][p] = <<>>
  BY DEF Init
<1>5. 0 \in PEs
  BY NumberOfPEs DEF PEs
<1>6. TypeOK
  <2>1. ctx \in [PEs -> Context]
    <3>1. \A p \in PEs : Fresh(p, program[p]) \in Context
      BY <1>2, <1>5 DEF Fresh, Context, PC, PEorNone
    <3> QED
      BY <1>1, <3>1
  <2>2. mail = [b \in Mailboxes |-> mail[b]]
    BY DEF Init
  <2>3. \A b \in Mailboxes : mail[b] \in [PEs -> Seq(Message(b))]
    <3>1. \A X : <<>> \in Seq(X)
      OBVIOUS
    <3> QED
      BY <3>1 DEF Init
  <2> QED
    BY <2>1, <2>2, <2>3 DEF TypeOK
<1>7. Stages
  BY <1>14 DEF Stages, At, Loop, Sharing
<1>8. \A b \in Mailboxes, p \in PEs : InBox(b, p) = {}
  BY <1>4 DEF InBox, Elements
<1>9. LosersWait /\ \A p \in PEs : Infos(p) = {}
  <2>1. \A p \in PEs : OneEach(mail["root_info"][p]) /\ InBox("root_info", p) = {}
    BY <1>4, <1>8 DEF OneEach, Mailboxes
  <2>2. \A p \in PEs : Infos(p) = {}
    BY <2>1 DEF Infos
  <2> QED
    BY <2>1, <2>2 DEF LosersWait
<1>10. Boxes
  BY <1>4 DEF Boxes, InOrder, OneEach, NoRepeat, Mailboxes
<1>11. \A p \in PEs : \A t : Announced(p, t) = {}
  BY <1>8 DEF Announced, NewsIn, InBox, Mailboxes
<1>12. ASSUME NEW p \in PEs PROVE ~Last(p) /\ Stage(p) = "work"
  <2>1. ~Last(p) /\ At(p, {"work", "gather", "values"})
    BY <1>14 DEF Last, At
  <2>2. ~At(p, {"poll"})
    BY <1>14 DEF At
  <2>3. Stage(p) = ctx[p].pc
    BY <2>1, <2>2 DEF Stage
  <2> QED
    BY <1>14, <2>1, <2>3
<1>13. C!Init
  <2>1. /\ stage = C!Each("work") /\ leaving = {}
        /\ cluster = [p \in PEs |-> {p}] /\ root = [p \in PEs |-> p]
        /\ dead = C!Each({}) /\ old_dead = C!Each({})
        /\ received = C!Each({}) /\ tosend = C!Each({})
    BY <1>14, <1>12 DEF stage, leaving, cluster, root, dead, old_dead, received, tosend, C!Each, At
  <2>2. /\ reports = C!Each({}) /\ dead_news = C!Each({}) /\ news = C!Each({})
        /\ values = C!Each({})
    BY <1>8, <1>11, <1>12 DEF reports, dead_news, news, values, C!Each, Mailboxes
  <2>3. /\ group = C!Each({}) /\ leavers = C!Each({}) /\ announcing = {}
        /\ held = C!Each({}) /\ told = C!Each({}) /\ chosen = C!Each(-1)
    <3>1. \A p \in PEs : ~At(p, Loop \cup Sharing \cup {"gather"}) /\ ~At(p, Loop \cup Sharing)
                          /\ ~At(p, Sharing) /\ ~At(p, {"share_coupled"})
      BY <1>14 DEF At, Loop, Sharing
    <3>2. \A p \in PEs : Group(p) = {} /\ Leavers(p) = {}
      BY <1>9, <3>1 DEF Group, Leavers
    <3> QED
      BY <3>1, <3>2 DEF group, leavers, announcing, held, told, chosen, C!Each
  <2> QED
    BY <2>1, <2>2, <2>3 DEF C!Init
<1> QED
  BY <1>6, <1>7, <1>9, <1>10, <1>13 DEF CInv
-----------------------------------------------------------------------------
(* Roots that talk *)

\* All that a root in its loop finds in its coupling_mailbox are requests.
LEMMA LoopHearsRequests ==
  ASSUME CInv, C!IInv, NEW p \in PEs, At(p, Loop), Waiting("coupling", p)
  PROVE  /\ First("coupling", p).type = "request" /\ First("coupling", p).pe \in PEs
         /\ Talk(mail, Received(mail, "coupling", p))
<1>1. group[p] # {} /\ p \in PEs \ announcing
  BY GroupIs DEF CInv, Stages, announcing, At, Loop, Sharing
<1>2. news[p] = {} /\ dead_news[p] = {}
  BY <1>1, C!JoiningHearsNothing DEF C!JoiningHearsNothing
<1>3. mail["coupling"][p] \in Seq(Message("coupling")) /\ mail["coupling"][p] # <<>>
  BY DEF CInv, TypeOK, Mailboxes, Waiting
<1>4. First("coupling", p) \in Elements(mail["coupling"][p])
  BY <1>3, TailElements DEF First
<1>5. First("coupling", p).type \notin {"all_terminated", "coupled"}
  BY <1>2, <1>4 DEF news, dead_news, Announced, NewsIn
<1>6. First("coupling", p) \in Message("coupling")
  BY <1>3 DEF First
<1>7. First("coupling", p).type = "request" /\ First("coupling", p).pe \in PEs
  BY <1>5, <1>6, MessageIs
<1> QED
  BY <1>3, <1>7, TalkTaken, MailIsTyped DEF CInv, Boxes, First

\* Find sends a request.
LEMMA FindImplements ==
  ASSUME CInv, C!IInv, NEW p \in PEs, Find(p) PROVE CInv' /\ UNCHANGED C!vars
<1> DEFINE t == NextTarget(ctx[p])
           new == [ctx[p] EXCEPT !.pc = "refuse", !.target_pe = t, !.peer = t]
<1>1. ctx[p] \in Context
  BY DEF CInv, TypeOK
<1>2. t \in PEorNone
  BY <1>1, NextTargetIsOne DEF Find, Missing, Context, PEorNone
<1> HIDE DEF t
<1>3. new \in Context /\ new.pc = "refuse" /\ SameIn(ctx[p], new)
  BY <1>1, <1>2 DEF Context, PC, SameIn
<1>4. Set(p, new) /\ mail' = Sent(mail, "coupling", t, Request(p)) /\ At(p, Loop)
  BY DEF Find, Send, t, At, Loop
<1> HIDE DEF new
<1>5. Talk(mail, mail')
  BY <1>4, TalkRequest, MailIsTyped DEF CInv
<1>6. Moves(p, new)
  BY <1>3, <1>4, SetMoves DEF CInv
<1> QED
  BY <1>3, <1>4, <1>5, <1>6, LoopQuiet DEF Loop

\* FindNone ends the search for this round.
LEMMA FindNoneImplements ==
  ASSUME CInv, C!IInv, NEW p \in PEs, FindNone(p) PROVE CInv' /\ UNCHANGED C!vars
<1> DEFINE new == [ctx[p] EXCEPT !.pc = "check"]
<1>1. ctx[p] \in Context
  BY DEF CInv, TypeOK
<1>2. new \in Context /\ new.pc = "check" /\ SameIn(ctx[p], new)
  BY <1>1 DEF Context, PC, SameIn
<1>3. Set(p, new) /\ mail' = mail /\ At(p, Loop)
  BY DEF FindNone, At, Loop
<1> HIDE DEF new
<1>4. Talk(mail, mail')
  BY <1>3, MailIsTyped DEF CInv, Talk
<1>5. Moves(p, new)
  BY <1>2, <1>3, SetMoves DEF CInv
<1> QED
  BY <1>2, <1>3, <1>4, <1>5, LoopQuiet DEF Loop

\* An ack is a message for an ack_dead mailbox.
LEMMA AckIsMessage ==
  ASSUME TypeOK, NEW p \in PEs, NEW q \in PEs, NEW ab \in BOOLEAN
  PROVE  Ack(p, ctx[q].coupled_pes_root, ab) \in Message("ack_dead")
<1>1. ctx[q] \in Context
  BY DEF TypeOK
<1>2. ctx[q].coupled_pes_root \in PEorNone
  BY <1>1 DEF Context
<1>3. Ack(p, ctx[q].coupled_pes_root, ab) \in
        [type : {"ack"}, pe : PEs, root_pe : PEorNone, abort : BOOLEAN]
  BY <1>2 DEF Ack
<1> QED
  BY <1>3, MessageIs, Zenon

\* Refuse answers a request, or finds none.
LEMMA RefuseImplements ==
  ASSUME CInv, C!IInv, NEW p \in PEs, Refuse(p) PROVE CInv' /\ UNCHANGED C!vars
<1> DEFINE new == [ctx[p] EXCEPT !.pc = "listen"]
<1>1. ctx[p] \in Context
  BY DEF CInv, TypeOK
<1>2. new \in Context /\ new.pc = "listen" /\ SameIn(ctx[p], new)
  BY <1>1 DEF Context, PC, SameIn
<1>3. Set(p, new) /\ At(p, Loop)
  BY DEF Refuse, At, Loop
<1> HIDE DEF new
<1>4. Talk(mail, mail')
  <2>1. CASE ~Waiting("coupling", p)
    BY <2>1, MailIsTyped DEF Refuse, CInv, Talk
  <2>2. CASE Waiting("coupling", p)
    <3>1. Talk(mail, Received(mail, "coupling", p))
      BY <1>3, <2>2, LoopHearsRequests
    <3>2. Talk(Received(mail, "coupling", p),
               Sent(Received(mail, "coupling", p), "ack_dead", First("coupling", p).pe,
                    Ack(p, ctx[p].coupled_pes_root, TRUE)))
      <4>1. Ack(p, ctx[p].coupled_pes_root, TRUE) \in Message("ack_dead")
        BY AckIsMessage DEF CInv
      <4>2. Typed(Received(mail, "coupling", p))
        BY <3>1 DEF Talk
      <4> QED
        BY <4>1, <4>2, TalkAck
    <3> QED
      BY <2>2, <3>1, <3>2, TalkOn DEF Refuse, Answer
  <2> QED
    BY <2>1, <2>2
<1>5. Moves(p, new)
  BY <1>2, <1>3, SetMoves DEF CInv
<1> QED
  BY <1>2, <1>3, <1>4, <1>5, LoopQuiet DEF Loop

\* A round without an ack.
LEMMA NoAckIsQuiet ==
  ASSUME NEW c \in Context PROVE NoAck(c) \in Context /\ NoAck(c).pc \in Loop /\ SameIn(c, NoAck(c))
<1>1. CASE c.peer \in c.all_dead
  <2> DEFINE wish == c.to_couple_with \ {c.target_pe}
  <2>1. NoAck(c) = [c EXCEPT !.pc = "check", !.to_couple_with = wish]
    BY <1>1 DEF NoAck
  <2>2. wish \in SUBSET PEorNone
    BY DEF Context
  <2> HIDE DEF wish
  <2> QED
    BY <2>1, <2>2, ZenonT(60) DEF Context, PC, Loop, SameIn
<1>2. CASE c.peer \notin c.all_dead
  <2>1. NoAck(c) = [c EXCEPT !.pc = "refuse"]
    BY <1>2 DEF NoAck
  <2> QED
    BY <2>1 DEF Context, PC, Loop, SameIn
<1> QED
  BY <1>1, <1>2

\* ListenNothing finds no ack.
LEMMA ListenNothingImplements ==
  ASSUME CInv, C!IInv, NEW p \in PEs, ListenNothing(p) PROVE CInv' /\ UNCHANGED C!vars
<1>1. ctx[p] \in Context
  BY DEF CInv, TypeOK
<1>2. Set(p, NoAck(ctx[p])) /\ mail' = mail /\ At(p, Loop)
  BY DEF ListenNothing, At, Loop
<1>3. Talk(mail, mail')
  BY <1>2, MailIsTyped DEF CInv, Talk
<1>4. Moves(p, NoAck(ctx[p]))
  BY <1>1, <1>2, NoAckIsQuiet, SetMoves DEF CInv
<1> QED
  BY <1>1, <1>2, <1>3, <1>4, NoAckIsQuiet, LoopQuiet

\* The first message of an ack_dead mailbox is taken.
LEMMA AckDeadTaken ==
  ASSUME CInv, NEW p \in PEs, Waiting("ack_dead", p)
  PROVE  /\ Talk(mail, Received(mail, "ack_dead", p))
         /\ First("ack_dead", p).pe \in PEs
         /\ First("ack_dead", p).type = "ack" => First("ack_dead", p).root_pe \in PEorNone
<1>1. Talk(mail, Received(mail, "ack_dead", p)) /\ First("ack_dead", p) \in Message("ack_dead")
  BY TalkAckTaken, MailIsTyped DEF CInv, First, Waiting
<1>2. First("ack_dead", p) \in [type : {"dead"}, pe : PEs] \cup
                               [type : {"ack"}, pe : PEs, root_pe : PEorNone, abort : BOOLEAN]
  BY <1>1, MessageIs, Zenon
<1> QED
  BY <1>1, <1>2

\* ListenDead learns of a death while it waits for an ack.
LEMMA ListenDeadImplements ==
  ASSUME CInv, C!IInv, NEW p \in PEs, ListenDead(p) PROVE CInv' /\ UNCHANGED C!vars
<1> DEFINE c == [ctx[p] EXCEPT !.all_dead = ctx[p].all_dead \cup {First("ack_dead", p).pe}]
<1>1. ctx[p] \in Context
  BY DEF CInv, TypeOK
<1>2. At(p, Loop) /\ mail' = Received(mail, "ack_dead", p) /\ Waiting("ack_dead", p)
      /\ Set(p, NoAck(c))
  BY DEF ListenDead, At, Loop, Receive
<1>3. First("ack_dead", p).pe \in PEs /\ Talk(mail, mail')
  BY <1>2, AckDeadTaken
<1>4. c \in Context /\ SameIn(ctx[p], c)
  BY <1>1, <1>3 DEF Context, SameIn
<1> HIDE DEF c
<1>5. Moves(p, NoAck(c)) /\ NoAck(c).pc \in Loop /\ SameIn(ctx[p], NoAck(c))
  BY <1>2, <1>4, NoAckIsQuiet, SetMoves DEF CInv, SameIn
<1> QED
  BY <1>2, <1>3, <1>5, LoopQuiet

\* AckForwarded asks the root that was named.
LEMMA AckForwardedImplements ==
  ASSUME CInv, C!IInv, NEW p \in PEs, AckForwarded(p) PROVE CInv' /\ UNCHANGED C!vars
<1> DEFINE m == First("ack_dead", p)
           new == [ctx[p] EXCEPT !.pc = "refuse", !.peer = m.root_pe]
<1>1. ctx[p] \in Context
  BY DEF CInv, TypeOK
<1>2. At(p, Loop) /\ Waiting("ack_dead", p) /\ m.type = "ack" /\ Set(p, new)
      /\ mail' = Sent(Received(mail, "ack_dead", p), "coupling", m.root_pe, Request(p))
  BY DEF AckForwarded, GotAck, At, Loop, Answer
<1>3. m.root_pe \in PEorNone /\ Talk(mail, Received(mail, "ack_dead", p))
  BY <1>2, AckDeadTaken
<1>4. Talk(mail, mail')
  BY <1>2, <1>3, TalkRequest, TalkOn DEF Talk
<1> HIDE DEF m
<1>5. new \in Context /\ new.pc = "refuse" /\ SameIn(ctx[p], new)
  BY <1>1, <1>3 DEF Context, PC, SameIn
<1> HIDE DEF new
<1>6. Moves(p, new)
  BY <1>2, <1>5, SetMoves DEF CInv
<1> QED
  BY <1>2, <1>4, <1>5, <1>6, LoopQuiet DEF Loop

\* AckAborted notes the root that waits for another one.
LEMMA AckAbortedImplements ==
  ASSUME CInv, C!IInv, NEW p \in PEs, AckAborted(p) PROVE CInv' /\ UNCHANGED C!vars
<1> DEFINE m == First("ack_dead", p)
           wish == (ctx[p].to_couple_with \ {ctx[p].target_pe}) \cup {m.root_pe}
           new == [ctx[p] EXCEPT !.pc = "check", !.to_couple_with = wish]
<1>1. ctx[p] \in Context
  BY DEF CInv, TypeOK
<1>2. At(p, Loop) /\ Waiting("ack_dead", p) /\ m.type = "ack" /\ Set(p, new)
      /\ mail' = Received(mail, "ack_dead", p)
  BY DEF AckAborted, GotAck, At, Loop, Receive
<1>3. m.root_pe \in PEorNone /\ Talk(mail, mail')
  BY <1>2, AckDeadTaken
<1> HIDE DEF m
<1>4. wish \in SUBSET PEorNone
  BY <1>1, <1>3 DEF Context
<1> HIDE DEF wish
<1>5. new \in Context /\ new.pc = "check" /\ SameIn(ctx[p], new)
  BY <1>1, <1>4 DEF Context, PC, SameIn
<1> HIDE DEF new
<1>6. Moves(p, new)
  BY <1>2, <1>5, SetMoves DEF CInv
<1> QED
  BY <1>2, <1>3, <1>5, <1>6, LoopQuiet DEF Loop
-----------------------------------------------------------------------------
(* Steps that the clusters see *)

\* g is f but for p.
Changes(f, g, p) == g = [f EXCEPT ![p] = g[p]] /\ (g[p] = f[p] => g = f)

\* Functions that agree but on p are one EXCEPT at p.
LEMMA PointwiseChanges ==
  ASSUME NEW f, NEW g, f = [x \in PEs |-> f[x]], g = [x \in PEs |-> g[x]], NEW p \in PEs,
         \A q \in PEs : q # p => g[q] = f[q]
  PROVE  Changes(f, g, p)
BY DEF Changes

\* A PE that moves changes nothing of the others.
LEMMA OwnChanges ==
  ASSUME NEW p \in PEs, \A q \in PEs : q # p => SameSelf(q)
  PROVE  /\ Changes(stage, stage', p) /\ Changes(cluster, cluster', p)
         /\ Changes(root, root', p) /\ Changes(dead, dead', p) /\ Changes(old_dead, old_dead', p)
         /\ Changes(received, received', p) /\ Changes(tosend, tosend', p)
         /\ Changes(told, told', p) /\ Changes(chosen, chosen', p)
         /\ (p \in leaving' <=> p \in leaving) => leaving' = leaving
         /\ (p \in announcing' <=> p \in announcing) => announcing' = announcing
<1>1. Changes(stage, stage', p)
  <2>1. \A q \in PEs : q # p => stage'[q] = stage[q]
    BY DEF SameSelf
  <2> QED
    BY <2>1, PointwiseChanges DEF stage
<1>2. Changes(cluster, cluster', p)
  <2>1. \A q \in PEs : q # p => cluster'[q] = cluster[q]
    BY DEF SameSelf
  <2> QED
    BY <2>1, PointwiseChanges DEF cluster
<1>3. Changes(root, root', p)
  <2>1. \A q \in PEs : q # p => root'[q] = root[q]
    BY DEF SameSelf
  <2> QED
    BY <2>1, PointwiseChanges DEF root
<1>4. Changes(dead, dead', p)
  <2>1. \A q \in PEs : q # p => dead'[q] = dead[q]
    BY DEF SameSelf
  <2> QED
    BY <2>1, PointwiseChanges DEF dead
<1>5. Changes(old_dead, old_dead', p)
  <2>1. \A q \in PEs : q # p => old_dead'[q] = old_dead[q]
    BY DEF SameSelf
  <2> QED
    BY <2>1, PointwiseChanges DEF old_dead
<1>6. Changes(received, received', p)
  <2>1. \A q \in PEs : q # p => received'[q] = received[q]
    BY DEF SameSelf
  <2> QED
    BY <2>1, PointwiseChanges DEF received
<1>7. Changes(tosend, tosend', p)
  <2>1. \A q \in PEs : q # p => tosend'[q] = tosend[q]
    BY DEF SameSelf
  <2> QED
    BY <2>1, PointwiseChanges DEF tosend
<1>8. Changes(told, told', p)
  <2>1. \A q \in PEs : q # p => told'[q] = told[q]
    BY DEF SameSelf
  <2> QED
    BY <2>1, PointwiseChanges DEF told
<1>9. Changes(chosen, chosen', p)
  <2>1. \A q \in PEs : q # p => chosen'[q] = chosen[q]
    BY DEF SameSelf
  <2> QED
    BY <2>1, PointwiseChanges DEF chosen
<1>10. (p \in leaving' <=> p \in leaving) => leaving' = leaving
  <2>1. \A q \in PEs : q # p => (q \in leaving' <=> q \in leaving)
    BY DEF SameSelf
  <2> QED
    BY <2>1 DEF leaving
<1>11. (p \in announcing' <=> p \in announcing) => announcing' = announcing
  <2>1. \A q \in PEs : q # p => (q \in announcing' <=> q \in announcing)
    BY DEF SameSelf
  <2> QED
    BY <2>1 DEF announcing
<1> QED
  BY <1>1, <1>2, <1>3, <1>4, <1>5, <1>6, <1>7, <1>8, <1>9, <1>10, <1>11

\* A step that changes the group of p alone.
LEMMA GroupChanges ==
  ASSUME NEW p \in PEs, \A q \in PEs : q # p => SameGroup(q)
  PROVE  /\ Changes(group, group', p) /\ Changes(held, held', p)
         /\ Changes(leavers, leavers', p)
<1>1. \A q \in PEs : q # p => group'[q] = group[q] /\ held'[q] = held[q] /\ leavers'[q] = leavers[q]
  BY DEF SameGroup
<1>2. Changes(group, group', p)
  BY <1>1, PointwiseChanges DEF group
<1>3. Changes(held, held', p)
  BY <1>1, PointwiseChanges DEF held
<1>4. Changes(leavers, leavers', p)
  BY <1>1, PointwiseChanges DEF leavers
<1> QED
  BY <1>2, <1>3, <1>4

\* The messages on their way to all but one are the same.
LEMMA SentChanges ==
  ASSUME NEW p \in PEs
  PROVE  /\ (\A q \in PEs : q # p => reports'[q] = reports[q]) => Changes(reports, reports', p)
         /\ (\A q \in PEs : q # p => dead_news'[q] = dead_news[q]) => Changes(dead_news, dead_news', p)
         /\ (\A q \in PEs : q # p => news'[q] = news[q]) => Changes(news, news', p)
         /\ (\A q \in PEs : q # p => values'[q] = values[q]) => Changes(values, values', p)
<1>1. (\A q \in PEs : q # p => reports'[q] = reports[q]) => Changes(reports, reports', p)
  BY PointwiseChanges DEF reports
<1>2. (\A q \in PEs : q # p => dead_news'[q] = dead_news[q]) => Changes(dead_news, dead_news', p)
  BY PointwiseChanges DEF dead_news
<1>3. (\A q \in PEs : q # p => news'[q] = news[q]) => Changes(news, news', p)
  BY PointwiseChanges DEF news
<1>4. (\A q \in PEs : q # p => values'[q] = values[q]) => Changes(values, values', p)
  BY PointwiseChanges DEF values
<1> QED
  BY <1>1, <1>2, <1>3, <1>4

\* A PE that no message reaches any more is gone, and one that is not gone is
\* reached by every announcement and every value.
LEMMA GoneIs ==
  ASSUME CInv, NEW q \in PEs
  PROVE  /\ stage[q] = "left" <=> Last(q)
         /\ ~Alive(q) => Last(q)
         /\ Couples(q) <=> ~Last(q)
<1>1. ctx[q] \in Context
  BY DEF CInv, TypeOK
<1>2. ctx[q].terminating \in BOOLEAN
  BY <1>1 DEF Context
<1>3. At(q, {"exited"}) => ctx[q].terminating
  BY DEF CInv, Stages, At
<1>4. stage[q] = "left" <=> Last(q)
  BY DEF stage, Stage, At
<1>5. ~Alive(q) => Last(q)
  BY <1>3 DEF Alive, Last, At
<1>6. Couples(q) <=> ~Last(q)
  BY <1>2, <1>3 DEF Couples, Alive, Last, At
<1> QED
  BY <1>4, <1>5, <1>6

\* A root that lost its role hands its group to the other root.
LEMMA LosesRole ==
  ASSUME CInv, C!IInv, NEW p \in PEs, At(p, Loop), NEW other \in PEs, NEW ms, Talk(mail, ms),
         NEW new, new = [ctx[p] EXCEPT !.pc = "info", !.coupled_pes_root = other], Set(p, new),
         NEW m, m = [pe |-> p, coupled |-> ctx[p].coupled_pes, wants |-> ctx[p].to_couple_with,
                     terminating |-> ctx[p].terminating_pes],
         mail' = Sent(ms, "root_info", other, m)
  PROVE  CInv' /\ C!GiveUp(p)
<1>1. ctx[p] \in Context
  BY DEF CInv, TypeOK
<1>2. /\ new \in Context /\ new.pc = "info" /\ new.coupled_pes_root = other
      /\ new.coupled_pes = ctx[p].coupled_pes /\ new.prev_coupled_pes = ctx[p].prev_coupled_pes
      /\ new.received_from = ctx[p].received_from /\ new.cluster_dead = ctx[p].cluster_dead
      /\ new.prev_dead = ctx[p].prev_dead /\ new.terminating = ctx[p].terminating
  BY <1>1 DEF Context, PC, PEorNone
<1>3. m \in Message("root_info") /\ m.pe = p /\ m.coupled = ctx[p].coupled_pes
      /\ m.terminating = ctx[p].terminating_pes
  <2>1. m \in [pe : PEs, coupled : SUBSET PEs, wants : SUBSET PEorNone,
               terminating : SUBSET PEs]
    BY <1>1 DEF Context
  <2> QED
    BY <2>1, MessageIs
<1>4. Moves(p, new) /\ ctx'[p] = new
  BY <1>2, SetMoves DEF CInv, Moves
<1>5. /\ Typed(mail')
      /\ \A b \in Mailboxes, y \in PEs :
           mail'[b][y] = IF b = "root_info" /\ y = other /\ Alive(other)
                         THEN Append(ms[b][y], m) ELSE ms[b][y]
  BY <1>3, SentIs DEF Talk, Mailboxes, Reaches
<1>6. ~At(p, {"info"}) /\ Infos(p) = {} /\ p \in ctx[p].coupled_pes
  BY NoInfos DEF At, Loop, CInv, Stages
<1>7. \A y \in PEs : ms["root_info"][y] = mail["root_info"][y]
                     /\ mail["root_info"][y] \in Seq(Message("root_info"))
  BY DEF Talk, CInv, TypeOK, Mailboxes
<1>8. /\ \A y \in PEs : ~(y = other /\ Alive(other)) =>
                          mail'["root_info"][y] = mail["root_info"][y]
                          /\ InBox("root_info", y)' = InBox("root_info", y)
      /\ Alive(other) => /\ mail'["root_info"][other] = Append(mail["root_info"][other], m)
                         /\ InBox("root_info", other)' = InBox("root_info", other) \cup {m}
  <2>1. \A y \in PEs : ~(y = other /\ Alive(other)) => mail'["root_info"][y] = mail["root_info"][y]
    BY <1>5, <1>7 DEF Mailboxes
  <2>2. Alive(other) => mail'["root_info"][other] = Append(mail["root_info"][other], m)
    BY <1>5, <1>7 DEF Mailboxes
  <2>3. mail["root_info"][other] \in Seq(Message("root_info"))
    BY <1>7
  <2>4. Elements(Append(mail["root_info"][other], m)) = Elements(mail["root_info"][other]) \cup {m}
    BY <1>3, <2>3, AppendElements
  <2> QED
    BY <2>1, <2>2, <2>4 DEF InBox
<1>9. \A y \in PEs : \A n \in InBox("root_info", y) : n.pe # p
  BY <1>6 DEF Infos
<1>10. LosersWait'
  <2>1. ASSUME NEW x \in PEs PROVE OneEach(mail'["root_info"][x])
    <3>1. OneEach(mail["root_info"][x])
      BY DEF CInv, LosersWait
    <3>2. CASE x = other /\ Alive(other)
      <4>1. \A n \in Elements(mail["root_info"][x]) : n.pe # m.pe
        BY <1>3, <1>9 DEF InBox
      <4>2. mail["root_info"][x] \in Seq(Message("root_info"))
        BY <1>7
      <4>3. OneEach(Append(mail["root_info"][x], m))
        BY <1>3, <3>1, <4>1, <4>2, AppendElements
      <4> QED
        BY <1>8, <3>2, <4>3
    <3>3. CASE ~(x = other /\ Alive(other))
      BY <1>8, <3>1, <3>3
    <3> QED
      BY <3>2, <3>3
  <2>2. \A x \in PEs : \A n \in InBox("root_info", x)' :
          n \in InBox("root_info", x) \/ (n = m /\ x = other)
    BY <1>8
  <2>3. ASSUME NEW x \in PEs, NEW n \in InBox("root_info", x)'
        PROVE  At(n.pe, {"info"})' /\ n.pe \in n.coupled
    <3>1. CASE n = m
      BY <1>2, <1>3, <1>4, <1>6, <3>1 DEF At
    <3>2. CASE n \in InBox("root_info", x)
      <4>1. At(n.pe, {"info"}) /\ n.pe \in n.coupled /\ n.pe # p
        BY <1>9, <3>2 DEF CInv, LosersWait
      <4>2. n \in Message("root_info")
        BY <1>7, <3>2 DEF InBox, Elements
      <4>3. n \in [pe : PEs, coupled : SUBSET PEs, wants : SUBSET PEorNone,
                   terminating : SUBSET PEs]
        BY <4>2, MessageIs, Zenon
      <4> QED
        BY <1>4, <4>1, <4>3 DEF Moves, At
    <3> QED
      BY <2>2, <3>1, <3>2
  <2>4. ASSUME NEW x \in PEs, NEW y \in PEs, NEW n \in InBox("root_info", x)',
               NEW o \in InBox("root_info", y)', n.pe = o.pe
        PROVE  x = y
    BY <1>3, <1>9, <2>2, <2>4 DEF CInv, LosersWait
  <2> QED
    BY <2>1, <2>3, <2>4 DEF LosersWait
<1>11. ASSUME NEW q \in PEs, q # p PROVE Infos(q)' = Infos(q)
  <2>1. \A x : x \in Infos(q)' <=> x \in Infos(q)
    BY <1>3, <1>8, <1>11 DEF Infos
  <2> QED
    BY <2>1
<1>12. Infos(p)' = IF Alive(other) THEN {m} ELSE {}
  <2>1. \A x : x \in Infos(p)' <=> x = m /\ Alive(other)
    BY <1>3, <1>8, <1>9 DEF Infos
  <2> QED
    BY <2>1
<1>13. ~Last(p) /\ ~Last(p)' /\ (\A q \in PEs : Last(q)' <=> Last(q))
  <2>1. ~Last(p) /\ ~Last(p)'
    BY <1>2, <1>4 DEF Last, At, Loop
  <2> QED
    BY <1>4, <2>1, OthersSame
<1>14. \A q \in PEs : /\ InOrder(mail'["coupling"][q])
                      /\ \A t \in {"all_terminated", "coupled"} :
                           NewsIn(mail'["coupling"][q], t) = NewsIn(mail["coupling"][q], t)
                      /\ \A b \in {"to_couple_with", "value"} : mail'[b][q] = mail[b][q]
  BY <1>5 DEF Talk, Mailboxes, CInv, Boxes
<1>15. CInv'
  <2>1. TypeOK'
    BY <1>4, <1>5, TypedAgain DEF Moves, Typed
  <2>2. OwnStage(p, new)
    BY <1>2 DEF OwnStage, Loop, Sharing
  <2>3. Boxes'
    BY <1>13, <1>14 DEF CInv, Boxes
  <2> QED
    BY <1>4, <1>10, <2>1, <2>2, <2>3, StagesKept DEF CInv
<1>16. /\ \A q \in PEs : /\ reports'[q] = reports[q] /\ dead_news'[q] = dead_news[q]
                         /\ news'[q] = news[q] /\ values'[q] = values[q]
  BY <1>13, <1>14 DEF reports, dead_news, news, Announced, values, InBox
<1>17. UNCHANGED <<reports, dead_news, news, values>>
  BY <1>16, SentChanges DEF Changes
<1>18. /\ stage'[p] = stage[p] /\ cluster'[p] = cluster[p] /\ dead'[p] = dead[p]
       /\ old_dead'[p] = old_dead[p] /\ received'[p] = received[p] /\ tosend'[p] = tosend[p]
       /\ told'[p] = told[p] /\ chosen'[p] = chosen[p] /\ root'[p] = other
       /\ (p \in leaving' <=> p \in leaving) /\ (p \in announcing' <=> p \in announcing)
  <2>1. Stage(p)' = "wait" /\ Stage(p) = "wait"
    BY <1>2, <1>4, <1>13 DEF Stage, At, Loop
  <2> QED
    BY <1>2, <1>4, <1>13, <2>1 DEF stage, cluster, root, dead, old_dead, received, tosend, told,
       chosen, leaving, announcing, At, Loop, Sharing
<1>19. /\ UNCHANGED <<stage, leaving, cluster, dead, old_dead, received, tosend, announcing, told,
                      chosen>>
       /\ root' = [root EXCEPT ![p] = other]
  <2>1. \A q \in PEs : q # p => SameSelf(q)
    BY <1>4, OthersSame
  <2> QED
    BY <1>18, <2>1, OwnChanges DEF Changes
<1>20. /\ Changes(group, group', p) /\ Changes(held, held', p) /\ Changes(leavers, leavers', p)
  <2>1. \A q \in PEs : q # p => SameGroup(q)
    BY <1>4, <1>11, OthersSame, Elsewhere
  <2> QED
    BY <2>1, GroupChanges
<1>21. /\ group[p] = ctx[p].coupled_pes /\ held[p] = ctx[p].coupled_pes
       /\ leavers[p] = ctx[p].terminating_pes /\ p \notin announcing
  BY GroupIs DEF announcing, At, Loop, Sharing
<1>22. /\ group'[p] = UNION {n.coupled : n \in Infos(p)'} /\ held'[p] = group'[p]
       /\ leavers'[p] = UNION {n.terminating : n \in Infos(p)'}
  BY <1>2, <1>4 DEF group, held, leavers, Group, Leavers, At, Loop, Sharing
<1>23. CASE Alive(other)
  <2>1. UNCHANGED <<group, held, leavers>>
    BY <1>3, <1>12, <1>20, <1>21, <1>22, <1>23 DEF Changes
  <2> QED
    BY <1>6, <1>15, <1>17, <1>19, <1>21, <2>1 DEF C!GiveUp, C!Joining, C!sent
<1>24. CASE ~Alive(other)
  <2>1. /\ group' = [group EXCEPT ![p] = {}] /\ held' = [held EXCEPT ![p] = {}]
        /\ leavers' = [leavers EXCEPT ![p] = {}]
    BY <1>12, <1>20, <1>22, <1>24 DEF Changes
  <2>2. C!Gone(other)
    BY <1>24, GoneIs DEF C!Gone
  <2> QED
    BY <1>6, <1>15, <1>17, <1>19, <1>21, <2>1, <2>2 DEF C!GiveUp, C!Joining, C!sent
<1> QED
  BY <1>23, <1>24

\* negotiate_new_root: one root waits for the other's sets, or hands over its own.
LEMMA NegotiateImplements ==
  ASSUME CInv, C!IInv, NEW p \in PEs, At(p, Loop), NEW other \in PEs, NEW then \in Loop,
         NEW ms, Talk(mail, ms), Negotiate(p, other, then, ms)
  PROVE  CInv' /\ [C!GiveUp(p)]_C!vars
<1>1. ctx[p] \in Context
  BY DEF CInv, TypeOK
<1>2. CASE p < other
  <2> DEFINE new == [ctx[p] EXCEPT !.pc = then, !.peer = other]
  <2>1. Set(p, new) /\ mail' = ms
    BY <1>2 DEF Negotiate
  <2>2. new \in Context /\ new.pc \in Loop /\ SameIn(ctx[p], new)
    BY <1>1, ZenonT(60) DEF Context, PC, PEorNone, Loop, SameIn
  <2> HIDE DEF new
  <2>3. Moves(p, new)
    BY <2>1, <2>2, SetMoves DEF CInv
  <2> QED
    BY <2>1, <2>2, <2>3, LoopQuiet
<1>3. CASE ~(p < other)
  <2> DEFINE new == [ctx[p] EXCEPT !.pc = "info", !.coupled_pes_root = other]
             m   == [pe |-> p, coupled |-> ctx[p].coupled_pes, wants |-> ctx[p].to_couple_with,
                     terminating |-> ctx[p].terminating_pes]
  <2>1. Set(p, new) /\ mail' = Sent(ms, "root_info", other, m)
    BY <1>3 DEF Negotiate
  <2> QED
    BY <2>1, LosesRole
<1> QED
  BY <1>2, <1>3

\* AckAccepted: the root that was asked has answered, and one of the two loses its role.
LEMMA AckAcceptedImplements ==
  ASSUME CInv, C!IInv, NEW p \in PEs, AckAccepted(p) PROVE CInv' /\ [C!GiveUp(p)]_C!vars
<1>1. At(p, Loop) /\ Waiting("ack_dead", p)
      /\ First("ack_dead", p).root_pe = First("ack_dead", p).pe
      /\ Negotiate(p, First("ack_dead", p).root_pe, "merge", Received(mail, "ack_dead", p))
  BY DEF AckAccepted, GotAck, At, Loop
<1>2. First("ack_dead", p).root_pe \in PEs /\ Talk(mail, Received(mail, "ack_dead", p))
  BY <1>1, AckDeadTaken
<1>3. "merge" \in Loop
  BY DEF Loop
<1> QED
  BY <1>1, <1>2, <1>3, NegotiateImplements

\* CheckRequest accepts whoever asked.
LEMMA CheckRequestImplements ==
  ASSUME CInv, C!IInv, NEW p \in PEs, CheckRequest(p) PROVE CInv' /\ [C!GiveUp(p)]_C!vars
<1> DEFINE m  == First("coupling", p)
           ms == Sent(Received(mail, "coupling", p), "ack_dead", m.pe,
                      Ack(p, ctx[p].coupled_pes_root, FALSE))
<1>1. At(p, Loop) /\ Waiting("coupling", p) /\ Negotiate(p, m.pe, "merge_request", ms)
  BY DEF CheckRequest, At, Loop
<1>2. m.pe \in PEs /\ Talk(mail, Received(mail, "coupling", p))
  BY <1>1, LoopHearsRequests
<1>3. Talk(mail, ms)
  <2>1. Ack(p, ctx[p].coupled_pes_root, FALSE) \in Message("ack_dead")
    BY AckIsMessage DEF CInv
  <2>2. Typed(Received(mail, "coupling", p))
    BY <1>2 DEF Talk
  <2>3. Talk(Received(mail, "coupling", p), ms)
    BY <2>1, <2>2, TalkAck
  <2> QED
    BY <1>2, <2>3, TalkOn
<1>4. "merge_request" \in Loop
  BY DEF Loop
<1> HIDE DEF m, ms
<1> QED
  BY <1>1, <1>2, <1>3, <1>4, NegotiateImplements

\* The root that announces is one of the cluster, or none.
NewRoots == \A p \in PEs : new_root(p) \in PEorNone

\* The root that a root announces is a PE or none.
LEMMA NewRootIs == TypeOK => NewRoots
<1> SUFFICES ASSUME TypeOK, NEW p \in PEs PROVE new_root(p) \in PEorNone
  BY DEF NewRoots
<1>1. ctx[p] \in Context
  BY DEF TypeOK
<1>2. ctx[p].coupled_pes \ NewDead(ctx[p]) \in SUBSET PEs
  BY <1>1 DEF Context
<1>3. ctx[p].coupled_pes \ NewDead(ctx[p]) # {} => new_root(p) \in PEorNone
  BY <1>2, GreatestIsOne DEF new_root, PEorNone
<1> QED
  BY <1>3 DEF new_root, PEorNone

\* A root that finds nobody else to join announces.
LEMMA CheckNothingImplements ==
  ASSUME CInv, C!IInv, NEW p \in PEs, CheckNothing(p) PROVE CInv' /\ [C!Announce(p)]_C!vars
<1>1. ctx[p] \in Context
  BY DEF CInv, TypeOK
<1>2. At(p, Loop) /\ Set(p, EndRound(ctx[p])) /\ mail' = mail /\ p \in ctx[p].coupled_pes
  BY DEF CheckNothing, At, Loop, CInv, Stages
<1>3. CASE Missing(ctx[p]) # {}
  <2> DEFINE new == [ctx[p] EXCEPT !.pc = "find"]
  <2>1. Set(p, new)
    BY <1>2, <1>3 DEF EndRound
  <2>2. new \in Context /\ new.pc \in Loop /\ SameIn(ctx[p], new)
    BY <1>1 DEF Context, PC, Loop, SameIn
  <2> HIDE DEF new
  <2>3. Moves(p, new)
    BY <2>1, <2>2, SetMoves DEF CInv
  <2>4. Talk(mail, mail')
    BY <1>2, MailIsTyped DEF CInv, Talk
  <2> QED
    BY <1>2, <2>2, <2>3, <2>4, LoopQuiet
<1>4. CASE Missing(ctx[p]) = {}
  <2> DEFINE new == [ctx[p] EXCEPT !.pc = "share", !.todo = ctx[p].coupled_pes]
  <2>1. Set(p, new)
    BY <1>2, <1>4 DEF EndRound
  <2>2. new \in Context /\ new.pc = "share" /\ new.todo = new.coupled_pes /\ SameIn(ctx[p], new)
    BY <1>1 DEF Context, PC, SameIn
  <2> HIDE DEF new
  <2>3. Moves(p, new) /\ ctx'[p] = new
    BY <2>1, <2>2, SetMoves DEF CInv, Moves
  <2>4. Infos(p) = {} /\ OwnStage(p, new)
    BY <1>2, <2>2, NoInfos DEF OwnStage, At, Loop, Sharing, SameIn
  <2>5. LosersWait' /\ \A q \in PEs : Infos(q)' = Infos(q)
    BY <1>2, <2>3, <2>4, LosersKept
  <2>6. TypeOK'
    BY <1>2, <2>3, MailIsTyped, TypedAgain DEF Moves, Typed, CInv
  <2>7. ~Last(p) /\ ~Last(p)' /\ \A q \in PEs : Last(q)' <=> Last(q)
    <3>1. ~Last(p) /\ ~Last(p)'
      BY <1>2, <2>2, <2>3 DEF Last, At, Loop
    <3> QED
      BY <2>3, <3>1, OthersSame
  <2>8. CInv'
    <3>1. Boxes'
      BY <1>2, <2>7 DEF CInv, Boxes
    <3> QED
      BY <2>3, <2>4, <2>5, <2>6, <3>1, StagesKept DEF CInv
  <2>9. UNCHANGED <<reports, dead_news, news, values>>
    BY <1>2, <2>7 DEF reports, dead_news, news, Announced, values, InBox
  <2>10. UNCHANGED <<group, held, leavers>>
    <3>1. group'[p] = group[p] /\ held'[p] = held[p] /\ leavers'[p] = leavers[p]
      BY <1>2, <2>2, <2>3 DEF group, held, leavers, Group, Leavers, At, Loop, Sharing, SameIn
    <3>2. \A q \in PEs : q # p => SameGroup(q)
      BY <2>3, <2>5, OthersSame, Elsewhere
    <3> QED
      BY <3>1, <3>2, GroupChanges DEF Changes
  <2>11. /\ stage'[p] = stage[p] /\ cluster'[p] = cluster[p] /\ dead'[p] = dead[p]
         /\ old_dead'[p] = old_dead[p] /\ received'[p] = received[p] /\ tosend'[p] = tosend[p]
         /\ told'[p] = told[p] /\ root'[p] = root[p]
         /\ (p \in leaving' <=> p \in leaving) /\ p \in announcing' /\ p \notin announcing
    <3>1. Stage(p)' = "wait" /\ Stage(p) = "wait"
      BY <1>2, <2>2, <2>3, <2>7 DEF Stage, At, Loop
    <3> QED
      BY <1>2, <2>2, <2>3, <2>7, <3>1 DEF stage, cluster, root, dead, old_dead, received, tosend,
         told, leaving, announcing, At, Loop, Sharing, SameIn
  <2>12. \A q \in PEs : q # p => SameSelf(q)
    BY <2>3, OthersSame
  <2>13. UNCHANGED <<stage, leaving, cluster, root, dead, old_dead, received, tosend, told>>
    BY <2>11, <2>12, OwnChanges DEF Changes
  <2>14. announcing' = announcing \cup {p}
    <3>1. \A q \in PEs : q # p => (q \in announcing' <=> q \in announcing)
      BY <2>12 DEF SameSelf
    <3> QED
      BY <2>11, <3>1 DEF announcing
  <2>15. \E x \in PEs \cup {-1} : chosen' = [chosen EXCEPT ![p] = x]
    <3>1. chosen'[p] \in PEs \cup {-1}
      <4>1. new_root(p)' \in PEorNone
        <5>1. NewRoots'
          BY <2>6, NewRootIs, PTL
        <5> QED
          BY <5>1 DEF NewRoots
      <4> QED
        BY <2>2, <2>3, <4>1 DEF chosen, At, Sharing, PEorNone
    <3> QED
      BY <2>12, <3>1, OwnChanges DEF Changes
  <2>16. group[p] # {}
    BY <1>2, GroupIs
  <2> QED
    BY <2>8, <2>9, <2>10, <2>11, <2>13, <2>14, <2>15, <2>16
       DEF C!Announce, C!Joining, C!Complete, C!own, C!sent
<1> QED
  BY <1>3, <1>4

\* The sets of the other root are taken out of the mailbox: there are no others of it.
LEMMA InfoTaken ==
  ASSUME CInv, NEW p \in PEs, Waiting("root_info", p), ~At(p, {"info"}),
         mail' = Received(mail, "root_info", p),
         NEW m, m = First("root_info", p)
  PROVE  /\ Typed(mail') /\ m \in Message("root_info")
         /\ \A b \in Mailboxes, q \in PEs : b # "root_info" => mail'[b][q] = mail[b][q]
         /\ m.pe \in PEs /\ m.pe # p /\ At(m.pe, {"info"}) /\ m.pe \in m.coupled
         /\ Infos(m.pe) = {m} /\ Infos(m.pe)' = {}
         /\ \A q \in PEs : q # m.pe => Infos(q)' = Infos(q)
         /\ (\A q \in PEs : q # p => ctx'[q] = ctx[q]) => LosersWait'
<1>1. /\ Typed(mail') /\ m \in Message("root_info")
      /\ \A x \in Mailboxes, y \in PEs :
           mail'[x][y] = IF x = "root_info" /\ y = p THEN Tail(mail[x][y]) ELSE mail[x][y]
  BY ReceivedIs, MailIsTyped DEF CInv, Mailboxes, Waiting, First
<1>2. m \in [pe : PEs, coupled : SUBSET PEs, wants : SUBSET PEorNone, terminating : SUBSET PEs]
  BY <1>1, MessageIs, Zenon
<1>3. mail["root_info"][p] \in Seq(Message("root_info")) /\ mail["root_info"][p] # <<>>
      /\ OneEach(mail["root_info"][p])
  BY DEF CInv, TypeOK, Mailboxes, Waiting, LosersWait
<1>4. /\ InBox("root_info", p) = InBox("root_info", p)' \cup {m}
      /\ \A n \in InBox("root_info", p)' : n.pe # m.pe
      /\ OneEach(mail'["root_info"][p])
  <2>1. mail'["root_info"][p] = Tail(mail["root_info"][p])
    BY <1>1 DEF Mailboxes
  <2>2. m = Head(mail["root_info"][p])
    BY DEF First
  <2> QED
    BY <1>3, <2>1, <2>2, TailElements DEF InBox
<1>5. \A q \in PEs : q # p => /\ mail'["root_info"][q] = mail["root_info"][q]
                              /\ InBox("root_info", q)' = InBox("root_info", q)
  BY <1>1 DEF Mailboxes, InBox
<1>6. m.pe \in PEs /\ m.pe # p /\ At(m.pe, {"info"}) /\ m.pe \in m.coupled
  BY <1>2, <1>4 DEF CInv, LosersWait
<1>7. m \in Infos(m.pe)
  BY <1>4 DEF Infos
<1>8. Infos(m.pe) = {m}
  BY <1>6, <1>7, OneInfo
<1>9. Infos(m.pe)' = {}
  <2>1. ASSUME NEW n \in Infos(m.pe)' PROVE FALSE
    <3>1. PICK x \in PEs : n \in InBox("root_info", x)' /\ n.pe = m.pe
      BY DEF Infos
    <3>2. x # p
      BY <1>4, <3>1
    <3>3. n \in InBox("root_info", x) /\ m \in InBox("root_info", p)
      BY <1>4, <1>5, <3>1, <3>2
    <3> QED
      BY <3>1, <3>2, <3>3 DEF CInv, LosersWait
  <2> QED
    BY <2>1
<1>10. ASSUME NEW q \in PEs, q # m.pe PROVE Infos(q)' = Infos(q)
  <2>1. \A x : x \in Infos(q)' <=> x \in Infos(q)
    BY <1>4, <1>5, <1>10 DEF Infos
  <2> QED
    BY <2>1
<1>11. ASSUME \A q \in PEs : q # p => ctx'[q] = ctx[q] PROVE LosersWait'
  <2>1. \A x \in PEs : \A n \in InBox("root_info", x)' : n \in InBox("root_info", x)
    BY <1>4, <1>5
  <2>2. \A x \in PEs : OneEach(mail'["root_info"][x])
    BY <1>4, <1>5 DEF CInv, LosersWait
  <2>3. ASSUME NEW x \in PEs, NEW n \in InBox("root_info", x)'
        PROVE  At(n.pe, {"info"})' /\ n.pe \in n.coupled
    <3>1. At(n.pe, {"info"}) /\ n.pe \in n.coupled
      BY <2>1 DEF CInv, LosersWait
    <3>2. n \in Message("root_info")
      <4>1. n \in InBox("root_info", x) /\ mail["root_info"][x] \in Seq(Message("root_info"))
        BY <2>1 DEF CInv, TypeOK, Mailboxes
      <4> QED
        BY <4>1 DEF InBox, Elements
    <3>3. n \in [pe : PEs, coupled : SUBSET PEs, wants : SUBSET PEorNone, terminating : SUBSET PEs]
      BY <3>2, MessageIs, Zenon
    <3>4. n.pe \in PEs /\ n.pe # p
      BY <3>1, <3>3
    <3> QED
      BY <1>11, <3>1, <3>4 DEF At
  <2>4. \A x, y \in PEs : \A n \in InBox("root_info", x)', o \in InBox("root_info", y)' :
          n.pe = o.pe => x = y
    BY <2>1 DEF CInv, LosersWait
  <2> QED
    BY <2>2, <2>3, <2>4 DEF LosersWait
<1> QED
  BY <1>1, <1>6, <1>8, <1>9, <1>10, <1>11

\* What a root knows after it took over another's sets, and where it goes on.
Takes(c, m, new) ==
  /\ new \in Context
  /\ new.coupled_pes = c.coupled_pes \cup m.coupled
  /\ new.terminating_pes = c.terminating_pes \cup m.terminating
  /\ new.prev_coupled_pes = c.prev_coupled_pes /\ new.coupled_pes_root = c.coupled_pes_root
  /\ new.received_from = c.received_from /\ new.cluster_dead = c.cluster_dead
  /\ new.prev_dead = c.prev_dead /\ new.terminating = c.terminating
  /\ new.pc \in Loop \/ (new.pc = "share" /\ new.todo = new.coupled_pes)

\* Merge takes the sets of the one root that lost to this one.
LEMMA MergeTakes ==
  ASSUME CInv, NEW p \in PEs, Merge(p)
  PROVE  \E new : Set(p, new) /\ Takes(ctx[p], First("root_info", p), new)
<1> DEFINE m == First("root_info", p)
           c == [ctx[p] EXCEPT !.coupled_pes = ctx[p].coupled_pes \cup m.coupled,
                               !.to_couple_with = ctx[p].to_couple_with \cup m.wants,
                               !.terminating_pes = ctx[p].terminating_pes \cup m.terminating]
<1>1. ctx[p] \in Context
  BY DEF CInv, TypeOK
<1>2. m \in [pe : PEs, coupled : SUBSET PEs, wants : SUBSET PEorNone, terminating : SUBSET PEs]
  <2>1. m \in Message("root_info")
    BY ReceivedIs, MailIsTyped DEF CInv, Mailboxes, Merge, Waiting, First
  <2> QED
    BY <2>1, MessageIs, Zenon
<1>3. Set(p, IF At(p, {"merge"}) THEN [c EXCEPT !.pc = "check"] ELSE EndRound(c))
  BY DEF Merge
<1> HIDE DEF m
<1>4. /\ c \in Context
      /\ c.coupled_pes = ctx[p].coupled_pes \cup m.coupled
      /\ c.terminating_pes = ctx[p].terminating_pes \cup m.terminating
      /\ c.prev_coupled_pes = ctx[p].prev_coupled_pes
      /\ c.coupled_pes_root = ctx[p].coupled_pes_root
      /\ c.received_from = ctx[p].received_from /\ c.cluster_dead = ctx[p].cluster_dead
      /\ c.prev_dead = ctx[p].prev_dead /\ c.terminating = ctx[p].terminating
  BY <1>1, <1>2 DEF Context
<1> HIDE DEF c
<1>5. CASE At(p, {"merge"})
  <2>1. Takes(ctx[p], m, [c EXCEPT !.pc = "check"])
    BY <1>4 DEF Takes, Context, PC, Loop
  <2> QED
    BY <1>3, <1>5, <2>1 DEF m
<1>6. CASE ~At(p, {"merge"}) /\ Missing(c) # {}
  <2>1. Takes(ctx[p], m, [c EXCEPT !.pc = "find"])
    BY <1>4 DEF Takes, Context, PC, Loop
  <2> QED
    BY <1>3, <1>6, <2>1 DEF m, EndRound
<1>7. CASE ~At(p, {"merge"}) /\ Missing(c) = {}
  <2>1. Takes(ctx[p], m, [c EXCEPT !.pc = "share", !.todo = c.coupled_pes])
    BY <1>4 DEF Takes, Context, PC
  <2> QED
    BY <1>3, <1>7, <2>1 DEF m, EndRound
<1> QED
  BY <1>5, <1>6, <1>7

\* Functions that agree but on p and q are one EXCEPT at both.
LEMMA TwoChange ==
  ASSUME NEW f, NEW g, f = [x \in PEs |-> f[x]], g = [x \in PEs |-> g[x]],
         NEW p \in PEs, NEW s \in PEs, p # s,
         \A q \in PEs : g[q] = IF q = s THEN {} ELSE IF q = p THEN f[p] \cup f[s] ELSE f[q]
  PROVE  g = [f EXCEPT ![p] = @ \cup f[s], ![s] = {}]
OBVIOUS

\* Two groups become one when the root that stays takes the other's sets.
LEMMA MergeImplements ==
  ASSUME CInv, C!IInv, NEW p \in PEs, Merge(p)
  PROVE  CInv' /\ \E s \in PEs : C!Merge(p, s)
<1>21. PICK m : m = First("root_info", p)
  OBVIOUS
<1>22. PICK s : s = m.pe
  OBVIOUS
<1>1. PICK new : Set(p, new) /\ Takes(ctx[p], m, new)
  BY <1>21, MergeTakes
<1>2. At(p, Loop) /\ ~At(p, {"info"}) /\ Waiting("root_info", p)
      /\ mail' = Received(mail, "root_info", p)
  BY DEF Merge, At, Loop, Receive
<1>3. Moves(p, new) /\ ctx'[p] = new /\ \A q \in PEs : q # p => ctx'[q] = ctx[q]
  BY <1>1, SetMoves DEF CInv, Takes, Moves
<1>4. /\ Typed(mail')
      /\ \A b \in Mailboxes, q \in PEs : b # "root_info" => mail'[b][q] = mail[b][q]
      /\ s \in PEs /\ s # p /\ At(s, {"info"}) /\ s \in m.coupled
      /\ Infos(s) = {m} /\ Infos(s)' = {}
      /\ \A q \in PEs : q # s => Infos(q)' = Infos(q)
      /\ LosersWait'
  BY <1>2, <1>3, <1>21, <1>22, InfoTaken
<1>5. TypeOK'
  BY <1>3, <1>4, TypedAgain DEF Moves, Typed
<1>6. ~Last(p) /\ ~Last(p)' /\ \A q \in PEs : Last(q)' <=> Last(q)
  <2>1. ~Last(p) /\ ~Last(p)'
    BY <1>1, <1>2, <1>3 DEF Last, At, Loop, Takes
  <2> QED
    BY <1>3, <2>1, OthersSame
<1>7. CInv'
  <2>1. OwnStage(p, new)
    <3>1. p \in ctx[p].coupled_pes
      BY <1>2 DEF At, CInv, Stages
    <3> QED
      BY <1>1, <3>1 DEF OwnStage, Takes, Loop, Sharing
  <2>2. Boxes'
    BY <1>4, <1>6 DEF CInv, Boxes, Mailboxes
  <2> QED
    BY <1>3, <1>4, <1>5, <2>1, <2>2, StagesKept DEF CInv
<1>8. UNCHANGED <<reports, dead_news, news, values>>
  BY <1>4, <1>6 DEF reports, dead_news, news, Announced, values, InBox, Mailboxes
<1>9. /\ stage'[p] = stage[p] /\ cluster'[p] = cluster[p] /\ dead'[p] = dead[p]
      /\ old_dead'[p] = old_dead[p] /\ received'[p] = received[p] /\ tosend'[p] = tosend[p]
      /\ told'[p] = told[p] /\ root'[p] = root[p] /\ (p \in leaving' <=> p \in leaving)
  <2>1. Stage(p)' = "wait" /\ Stage(p) = "wait"
    BY <1>1, <1>2, <1>3, <1>6 DEF Stage, At, Loop, Takes
  <2> QED
    BY <1>1, <1>2, <1>3, <1>6, <2>1 DEF stage, cluster, root, dead, old_dead, received, tosend,
       told, leaving, At, Loop, Takes
<1>10. \A q \in PEs : q # p => SameSelf(q)
  BY <1>3, OthersSame
<1>11. UNCHANGED <<stage, leaving, cluster, root, dead, old_dead, received, tosend, told>>
  BY <1>9, <1>10, OwnChanges DEF Changes
<1>12. /\ group[p] = ctx[p].coupled_pes /\ held[p] = ctx[p].coupled_pes
       /\ leavers[p] = ctx[p].terminating_pes /\ p \notin announcing
  BY <1>2, GroupIs DEF announcing, At, Loop, Sharing
<1>13. /\ group[s] = m.coupled /\ held[s] = m.coupled /\ leavers[s] = m.terminating
       /\ s \notin announcing
  <2>1. ~At(s, Loop \cup Sharing) /\ ~At(s, Loop \cup Sharing \cup {"gather"})
    BY <1>4 DEF At, Loop, Sharing
  <2>2. UNION {n.coupled : n \in Infos(s)} = m.coupled
        /\ UNION {n.terminating : n \in Infos(s)} = m.terminating
    BY <1>4
  <2>3. s \notin announcing
    BY <2>1 DEF announcing, At
  <2> QED
    BY <1>4, <2>1, <2>2, <2>3, GroupIs
<1>14. /\ group'[p] = group[p] \cup group[s] /\ held'[p] = held[p] \cup held[s]
       /\ leavers'[p] = leavers[p] \cup leavers[s]
  BY <1>1, <1>3, <1>12, <1>13 DEF group, held, leavers, Group, Leavers, At, Loop, Sharing, Takes
<1>15. group'[s] = {} /\ held'[s] = {} /\ leavers'[s] = {}
  <2>1. ctx'[s] = ctx[s]
    BY <1>3, <1>4
  <2> QED
    BY <1>4, <2>1 DEF group, held, leavers, Group, Leavers, At, Loop, Sharing
<1>16. \A q \in PEs : q # p /\ q # s => SameGroup(q)
  BY <1>3, <1>4, Elsewhere
<1>17. /\ group' = [group EXCEPT ![p] = @ \cup group[s], ![s] = {}]
       /\ held' = [held EXCEPT ![p] = @ \cup held[s], ![s] = {}]
       /\ leavers' = [leavers EXCEPT ![p] = @ \cup leavers[s], ![s] = {}]
  <2>1. \A q \in PEs : /\ group'[q] = IF q = s THEN {} ELSE IF q = p THEN group[p] \cup group[s] ELSE group[q]
                       /\ held'[q] = IF q = s THEN {} ELSE IF q = p THEN held[p] \cup held[s] ELSE held[q]
                       /\ leavers'[q] = IF q = s THEN {} ELSE IF q = p THEN leavers[p] \cup leavers[s]
                                        ELSE leavers[q]
    BY <1>4, <1>14, <1>15, <1>16 DEF SameGroup
  <2>2. group' = [group EXCEPT ![p] = @ \cup group[s], ![s] = {}]
    BY <1>4, <2>1, TwoChange DEF group
  <2>3. held' = [held EXCEPT ![p] = @ \cup held[s], ![s] = {}]
    BY <1>4, <2>1, TwoChange DEF held
  <2>4. leavers' = [leavers EXCEPT ![p] = @ \cup leavers[s], ![s] = {}]
    BY <1>4, <2>1, TwoChange DEF leavers
  <2> QED
    BY <2>2, <2>3, <2>4
<1>18. C!Complete(p) \/ UNCHANGED <<announcing, chosen>>
  <2>1. CASE new.pc \in Loop
    <3>1. (p \in announcing' <=> p \in announcing) /\ chosen'[p] = chosen[p]
      BY <1>2, <1>3, <2>1 DEF announcing, chosen, At, Loop, Sharing
    <3> QED
      BY <1>10, <3>1, OwnChanges DEF Changes
  <2>2. CASE new.pc = "share"
    <3>1. p \in announcing'
      BY <1>3, <2>2 DEF announcing, At, Sharing
    <3>2. announcing' = announcing \cup {p}
      <4>1. \A q \in PEs : q # p => (q \in announcing' <=> q \in announcing)
        BY <1>10 DEF SameSelf
      <4> QED
        BY <3>1, <4>1 DEF announcing
    <3>3. chosen'[p] \in PEs \cup {-1}
      <4>1. NewRoots'
        BY <1>5, NewRootIs, PTL
      <4> QED
        BY <1>3, <2>2, <4>1 DEF chosen, At, Sharing, PEorNone, NewRoots
    <3>4. \E x \in PEs \cup {-1} : chosen' = [chosen EXCEPT ![p] = x]
      BY <1>10, <3>3, OwnChanges DEF Changes
    <3> QED
      BY <3>2, <3>4 DEF C!Complete
  <2> QED
    BY <1>1, <2>1, <2>2 DEF Takes
<1>19. group[p] # {} /\ group[s] # {}
  BY <1>2, <1>4, <1>12, <1>13 DEF At, CInv, Stages
<1>20. C!Merge(p, s)
  BY <1>4, <1>8, <1>11, <1>12, <1>13, <1>17, <1>18, <1>19 DEF C!Merge, C!Joining, C!own, C!sent
<1> QED
  BY <1>4, <1>7, <1>20
-----------------------------------------------------------------------------
(* The start of an iteration *)

\* What is on its way to a PE's root is a report for the clusters.
Reports(s) == {ReportOf(m) : m \in Elements(s)}

\* Gather takes the one report of its sender.
LEMMA ReportTaken ==
  ASSUME NEW s \in Seq(Message("to_couple_with")), s # <<>>, OneEach(s), NEW m, m = Head(s),
         NEW n, n = ReportOf(m)
  PROVE  n \in Reports(s) /\ Reports(Tail(s)) = Reports(s) \ {n} /\ OneEach(Tail(s))
<1>1. /\ Elements(s) = Elements(Tail(s)) \cup {m} /\ OneEach(Tail(s))
      /\ \A o \in Elements(Tail(s)) : o.pe # m.pe
  BY TailElements
<1>2. n \in Reports(s) /\ Reports(s) = Reports(Tail(s)) \cup {n}
  BY <1>1 DEF Reports
<1>3. \A o \in Reports(Tail(s)) : o.pe # n.pe
  BY <1>1 DEF Reports, ReportOf
<1> QED
  BY <1>1, <1>2, <1>3

\* The root takes one member's wishes, and whether it leaves.
LEMMA GatherImplements ==
  ASSUME CInv, C!IInv, NEW p \in PEs, Gather(p)
  PROVE  CInv' /\ \E n \in reports[p] : C!Gather(p, n)
<1>1. PICK m : m = First("to_couple_with", p)
  OBVIOUS
<1>2. PICK n : n = ReportOf(m)
  OBVIOUS
<1> DEFINE wish == ctx[p].to_couple_with \cup m.set
           rec  == ctx[p].received_from \cup {m.pe}
           term == IF m.terminating THEN ctx[p].terminating_pes \cup {m.pe} ELSE ctx[p].terminating_pes
           new  == [ctx[p] EXCEPT !.to_couple_with = wish, !.received_from = rec,
                                  !.terminating_pes = term]
<1>3. ctx[p] \in Context
  BY DEF CInv, TypeOK
<1>4. At(p, {"gather"}) /\ ctx[p].pc = "gather" /\ Waiting("to_couple_with", p)
      /\ mail' = Received(mail, "to_couple_with", p) /\ Set(p, new)
  <2>1. At(p, {"gather"}) /\ ctx[p].pc = "gather" /\ Waiting("to_couple_with", p)
        /\ mail' = Received(mail, "to_couple_with", p)
    BY DEF Gather, At, Receive
  <2>2. Set(p, [ctx[p] EXCEPT !.to_couple_with = @ \cup m.set,
                              !.received_from = @ \cup {m.pe},
                              !.terminating_pes = IF m.terminating THEN @ \cup {m.pe} ELSE @])
    BY <1>1 DEF Gather
  <2>3. Set(p, new)
    BY <2>2, Zenon
  <2> QED
    BY <2>1, <2>3
<1>5. /\ Typed(mail') /\ m \in Message("to_couple_with")
      /\ \A x \in Mailboxes, y \in PEs :
           mail'[x][y] = IF x = "to_couple_with" /\ y = p THEN Tail(mail[x][y]) ELSE mail[x][y]
  BY <1>1, <1>4, ReceivedIs, MailIsTyped DEF CInv, Mailboxes, Waiting, First
<1>6. m \in [pe : PEs, set : SUBSET PEs, terminating : BOOLEAN]
  BY <1>5, MessageIs, Zenon
<1>7. wish \in SUBSET PEorNone /\ rec \in SUBSET PEs /\ term \in SUBSET PEs
  BY <1>3, <1>6 DEF Context, PEorNone
<1>8. term = ctx[p].terminating_pes \cup n.leaving /\ n.pe = m.pe
  BY <1>2 DEF ReportOf
<1> HIDE DEF wish, rec, term
<1>9. /\ new \in Context /\ new.pc = "gather" /\ new.received_from = rec
      /\ new.terminating_pes = term
      /\ new.coupled_pes = ctx[p].coupled_pes /\ new.prev_coupled_pes = ctx[p].prev_coupled_pes
      /\ new.coupled_pes_root = ctx[p].coupled_pes_root
      /\ new.cluster_dead = ctx[p].cluster_dead
      /\ new.prev_dead = ctx[p].prev_dead /\ new.terminating = ctx[p].terminating
  BY <1>3, <1>4, <1>7 DEF Context
<1> HIDE DEF new
<1>10. Moves(p, new) /\ ctx'[p] = new
  BY <1>4, <1>9, SetMoves DEF CInv, Moves
<1>11. Infos(p) = {}
  BY <1>4, NoInfos DEF At
<1>12. LosersWait' /\ \A q \in PEs : Infos(q)' = Infos(q)
  BY <1>5, <1>10, <1>11, LosersKept DEF Mailboxes
<1>13. TypeOK'
  BY <1>5, <1>10, TypedAgain DEF Moves, Typed
<1>14. ~Last(p) /\ ~Last(p)' /\ \A q \in PEs : Last(q)' <=> Last(q)
  <2>1. ~Last(p) /\ ~Last(p)'
    BY <1>4, <1>9, <1>10 DEF Last, At
  <2> QED
    BY <1>10, <2>1, OthersSame
<1>15. /\ mail["to_couple_with"][p] \in Seq(Message("to_couple_with"))
       /\ mail["to_couple_with"][p] # <<>> /\ OneEach(mail["to_couple_with"][p])
       /\ m = Head(mail["to_couple_with"][p])
  BY <1>1, <1>4 DEF CInv, TypeOK, Boxes, Mailboxes, Waiting, First
<1>16. /\ n \in Reports(mail["to_couple_with"][p])
       /\ Reports(mail'["to_couple_with"][p]) = Reports(mail["to_couple_with"][p]) \ {n}
       /\ OneEach(mail'["to_couple_with"][p])
  BY <1>2, <1>5, <1>15, ReportTaken DEF Mailboxes
<1>17. CInv'
  <2>1. OwnStage(p, new)
    BY <1>9 DEF OwnStage, Loop, Sharing
  <2>2. Boxes'
    <3>1. \A q \in PEs : OneEach(mail'["to_couple_with"][q])
      BY <1>5, <1>16 DEF CInv, Boxes, Mailboxes
    <3> QED
      BY <1>5, <1>14, <3>1 DEF CInv, Boxes, Mailboxes
  <2> QED
    BY <1>10, <1>12, <1>13, <2>1, <2>2, StagesKept DEF CInv
<1>18. UNCHANGED <<dead_news, news, values>>
  BY <1>5, <1>14 DEF dead_news, news, Announced, values, InBox, Mailboxes
<1>19. /\ stage'[p] = stage[p] /\ cluster'[p] = cluster[p] /\ dead'[p] = dead[p]
       /\ old_dead'[p] = old_dead[p] /\ tosend'[p] = tosend[p]
       /\ told'[p] = told[p] /\ chosen'[p] = chosen[p] /\ root'[p] = root[p]
       /\ (p \in leaving' <=> p \in leaving) /\ (p \in announcing' <=> p \in announcing)
       /\ received'[p] = received[p] \cup {n.pe} /\ stage[p] = "gather"
  <2>1. Stage(p)' = "gather" /\ Stage(p) = "gather"
    BY <1>4, <1>9, <1>10, <1>14 DEF Stage, At
  <2> QED
    BY <1>4, <1>8, <1>9, <1>10, <1>14, <2>1 DEF stage, cluster, root, dead, old_dead, received,
       tosend, told, chosen, leaving, announcing, At, Sharing, rec
<1>20. \A q \in PEs : q # p => SameSelf(q) /\ SameGroup(q)
  BY <1>10, <1>12, OthersSame, Elsewhere
<1>21. /\ UNCHANGED <<stage, leaving, cluster, root, dead, old_dead, tosend, announcing, told, chosen>>
       /\ received' = [received EXCEPT ![p] = @ \cup {n.pe}]
  BY <1>19, <1>20, OwnChanges DEF Changes
<1>22. /\ UNCHANGED <<group, held>>
       /\ leavers' = [leavers EXCEPT ![p] = @ \cup n.leaving]
  <2>1. group'[p] = group[p] /\ held'[p] = held[p]
    BY <1>4, <1>9, <1>10, <1>12 DEF group, held, Group, At, Loop, Sharing
  <2>2. leavers'[p] = leavers[p] \cup n.leaving
    BY <1>4, <1>8, <1>9, <1>10 DEF leavers, Leavers, At, Loop, Sharing
  <2> QED
    BY <1>20, <2>1, <2>2, GroupChanges DEF Changes
<1>23. n \in reports[p] /\ reports' = [reports EXCEPT ![p] = @ \ {n}]
  <2>1. \A q \in PEs : reports[q] = Reports(mail["to_couple_with"][q])
    BY DEF reports, Reports, InBox
  <2>2. \A q \in PEs : reports'[q] = Reports(mail'["to_couple_with"][q])
    BY DEF reports, Reports, InBox
  <2>3. \A q \in PEs : q # p => reports'[q] = reports[q]
    BY <1>5, <2>1, <2>2 DEF Mailboxes
  <2>4. n \in reports[p] /\ reports'[p] = reports[p] \ {n}
    BY <1>16, <2>1, <2>2
  <2> QED
    BY <2>3, <2>4, SentChanges DEF Changes
<1>24. C!Gather(p, n)
  BY <1>18, <1>19, <1>21, <1>22, <1>23 DEF C!Gather
<1> QED
  BY <1>17, <1>23, <1>24

\* A root that has heard of its whole cluster starts with it.
LEMMA GatheredImplements ==
  ASSUME CInv, C!IInv, NEW p \in PEs, Gathered(p) PROVE CInv' /\ C!Start(p)
<1> DEFINE new == [ctx[p] EXCEPT !.pc = "find", !.coupled_pes = ctx[p].prev_coupled_pes,
                                 !.received_from = {}, !.target_pe = 0]
<1>1. ctx[p] \in Context
  BY DEF CInv, TypeOK
<1>2. ctx[p].pc = "gather" /\ ctx[p].received_from = ctx[p].prev_coupled_pes
      /\ Set(p, new) /\ mail' = mail
  BY DEF Gathered, At
<1>3. 0 \in PEorNone
  BY NumberOfPEs DEF PEorNone, PEs
<1>4. /\ new \in Context /\ new.pc = "find" /\ new.coupled_pes = ctx[p].prev_coupled_pes
      /\ new.received_from = {} /\ new.prev_coupled_pes = ctx[p].prev_coupled_pes
      /\ new.terminating_pes = ctx[p].terminating_pes
      /\ new.coupled_pes_root = ctx[p].coupled_pes_root
      /\ new.cluster_dead = ctx[p].cluster_dead
      /\ new.prev_dead = ctx[p].prev_dead /\ new.terminating = ctx[p].terminating
  BY <1>1, <1>3 DEF Context, PC
<1> HIDE DEF new
<1>5. Moves(p, new) /\ ctx'[p] = new
  BY <1>2, <1>4, SetMoves DEF CInv, Moves
<1>6. Infos(p) = {}
  BY <1>2, NoInfos DEF At
<1>7. LosersWait' /\ \A q \in PEs : Infos(q)' = Infos(q)
  BY <1>2, <1>5, <1>6, LosersKept
<1>8. TypeOK'
  BY <1>2, <1>5, MailIsTyped, TypedAgain DEF Moves, Typed, CInv
<1>9. ~Last(p) /\ ~Last(p)' /\ \A q \in PEs : Last(q)' <=> Last(q)
  <2>1. ~Last(p) /\ ~Last(p)'
    BY <1>2, <1>4, <1>5 DEF Last, At
  <2> QED
    BY <1>5, <2>1, OthersSame
<1>10. stage[p] = "gather" /\ p \in cluster[p]
  <2>1. stage[p] = "gather"
    BY <1>2, <1>9 DEF stage, Stage, At
  <2> QED
    BY <2>1, C!RootIsMember DEF C!RootIsMember
<1>11. CInv'
  <2>1. OwnStage(p, new)
    BY <1>4, <1>10 DEF OwnStage, Loop, Sharing, cluster
  <2>2. Boxes'
    BY <1>2, <1>9 DEF CInv, Boxes
  <2> QED
    BY <1>5, <1>7, <1>8, <2>1, <2>2, StagesKept DEF CInv
<1>12. UNCHANGED <<reports, dead_news, news, values>>
  BY <1>2, <1>9 DEF reports, dead_news, news, Announced, values, InBox
<1>13. /\ stage'[p] = "wait" /\ cluster'[p] = cluster[p] /\ dead'[p] = dead[p]
       /\ old_dead'[p] = old_dead[p] /\ tosend'[p] = tosend[p]
       /\ told'[p] = told[p] /\ chosen'[p] = chosen[p] /\ root'[p] = root[p]
       /\ (p \in leaving' <=> p \in leaving) /\ (p \in announcing' <=> p \in announcing)
       /\ received'[p] = {} /\ received[p] = cluster[p]
  <2>1. Stage(p)' = "wait"
    BY <1>4, <1>5, <1>9 DEF Stage, At
  <2> QED
    BY <1>2, <1>4, <1>5, <1>9, <2>1 DEF stage, cluster, root, dead, old_dead, received,
       tosend, told, chosen, leaving, announcing, At, Sharing
<1>14. \A q \in PEs : q # p => SameSelf(q) /\ SameGroup(q)
  BY <1>5, <1>7, OthersSame, Elsewhere
<1>15. /\ UNCHANGED <<leaving, cluster, root, dead, old_dead, tosend, announcing, told, chosen>>
       /\ stage' = [stage EXCEPT ![p] = "wait"] /\ received' = [received EXCEPT ![p] = {}]
  BY <1>13, <1>14, OwnChanges DEF Changes
<1>16. /\ leavers' = leavers /\ group' = [group EXCEPT ![p] = cluster[p]]
       /\ held' = [held EXCEPT ![p] = cluster[p]]
  <2>1. leavers'[p] = leavers[p]
    BY <1>2, <1>4, <1>5 DEF leavers, Leavers, At, Loop, Sharing
  <2>2. group'[p] = cluster[p] /\ held'[p] = cluster[p]
    BY <1>4, <1>5 DEF group, held, Group, cluster, At, Loop, Sharing
  <2> QED
    BY <1>14, <2>1, <2>2, GroupChanges DEF Changes
<1>17. C!Start(p)
  BY <1>10, <1>12, <1>13, <1>15, <1>16 DEF C!Start, C!sent
<1> QED
  BY <1>11, <1>17

\* A report is sent where there is none of the same member.
LEMMA ReportSent ==
  ASSUME NEW s \in Seq(Message("to_couple_with")), OneEach(s), NEW m \in Message("to_couple_with"),
         \A n \in Reports(s) : n.pe # m.pe
  PROVE  Reports(Append(s, m)) = Reports(s) \cup {ReportOf(m)} /\ OneEach(Append(s, m))
<1>1. Elements(Append(s, m)) = Elements(s) \cup {m}
  BY AppendElements
<1>2. \A n \in Elements(s) : n.pe # m.pe
  <2>1. \A n \in Elements(s) : ReportOf(n) \in Reports(s)
    BY DEF Reports
  <2>2. \A n : ReportOf(n).pe = n.pe
    BY DEF ReportOf
  <2> QED
    BY <2>1, <2>2
<1>3. OneEach(Append(s, m))
  BY <1>2, AppendElements
<1> QED
  BY <1>1, <1>3 DEF Reports

\* Work reports to the root.
LEMMA WorkImplements == ASSUME CInv, C!IInv, NEW p \in PEs, Work(p) PROVE CInv' /\ C!Report(p)
<1>1. ctx[p] \in Context
  BY DEF CInv, TypeOK
<1>2. PICK W \in SUBSET PEs :
        LET all == ctx[p].coupled_pes \cup W
        IN /\ Send("to_couple_with", ctx[p].coupled_pes_root,
                   [pe |-> p, set |-> all \ ctx[p].prev_coupled_pes,
                    terminating |-> ctx[p].terminating])
           /\ IF ctx[p].coupled_pes_root = p
              THEN Set(p, [ctx[p] EXCEPT !.pc = "gather", !.coupled_pes = all,
                                   !.to_couple_with = {}, !.terminating_pes = {},
                                   !.received_from = ctx[p].cluster_dead])
              ELSE Set(p, [ctx[p] EXCEPT !.pc = "info", !.coupled_pes = all])
  <2>1. ctx[p].app.wants \in SUBSET PEs
    BY <1>1 DEF Context
  <2>2. \A W \in IF ctx[p].terminating THEN {{}} ELSE SUBSET ctx[p].app.wants : W \in SUBSET PEs
    BY <2>1
  <2> QED
    BY <2>2 DEF Work
<1>3. PICK all : all = ctx[p].coupled_pes \cup W
  OBVIOUS
<1>4. PICK m : m = [pe |-> p, set |-> all \ ctx[p].prev_coupled_pes,
                    terminating |-> ctx[p].terminating]
  OBVIOUS
<1>5. PICK to : to = ctx[p].coupled_pes_root
  OBVIOUS
<1>6. ctx[p].pc = "work" /\ mail' = Sent(mail, "to_couple_with", to, m)
  BY <1>2, <1>3, <1>4, <1>5 DEF Work, At, Send
<1>7. \E new \in Context :
        /\ Set(p, new) /\ new.prev_coupled_pes = ctx[p].prev_coupled_pes
        /\ new.coupled_pes_root = to /\ new.cluster_dead = ctx[p].cluster_dead
        /\ new.prev_dead = ctx[p].prev_dead /\ new.terminating = ctx[p].terminating
        /\ to = p => new.pc = "gather" /\ new.terminating_pes = {}
                     /\ new.received_from = ctx[p].cluster_dead
        /\ to # p => new.pc = "info" /\ new.received_from = ctx[p].received_from
  <2>1. all \in SUBSET PEs
    BY <1>1, <1>3 DEF Context
  <2>2. CASE to = p
    <3> DEFINE new == [ctx[p] EXCEPT !.pc = "gather", !.coupled_pes = all,
                                     !.to_couple_with = {}, !.terminating_pes = {},
                                     !.received_from = ctx[p].cluster_dead]
    <3>1. Set(p, new)
      BY <1>2, <1>3, <1>5, <2>2
    <3>2. /\ new \in Context /\ new.prev_coupled_pes = ctx[p].prev_coupled_pes
          /\ new.coupled_pes_root = to /\ new.cluster_dead = ctx[p].cluster_dead
          /\ new.prev_dead = ctx[p].prev_dead /\ new.terminating = ctx[p].terminating
          /\ new.pc = "gather" /\ new.terminating_pes = {}
          /\ new.received_from = ctx[p].cluster_dead
      BY <1>1, <1>5, <2>1 DEF Context, PC
    <3> HIDE DEF new
    <3> QED
      BY <2>2, <3>1, <3>2
  <2>3. CASE to # p
    <3> DEFINE new == [ctx[p] EXCEPT !.pc = "info", !.coupled_pes = all]
    <3>1. Set(p, new)
      BY <1>2, <1>3, <1>5, <2>3
    <3>2. /\ new \in Context /\ new.prev_coupled_pes = ctx[p].prev_coupled_pes
          /\ new.coupled_pes_root = to /\ new.cluster_dead = ctx[p].cluster_dead
          /\ new.prev_dead = ctx[p].prev_dead /\ new.terminating = ctx[p].terminating
          /\ new.pc = "info" /\ new.received_from = ctx[p].received_from
      BY <1>1, <1>5, <2>1 DEF Context, PC
    <3> HIDE DEF new
    <3> QED
      BY <2>3, <3>1, <3>2
  <2> QED
    BY <2>2, <2>3
<1>8. PICK new \in Context :
        /\ Set(p, new) /\ new.prev_coupled_pes = ctx[p].prev_coupled_pes
        /\ new.coupled_pes_root = to /\ new.cluster_dead = ctx[p].cluster_dead
        /\ new.prev_dead = ctx[p].prev_dead /\ new.terminating = ctx[p].terminating
        /\ to = p => new.pc = "gather" /\ new.terminating_pes = {}
                     /\ new.received_from = ctx[p].cluster_dead
        /\ to # p => new.pc = "info" /\ new.received_from = ctx[p].received_from
  BY <1>7
<1>9. m \in Message("to_couple_with") /\ m.pe = p
      /\ ReportOf(m) = [pe |-> p, leaving |-> leaving \cap {p}]
  <2>1. m \in [pe : PEs, set : SUBSET PEs, terminating : BOOLEAN]
    BY <1>1, <1>3, <1>4 DEF Context
  <2>2. (IF m.terminating THEN {p} ELSE {}) = leaving \cap {p}
    BY <1>4 DEF leaving
  <2> QED
    BY <1>4, <2>1, <2>2, MessageIs DEF ReportOf
<1>10. Moves(p, new) /\ ctx'[p] = new /\ new.pc \in {"gather", "info"}
  BY <1>8, SetMoves DEF CInv, Moves
<1>11. /\ Typed(mail')
       /\ \A b \in Mailboxes, y \in PEs :
            mail'[b][y] = IF b = "to_couple_with" /\ y = to /\ Alive(to)
                          THEN Append(mail[b][y], m) ELSE mail[b][y]
  BY <1>6, <1>9, SentIs, MailIsTyped DEF CInv, Mailboxes, Reaches
<1>12. Infos(p) = {}
  BY <1>6, NoInfos DEF At
<1>13. LosersWait' /\ \A q \in PEs : Infos(q)' = Infos(q)
  BY <1>10, <1>11, <1>12, LosersKept DEF Mailboxes
<1>14. TypeOK'
  BY <1>10, <1>11, TypedAgain DEF Moves, Typed
<1>15. ~Last(p) /\ ~Last(p)' /\ \A q \in PEs : Last(q)' <=> Last(q)
  <2>1. ~Last(p) /\ ~Last(p)'
    BY <1>6, <1>10 DEF Last, At
  <2> QED
    BY <1>10, <2>1, OthersSame
<1>16. stage[p] = "work"
  BY <1>6, <1>15 DEF stage, Stage, At
<1>17. \A q \in PEs : reports[q] = Reports(mail["to_couple_with"][q])
                      /\ reports'[q] = Reports(mail'["to_couple_with"][q])
  BY DEF reports, Reports, InBox
<1>18. \A q \in PEs : mail["to_couple_with"][q] \in Seq(Message("to_couple_with"))
                      /\ OneEach(mail["to_couple_with"][q])
                      /\ \A n \in Reports(mail["to_couple_with"][q]) : n.pe # m.pe
  <2>1. \A q \in PEs : \A n \in reports[q] : n.pe # p
    BY <1>16, C!WorkersHaveNotReported DEF C!WorkersHaveNotReported
  <2> QED
    BY <1>9, <1>17, <2>1 DEF CInv, TypeOK, Boxes, Mailboxes
<1>19. \A q \in PEs : /\ OneEach(mail'["to_couple_with"][q])
                      /\ q = to /\ Alive(to) => reports'[q] = reports[q] \cup {ReportOf(m)}
                      /\ ~(q = to /\ Alive(to)) => reports'[q] = reports[q]
  <2> SUFFICES ASSUME NEW q \in PEs
               PROVE  /\ OneEach(mail'["to_couple_with"][q])
                      /\ q = to /\ Alive(to) => reports'[q] = reports[q] \cup {ReportOf(m)}
                      /\ ~(q = to /\ Alive(to)) => reports'[q] = reports[q]
    OBVIOUS
  <2>1. CASE q = to /\ Alive(to)
    <3>1. mail'["to_couple_with"][q] = Append(mail["to_couple_with"][q], m)
      BY <1>11, <2>1 DEF Mailboxes
    <3> QED
      BY <1>9, <1>17, <1>18, <2>1, <3>1, ReportSent, ZenonT(60)
  <2>2. CASE ~(q = to /\ Alive(to))
    <3>1. mail'["to_couple_with"][q] = mail["to_couple_with"][q]
      BY <1>11, <2>2 DEF Mailboxes
    <3> QED
      BY <1>17, <1>18, <2>2, <3>1
  <2> QED
    BY <2>1, <2>2
<1>20. CInv'
  <2>1. OwnStage(p, new)
    BY <1>10 DEF OwnStage, Loop, Sharing
  <2>2. Boxes'
    BY <1>11, <1>15, <1>19 DEF CInv, Boxes, Mailboxes
  <2> QED
    BY <1>10, <1>13, <1>14, <2>1, <2>2, StagesKept DEF CInv
<1>21. UNCHANGED <<dead_news, news, values>>
  BY <1>11, <1>15 DEF dead_news, news, Announced, values, InBox, Mailboxes
<1>22. /\ cluster'[p] = cluster[p] /\ dead'[p] = dead[p]
       /\ old_dead'[p] = old_dead[p] /\ tosend'[p] = tosend[p]
       /\ told'[p] = told[p] /\ chosen'[p] = chosen[p] /\ root'[p] = root[p] /\ root[p] = to
       /\ (p \in leaving' <=> p \in leaving) /\ (p \in announcing' <=> p \in announcing)
       /\ to = p => stage'[p] = "gather" /\ received'[p] = dead[p]
       /\ to # p => stage'[p] = "wait" /\ received'[p] = received[p]
  <2>2. stage'[p] = Stage(p)' /\ received'[p] = new.received_from
        /\ received[p] = ctx[p].received_from /\ dead[p] = ctx[p].cluster_dead
    BY <1>10, <1>15 DEF stage, received, dead
  <2>1. (to = p => Stage(p)' = "gather") /\ (to # p => Stage(p)' = "wait")
    BY <1>8, <1>10, <1>15 DEF Stage, At
  <2>3. /\ to = p => stage'[p] = "gather" /\ received'[p] = dead[p]
        /\ to # p => stage'[p] = "wait" /\ received'[p] = received[p]
    BY <1>8, <2>1, <2>2
  <2>4. /\ cluster'[p] = cluster[p] /\ dead'[p] = dead[p] /\ old_dead'[p] = old_dead[p]
        /\ root'[p] = root[p] /\ root[p] = to /\ (p \in leaving' <=> p \in leaving)
    BY <1>5, <1>8, <1>10 DEF cluster, root, dead, old_dead, leaving
  <2>5. /\ tosend'[p] = tosend[p] /\ told'[p] = told[p] /\ chosen'[p] = chosen[p]
        /\ (p \in announcing' <=> p \in announcing)
    BY <1>6, <1>10 DEF tosend, told, chosen, announcing, At, Sharing
  <2> QED
    BY <2>3, <2>4, <2>5
<1>23. \A q \in PEs : q # p => SameSelf(q) /\ SameGroup(q)
  BY <1>10, <1>13, OthersSame, Elsewhere
<1>24. /\ UNCHANGED <<leaving, cluster, root, dead, old_dead, tosend, announcing, told, chosen>>
       /\ IF root[p] = p
          THEN stage' = [stage EXCEPT ![p] = "gather"] /\ received' = [received EXCEPT ![p] = dead[p]]
          ELSE stage' = [stage EXCEPT ![p] = "wait"] /\ received' = received
  BY <1>22, <1>23, OwnChanges DEF Changes
<1>25. UNCHANGED <<group, held, leavers>>
  <2>1. group'[p] = group[p] /\ held'[p] = held[p]
    BY <1>6, <1>10, <1>13 DEF group, held, Group, At, Loop, Sharing
  <2>2. leavers'[p] = {} /\ leavers[p] = {}
    <3>1. Infos(p)' = {} /\ Infos(p) = {}
      BY <1>12, <1>13
    <3> QED
      BY <1>6, <1>8, <1>10, <3>1 DEF leavers, Leavers, At, Loop, Sharing
  <2> QED
    BY <1>23, <2>1, <2>2, GroupChanges DEF Changes
<1>26. \/ to \in PEs /\ reports' = [reports EXCEPT ![to] = @ \cup {ReportOf(m)}]
       \/ (to \in PEs => C!Gone(to)) /\ reports' = reports
  <2>1. CASE Alive(to)
    <3>1. to \in PEs
      BY <2>1 DEF Alive
    <3> QED
      BY <1>19, <2>1, <3>1, SentChanges DEF Changes
  <2>2. CASE ~Alive(to)
    <3>1. to \in PEs => C!Gone(to)
      BY <2>2, GoneIs DEF C!Gone
    <3>2. reports' = reports
      BY <1>19, <2>2, SentChanges DEF Changes
    <3> QED
      BY <3>1, <3>2
  <2> QED
    BY <2>1, <2>2
<1>27. C!Report(p)
  BY <1>9, <1>16, <1>21, <1>22, <1>24, <1>25, <1>26 DEF C!Report, C!joining
<1> QED
  BY <1>20, <1>27
-----------------------------------------------------------------------------
(* The announcement *)

\* An announcement is sent to a PE that has none of its type on its way.
LEMMA AnnouncementSent ==
  ASSUME CInv, NEW q \in PEs, NEW m \in Message("coupling"),
         m.type \in {"all_terminated", "coupled"}, mail' = Sent(mail, "coupling", q, m),
         ~Last(q) => news[q] = {} /\ (m.type = "all_terminated" => dead_news[q] = {})
  PROVE  /\ Typed(mail')
         /\ \A b \in Mailboxes, y \in PEs : b # "coupling" => mail'[b][y] = mail[b][y]
         /\ \A y \in PEs : InOrder(mail'["coupling"][y])
         /\ \A y \in PEs : \A t : t # m.type => NewsIn(mail'["coupling"][y], t) = NewsIn(mail["coupling"][y], t)
         /\ \A y \in PEs : y # q \/ Last(q) =>
              NewsIn(mail'["coupling"][y], m.type) = NewsIn(mail["coupling"][y], m.type)
         /\ ~Last(q) => NewsIn(mail'["coupling"][q], m.type) =
                          NewsIn(mail["coupling"][q], m.type) \cup {[root |-> m.pe, set |-> m.set]}
<1>1. /\ Typed(mail')
      /\ \A x \in Mailboxes, y \in PEs :
           mail'[x][y] = IF x = "coupling" /\ y = q /\ Couples(q)
                         THEN Append(mail[x][y], m) ELSE mail[x][y]
  BY SentIs, MailIsTyped DEF CInv, Mailboxes, Reaches
<1>2. Couples(q) <=> ~Last(q)
  BY GoneIs
<1>3. \A y \in PEs : mail["coupling"][y] \in Seq(Message("coupling")) /\ InOrder(mail["coupling"][y])
  BY DEF CInv, TypeOK, Boxes, Mailboxes
<1>4. \A y \in PEs : y # q \/ Last(q) => mail'["coupling"][y] = mail["coupling"][y]
  BY <1>1, <1>2 DEF Mailboxes
<1>5. ASSUME ~Last(q)
      PROVE  /\ InOrder(mail'["coupling"][q])
             /\ \A t : t # m.type => NewsIn(mail'["coupling"][q], t) = NewsIn(mail["coupling"][q], t)
             /\ NewsIn(mail'["coupling"][q], m.type) =
                  NewsIn(mail["coupling"][q], m.type) \cup {[root |-> m.pe, set |-> m.set]}
  <2>1. mail'["coupling"][q] = Append(mail["coupling"][q], m)
    BY <1>1, <1>2, <1>5 DEF Mailboxes
  <2>2. NewsIn(mail["coupling"][q], "coupled") = {}
        /\ (m.type = "all_terminated" => NewsIn(mail["coupling"][q], "all_terminated") = {})
    BY <1>5 DEF news, dead_news, Announced
  <2>3. mail["coupling"][q] \in Seq(Message("coupling")) /\ InOrder(mail["coupling"][q])
    BY <1>3
  <2>4. InOrder(Append(mail["coupling"][q], m))
    BY <2>2, <2>3, AppendNews
  <2>5. /\ \A t : t # m.type =>
                NewsIn(Append(mail["coupling"][q], m), t) = NewsIn(mail["coupling"][q], t)
        /\ NewsIn(Append(mail["coupling"][q], m), m.type) =
             NewsIn(mail["coupling"][q], m.type) \cup {[root |-> m.pe, set |-> m.set]}
    BY <2>3, AppendNews
  <2> QED
    BY <2>1, <2>4, <2>5
<1> QED
  BY <1>1, <1>3, <1>4, <1>5 DEF Mailboxes

\* A root that announces says what its context says.
LEMMA AnnouncerIs ==
  ASSUME CInv, C!IInv, NEW p \in PEs, At(p, Sharing)
  PROVE  /\ p \in announcing /\ p \in ctx[p].coupled_pes /\ Least(ctx[p].todo) \in ctx[p].todo
         /\ ctx[p].todo \subseteq PEs
         /\ group[p] = ctx[p].coupled_pes /\ held[p] = ctx[p].todo
         /\ leavers[p] = ctx[p].terminating_pes /\ chosen[p] = new_root(p)
         /\ C!NewDead(p) = NewDead(ctx[p]) /\ NewDead(ctx[p]) \subseteq PEs
         /\ new_root(p) \in PEorNone
         /\ \A q \in held[p] : ~Last(q) => news[q] = {} /\ (told[p] = {} => dead_news[q] = {})
<1>1. ctx[p] \in Context
  BY DEF CInv, TypeOK
<1>2. p \in announcing /\ p \in ctx[p].coupled_pes /\ ctx[p].todo # {}
  BY DEF announcing, At, CInv, Stages, Sharing
<1>3. ctx[p].todo \subseteq PEs /\ Least(ctx[p].todo) \in ctx[p].todo
  BY <1>1, <1>2, LeastIsOne DEF Context
<1>4. group[p] = ctx[p].coupled_pes /\ held[p] = ctx[p].todo
         /\ leavers[p] = ctx[p].terminating_pes /\ chosen[p] = new_root(p)
  BY GroupIs DEF chosen
<1>5. dead[p] = ctx[p].cluster_dead
  BY DEF dead
<1>6. C!NewDead(p) = NewDead(ctx[p]) /\ NewDead(ctx[p]) \subseteq PEs
  BY <1>1, <1>4, <1>5 DEF C!NewDead, NewDead, Context
<1>7. new_root(p) \in PEorNone
  BY NewRootIs DEF NewRoots, CInv
<1>8. \A q \in held[p] : ~Last(q) => news[q] = {} /\ (told[p] = {} => dead_news[q] = {})
  <2>1. \A q \in held[p] : stage[q] # "left" =>
          news[q] = {} /\ (told[p] = {} => dead_news[q] = {})
    BY <1>2, C!HeldHearNothing DEF C!HeldHearNothing
  <2> QED
    BY <1>3, <1>4, <2>1, GoneIs
<1> QED
  BY <1>2, <1>3, <1>4, <1>6, <1>7, <1>8

\* The dead are announced first ...
LEMMA ShareDeadImplements ==
  ASSUME CInv, C!IInv, NEW p \in PEs, ShareDead(p)
  PROVE  CInv' /\ \E q \in PEs : C!TellDead(p, q)
<1>1. PICK q : q = Least(ctx[p].todo)
  OBVIOUS
<1>2. PICK m : m = AllTerminated(new_root(p), NewDead(ctx[p]))
  OBVIOUS
<1> DEFINE new == [ctx[p] EXCEPT !.pc = "share_coupled"]
<1>3. ctx[p] \in Context
  BY DEF CInv, TypeOK
<1>4. ctx[p].pc = "share" /\ At(p, Sharing) /\ Set(p, new) /\ mail' = Sent(mail, "coupling", q, m)
  BY <1>1, <1>2 DEF ShareDead, At, Sharing, Send
<1>5. new \in Context /\ new.pc = "share_coupled" /\ new.todo = ctx[p].todo /\ SameIn(ctx[p], new)
  BY <1>3 DEF Context, PC, SameIn
<1> HIDE DEF new
<1>6. Moves(p, new) /\ ctx'[p] = new
  BY <1>4, <1>5, SetMoves DEF CInv, Moves
<1>7. /\ p \in announcing /\ p \in ctx[p].coupled_pes /\ q \in ctx[p].todo
      /\ ctx[p].todo \subseteq PEs /\ q \in PEs /\ q \in held[p]
      /\ chosen[p] = new_root(p) /\ C!NewDead(p) = NewDead(ctx[p])
      /\ NewDead(ctx[p]) \subseteq PEs /\ new_root(p) \in PEorNone
      /\ \A x \in held[p] : ~Last(x) => news[x] = {} /\ (told[p] = {} => dead_news[x] = {})
  <2>1. At(p, Sharing)
    BY <1>4
  <2> QED
    BY <1>1, <2>1, AnnouncerIs
<1>8. told[p] = {}
  BY <1>4 DEF told, At
<1>9. m \in Message("coupling") /\ m.type = "all_terminated"
      /\ [root |-> m.pe, set |-> m.set] = [root |-> chosen[p], set |-> C!NewDead(p)]
  BY <1>2, <1>7, MessageIs DEF AllTerminated
<1>10. /\ Typed(mail')
       /\ \A b \in Mailboxes, y \in PEs : b # "coupling" => mail'[b][y] = mail[b][y]
       /\ \A y \in PEs : InOrder(mail'["coupling"][y])
       /\ \A y \in PEs : NewsIn(mail'["coupling"][y], "coupled") = NewsIn(mail["coupling"][y], "coupled")
       /\ \A y \in PEs : y # q \/ Last(q) =>
            NewsIn(mail'["coupling"][y], "all_terminated") = NewsIn(mail["coupling"][y], "all_terminated")
       /\ ~Last(q) => NewsIn(mail'["coupling"][q], "all_terminated") =
                        NewsIn(mail["coupling"][q], "all_terminated")
                          \cup {[root |-> m.pe, set |-> m.set]}
  <2>1. ~Last(q) => news[q] = {} /\ dead_news[q] = {}
    BY <1>7, <1>8
  <2> QED
    BY <1>4, <1>7, <1>9, <2>1, AnnouncementSent
<1>11. Infos(p) = {}
  BY <1>4, NoInfos DEF At
<1>12. LosersWait' /\ \A x \in PEs : Infos(x)' = Infos(x)
  BY <1>6, <1>10, <1>11, LosersKept DEF Mailboxes
<1>13. TypeOK'
  BY <1>6, <1>10, TypedAgain DEF Moves, Typed
<1>14. ~Last(p) /\ ~Last(p)' /\ \A x \in PEs : Last(x)' <=> Last(x)
  <2>1. ~Last(p) /\ ~Last(p)'
    BY <1>4, <1>5, <1>6 DEF Last, At
  <2> QED
    BY <1>6, <2>1, OthersSame
<1>15. CInv'
  <2>1. OwnStage(p, new)
    BY <1>5, <1>7 DEF OwnStage, Loop, Sharing, SameIn
  <2>2. Boxes'
    BY <1>10, <1>14 DEF CInv, Boxes, Mailboxes
  <2> QED
    BY <1>6, <1>12, <1>13, <2>1, <2>2, StagesKept DEF CInv
<1>16. UNCHANGED <<reports, news, values>>
  BY <1>10, <1>14 DEF reports, news, Announced, values, InBox, Mailboxes
<1>17. dead_news' = IF C!Gone(q) THEN dead_news
                    ELSE [dead_news EXCEPT ![q] = @ \cup {[root |-> chosen[p], set |-> C!NewDead(p)]}]
  <2>1. C!Gone(q) <=> Last(q)
    BY <1>7, GoneIs DEF C!Gone
  <2>2. \A y \in PEs : dead_news[y] = NewsIn(mail["coupling"][y], "all_terminated")
                       /\ dead_news'[y] = NewsIn(mail'["coupling"][y], "all_terminated")
    BY DEF dead_news, Announced
  <2>3. Changes(dead_news, dead_news', q)
    BY <1>7, <1>10, <2>2, SentChanges
  <2>4. CASE Last(q)
    <3>1. dead_news'[q] = dead_news[q]
      BY <1>7, <1>10, <2>2, <2>4
    <3> QED
      BY <2>1, <2>3, <2>4, <3>1 DEF Changes
  <2>5. CASE ~Last(q)
    <3>1. dead_news'[q] = dead_news[q] \cup {[root |-> m.pe, set |-> m.set]}
      BY <1>7, <1>10, <2>2, <2>5
    <3> QED
      BY <1>9, <2>1, <2>3, <2>5, <3>1 DEF Changes
  <2> QED
    BY <2>4, <2>5
<1>18. /\ stage'[p] = stage[p] /\ cluster'[p] = cluster[p] /\ dead'[p] = dead[p]
       /\ old_dead'[p] = old_dead[p] /\ tosend'[p] = tosend[p] /\ received'[p] = received[p]
       /\ root'[p] = root[p] /\ chosen'[p] = chosen[p] /\ told'[p] = {q}
       /\ (p \in leaving' <=> p \in leaving) /\ (p \in announcing' <=> p \in announcing)
  <2>1. Stage(p)' = "wait" /\ Stage(p) = "wait"
    BY <1>4, <1>5, <1>6, <1>14 DEF Stage, At
  <2>2. new_root(p)' = new_root(p)
    BY <1>5, <1>6 DEF new_root, NewDead, SameIn
  <2>3. /\ stage'[p] = stage[p] /\ cluster'[p] = cluster[p] /\ dead'[p] = dead[p]
        /\ old_dead'[p] = old_dead[p] /\ received'[p] = received[p] /\ root'[p] = root[p]
        /\ (p \in leaving' <=> p \in leaving)
    BY <1>5, <1>6, <1>14, <2>1 DEF stage, cluster, root, dead, old_dead, received, leaving, SameIn
  <2>4. /\ tosend'[p] = tosend[p] /\ chosen'[p] = chosen[p] /\ told'[p] = {q}
        /\ (p \in announcing' <=> p \in announcing)
    BY <1>1, <1>4, <1>5, <1>6, <2>2 DEF tosend, told, chosen, announcing, At, Sharing
  <2> QED
    BY <2>3, <2>4
<1>19. \A x \in PEs : x # p => SameSelf(x) /\ SameGroup(x)
  BY <1>6, <1>12, OthersSame, Elsewhere
<1>20. /\ UNCHANGED <<stage, leaving, cluster, root, dead, old_dead, received, tosend, announcing,
                      chosen>>
       /\ told' = [told EXCEPT ![p] = {q}]
  BY <1>18, <1>19, OwnChanges DEF Changes
<1>21. UNCHANGED <<group, held, leavers>>
  <2>1. group'[p] = group[p] /\ held'[p] = held[p] /\ leavers'[p] = leavers[p]
    BY <1>4, <1>5, <1>6 DEF group, held, leavers, Group, Leavers, At, Loop, Sharing, SameIn
  <2> QED
    BY <1>19, <2>1, GroupChanges DEF Changes
<1>22. C!TellDead(p, q)
  BY <1>7, <1>8, <1>16, <1>17, <1>20, <1>21 DEF C!TellDead, C!own
<1> QED
  BY <1>7, <1>15, <1>22

\* ... and the cluster next; with the last member told, the group is no more.
LEMMA ShareCoupledImplements ==
  ASSUME CInv, C!IInv, NEW p \in PEs, ShareCoupled(p)
  PROVE  CInv' /\ \E q \in PEs : C!Tell(p, q)
<1>1. PICK q : q = Least(ctx[p].todo)
  OBVIOUS
<1>2. PICK m : m = Coupled(new_root(p), ctx[p].coupled_pes)
  OBVIOUS
<1> DEFINE rest == ctx[p].todo \ {q}
           at   == IF ctx[p].todo = {q} THEN "info_root" ELSE "share"
           new  == [ctx[p] EXCEPT !.todo = rest, !.pc = at]
<1>3. ctx[p] \in Context
  BY DEF CInv, TypeOK
<1>4. ctx[p].pc = "share_coupled" /\ At(p, Sharing) /\ Set(p, new)
      /\ mail' = Sent(mail, "coupling", q, m)
  BY <1>1, <1>2 DEF ShareCoupled, At, Sharing, Send, AfterShare
<1>5. at \in {"info_root", "share"} /\ (at = "share" <=> ctx[p].todo # {q}) /\ rest \in SUBSET PEs
  BY <1>3 DEF Context
<1> HIDE DEF at
<1>6. new \in Context /\ new.pc = at /\ new.todo = rest /\ SameIn(ctx[p], new)
  BY <1>3, <1>5 DEF Context, PC, SameIn
<1> HIDE DEF new
<1>7. Moves(p, new) /\ ctx'[p] = new
  BY <1>4, <1>6, SetMoves DEF CInv, Moves
<1>8. /\ p \in announcing /\ p \in ctx[p].coupled_pes /\ q \in ctx[p].todo
      /\ q \in PEs /\ q \in held[p] /\ held[p] = ctx[p].todo /\ group[p] = ctx[p].coupled_pes
      /\ leavers[p] = ctx[p].terminating_pes
      /\ chosen[p] = new_root(p) /\ new_root(p) \in PEorNone
      /\ \A x \in held[p] : ~Last(x) => news[x] = {} /\ (told[p] = {} => dead_news[x] = {})
  <2>1. At(p, Sharing)
    BY <1>4
  <2> QED
    BY <1>1, <2>1, AnnouncerIs
<1>9. told[p] = {q}
  BY <1>1, <1>4 DEF told, At
<1>10. m \in Message("coupling") /\ m.type = "coupled"
       /\ [root |-> m.pe, set |-> m.set] = [root |-> chosen[p], set |-> group[p]]
  <2>1. ctx[p].coupled_pes \in SUBSET PEs
    BY <1>3 DEF Context
  <2> QED
    BY <1>2, <1>8, <2>1, MessageIs DEF Coupled
<1>11. /\ Typed(mail')
       /\ \A b \in Mailboxes, y \in PEs : b # "coupling" => mail'[b][y] = mail[b][y]
       /\ \A y \in PEs : InOrder(mail'["coupling"][y])
       /\ \A y \in PEs :
            NewsIn(mail'["coupling"][y], "all_terminated") = NewsIn(mail["coupling"][y], "all_terminated")
       /\ \A y \in PEs : y # q \/ Last(q) =>
            NewsIn(mail'["coupling"][y], "coupled") = NewsIn(mail["coupling"][y], "coupled")
       /\ ~Last(q) => NewsIn(mail'["coupling"][q], "coupled") =
                        NewsIn(mail["coupling"][q], "coupled") \cup {[root |-> m.pe, set |-> m.set]}
  <2>1. ~Last(q) => news[q] = {}
    BY <1>8
  <2> QED
    BY <1>4, <1>8, <1>10, <2>1, AnnouncementSent, SMTT(30)
<1>12. Infos(p) = {}
  BY <1>4, NoInfos DEF At
<1>13. LosersWait' /\ \A x \in PEs : Infos(x)' = Infos(x)
  BY <1>7, <1>11, <1>12, LosersKept DEF Mailboxes
<1>14. TypeOK'
  BY <1>7, <1>11, TypedAgain DEF Moves, Typed
<1>15. ~Last(p) /\ ~Last(p)' /\ \A x \in PEs : Last(x)' <=> Last(x)
  <2>1. ~Last(p) /\ ~Last(p)'
    BY <1>4, <1>5, <1>6, <1>7 DEF Last, At
  <2> QED
    BY <1>7, <2>1, OthersSame
<1>16. CInv'
  <2>1. OwnStage(p, new)
    BY <1>5, <1>6, <1>8 DEF OwnStage, Loop, Sharing, SameIn
  <2>2. Boxes'
    BY <1>11, <1>15 DEF CInv, Boxes, Mailboxes
  <2> QED
    BY <1>7, <1>13, <1>14, <2>1, <2>2, StagesKept DEF CInv
<1>17. UNCHANGED <<reports, dead_news, values>>
  BY <1>11, <1>15 DEF reports, dead_news, Announced, values, InBox, Mailboxes
<1>18. news' = IF C!Gone(q) THEN news
               ELSE [news EXCEPT ![q] = @ \cup {[root |-> chosen[p], set |-> group[p]]}]
  <2>1. C!Gone(q) <=> Last(q)
    BY <1>8, GoneIs DEF C!Gone
  <2>2. \A y \in PEs : news[y] = NewsIn(mail["coupling"][y], "coupled")
                       /\ news'[y] = NewsIn(mail'["coupling"][y], "coupled")
    BY DEF news, Announced
  <2>3. Changes(news, news', q)
    BY <1>8, <1>11, <2>2, SentChanges
  <2>4. CASE Last(q)
    <3>1. news'[q] = news[q]
      BY <1>8, <1>11, <2>2, <2>4
    <3> QED
      BY <2>1, <2>3, <2>4, <3>1 DEF Changes
  <2>5. CASE ~Last(q)
    <3>1. news'[q] = news[q] \cup {[root |-> m.pe, set |-> m.set]}
      BY <1>8, <1>11, <2>2, <2>5
    <3> QED
      BY <1>10, <2>1, <2>3, <2>5, <3>1 DEF Changes
  <2> QED
    BY <2>4, <2>5
<1>19. /\ stage'[p] = stage[p] /\ cluster'[p] = cluster[p] /\ dead'[p] = dead[p]
       /\ old_dead'[p] = old_dead[p] /\ tosend'[p] = tosend[p] /\ received'[p] = received[p]
       /\ root'[p] = root[p] /\ told'[p] = {} /\ (p \in leaving' <=> p \in leaving)
  <2>1. Stage(p)' = "wait" /\ Stage(p) = "wait"
    BY <1>4, <1>5, <1>6, <1>7, <1>15 DEF Stage, At
  <2>2. /\ stage'[p] = stage[p] /\ cluster'[p] = cluster[p] /\ dead'[p] = dead[p]
        /\ old_dead'[p] = old_dead[p] /\ received'[p] = received[p] /\ root'[p] = root[p]
        /\ (p \in leaving' <=> p \in leaving)
    BY <1>6, <1>7, <1>15, <2>1 DEF stage, cluster, root, dead, old_dead, received, leaving, SameIn
  <2>3. tosend'[p] = tosend[p] /\ told'[p] = {}
    BY <1>4, <1>5, <1>6, <1>7 DEF tosend, told, At
  <2> QED
    BY <2>2, <2>3
<1>20. \A x \in PEs : x # p => SameSelf(x) /\ SameGroup(x)
  BY <1>7, <1>13, OthersSame, Elsewhere
<1>21. /\ UNCHANGED <<stage, leaving, cluster, root, dead, old_dead, received, tosend>>
       /\ told' = [told EXCEPT ![p] = {}]
  BY <1>19, <1>20, OwnChanges DEF Changes
<1>22. Changes(group, group', p) /\ Changes(held, held', p) /\ Changes(leavers, leavers', p)
       /\ Changes(chosen, chosen', p)
  BY <1>20, OwnChanges, GroupChanges
<1>23. CASE ctx[p].todo = {q}
  <2>1. ctx'[p].pc = "info_root"
    BY <1>5, <1>6, <1>7, <1>23
  <2>2. Infos(p)' = {}
    BY <1>12, <1>13
  <2>3. group'[p] = {} /\ held'[p] = {} /\ leavers'[p] = {}
    BY <2>1, <2>2 DEF group, held, leavers, Group, Leavers, At, Loop, Sharing
  <2>4. chosen'[p] = -1 /\ p \notin announcing'
    BY <2>1 DEF chosen, announcing, At, Sharing
  <2>5. announcing' = announcing \ {p}
    <3>1. \A x \in PEs : x # p => (x \in announcing' <=> x \in announcing)
      BY <1>20 DEF SameSelf
    <3> QED
      BY <2>4, <3>1 DEF announcing
  <2>6. /\ group' = [group EXCEPT ![p] = {}] /\ leavers' = [leavers EXCEPT ![p] = {}]
        /\ chosen' = [chosen EXCEPT ![p] = -1] /\ held' = [held EXCEPT ![p] = @ \ {q}]
    BY <1>8, <1>22, <1>23, <2>3, <2>4 DEF Changes
  <2>7. C!Tell(p, q)
    BY <1>8, <1>9, <1>17, <1>18, <1>21, <1>23, <2>5, <2>6 DEF C!Tell, C!own
  <2> QED
    BY <1>8, <1>16, <2>7
<1>24. CASE ctx[p].todo # {q}
  <2>1. ctx'[p].pc = "share" /\ ctx'[p].todo = rest
    BY <1>5, <1>6, <1>7, <1>24
  <2>2. group'[p] = group[p] /\ held'[p] = held[p] \ {q} /\ leavers'[p] = leavers[p]
    BY <1>6, <1>7, <1>8, <2>1 DEF group, held, leavers, Group, Leavers, At, Loop, Sharing, SameIn
  <2>3. chosen'[p] = chosen[p] /\ p \in announcing'
    <3>1. new_root(p)' = new_root(p)
      BY <1>6, <1>7 DEF new_root, NewDead, SameIn
    <3> QED
      BY <1>8, <2>1, <3>1 DEF chosen, announcing, At, Sharing
  <2>4. announcing' = announcing
    BY <1>8, <1>20, <2>3, OwnChanges
  <2>5. UNCHANGED <<group, leavers, chosen>> /\ held' = [held EXCEPT ![p] = @ \ {q}]
    BY <1>22, <2>2, <2>3 DEF Changes
  <2>6. C!Tell(p, q)
    BY <1>8, <1>9, <1>17, <1>18, <1>21, <1>24, <2>4, <2>5 DEF C!Tell, C!own
  <2> QED
    BY <1>8, <1>16, <2>6
<1> QED
  BY <1>23, <1>24

\* A request that comes too late is answered or put back.
LEMMA InfoRequestImplements ==
  ASSUME CInv, C!IInv, NEW p \in PEs, InfoRequest(p) PROVE CInv' /\ UNCHANGED C!vars
<1>1. PICK m : m = First("coupling", p)
  OBVIOUS
<1>2. m.type = "request" /\ Waiting("coupling", p) /\ ctx' = ctx
  BY <1>1 DEF InfoRequest, Informed
<1>3. mail["coupling"][p] \in Seq(Message("coupling")) /\ mail["coupling"][p] # <<>>
      /\ InOrder(mail["coupling"][p])
  BY <1>2 DEF CInv, TypeOK, Mailboxes, Waiting, Boxes
<1>4. m \in Message("coupling") /\ m.pe \in PEs /\ m = Request(m.pe)
  <2>1. m \in Message("coupling")
    BY <1>1, <1>3 DEF First
  <2>2. m \in [type : {"request"}, pe : PEs]
    BY <1>2, <2>1, MessageIs
  <2> QED
    BY <2>1, <2>2 DEF Request
<1>5. Talk(mail, Received(mail, "coupling", p))
  BY <1>1, <1>2, <1>3, TalkTaken, MailIsTyped DEF CInv, First
<1>6. Talk(mail, mail')
  <2>1. Typed(Received(mail, "coupling", p))
    BY <1>5 DEF Talk
  <2>2. CASE At(p, {"info_root"})
    <3>1. mail' = Sent(Received(mail, "coupling", p), "coupling", p, Request(m.pe))
      BY <1>1, <1>4, <2>2 DEF InfoRequest, Answer
    <3> QED
      BY <1>4, <1>5, <2>1, <3>1, TalkRequest, TalkOn
  <2>3. CASE ~At(p, {"info_root"})
    <3>1. mail' = Sent(Received(mail, "coupling", p), "ack_dead", m.pe,
                       Ack(p, ctx[p].coupled_pes_root, FALSE))
      BY <1>1, <2>3 DEF InfoRequest, Answer
    <3>2. Ack(p, ctx[p].coupled_pes_root, FALSE) \in Message("ack_dead")
      BY AckIsMessage DEF CInv
    <3> QED
      BY <1>5, <2>1, <3>1, <3>2, TalkAck, TalkOn
  <2> QED
    BY <2>2, <2>3
<1>7. \A q \in PEs : Unchanged(q)
  <2>1. \A q \in PEs : ctx'[q] = ctx[q]
    BY <1>2
  <2> QED
    BY <1>6, <2>1, Elsewhere, TalkMeansNothing DEF Unchanged
<1>8. CInv'
  <2>1. TypeOK'
    BY <1>2, <1>6, TypedAgain DEF CInv, TypeOK, Talk, Typed
  <2>2. Stages'
    BY <1>2 DEF CInv, Stages, At
  <2>3. Boxes'
    <3>1. \A q \in PEs : Last(q)' <=> Last(q)
      BY <1>2 DEF Last, At
    <3> QED
      BY <1>6, <3>1 DEF CInv, Boxes, Talk
  <2>4. LosersWait'
    BY <1>2, <1>6, TalkMeansNothing DEF CInv, LosersWait, InBox, At
  <2> QED
    BY <2>1, <2>2, <2>3, <2>4 DEF CInv
<1> QED
  BY <1>7, <1>8, Stutters

\* An announcement is taken out of the coupling_mailbox.
LEMMA AnnouncementTaken ==
  ASSUME CInv, NEW p \in PEs, Waiting("coupling", p), mail' = Received(mail, "coupling", p),
         NEW m, m = First("coupling", p), NEW t \in {"all_terminated", "coupled"}, m.type = t,
         NEW n, n = [root |-> m.pe, set |-> m.set]
  PROVE  /\ Typed(mail') /\ m.pe \in PEorNone /\ m.set \in SUBSET PEs
         /\ \A b \in Mailboxes, q \in PEs : b # "coupling" => mail'[b][q] = mail[b][q]
         /\ \A q \in PEs : InOrder(mail'["coupling"][q])
         /\ \A q \in PEs : \A u : q # p \/ u # t =>
              NewsIn(mail'["coupling"][q], u) = NewsIn(mail["coupling"][q], u)
         /\ NewsIn(mail["coupling"][p], t) = {n} /\ NewsIn(mail'["coupling"][p], t) = {}
         /\ t = "coupled" => NewsIn(mail["coupling"][p], "all_terminated") = {}
<1>1. /\ Typed(mail') /\ m \in Message("coupling")
      /\ \A x \in Mailboxes, y \in PEs :
           mail'[x][y] = IF x = "coupling" /\ y = p THEN Tail(mail[x][y]) ELSE mail[x][y]
  BY ReceivedIs, MailIsTyped DEF CInv, Mailboxes, Waiting, First
<1>2. m \in [type : {"all_terminated", "coupled"}, pe : PEorNone, set : SUBSET PEs]
  BY <1>1, MessageIs
<1>3. \A q \in PEs : mail["coupling"][q] \in Seq(Message("coupling")) /\ InOrder(mail["coupling"][q])
  BY DEF CInv, TypeOK, Boxes, Mailboxes
<1>4. mail["coupling"][p] # <<>> /\ m = Head(mail["coupling"][p])
      /\ mail'["coupling"][p] = Tail(mail["coupling"][p])
  BY <1>1 DEF Waiting, First, Mailboxes
<1>5. /\ InOrder(Tail(mail["coupling"][p]))
      /\ \A u : u # m.type => NewsIn(Tail(mail["coupling"][p]), u) = NewsIn(mail["coupling"][p], u)
      /\ m.type # "request" => /\ NewsIn(Tail(mail["coupling"][p]), m.type) = {}
                               /\ NewsIn(mail["coupling"][p], m.type) = {n}
      /\ m.type = "coupled" => NewsIn(mail["coupling"][p], "all_terminated") = {}
  BY <1>3, <1>4, TailNews, ZenonT(60)
<1>6. \A q \in PEs : q # p => mail'["coupling"][q] = mail["coupling"][q]
  BY <1>1 DEF Mailboxes
<1> QED
  BY <1>1, <1>2, <1>3, <1>4, <1>5, <1>6 DEF Mailboxes

\* A member learns who leaves.
LEMMA InfoDeadImplements ==
  ASSUME CInv, C!IInv, NEW p \in PEs, InfoDead(p)
  PROVE  CInv' /\ \E n \in dead_news[p] : C!TakeDead(p, n)
<1>1. PICK m : m = First("coupling", p)
  OBVIOUS
<1>2. PICK n : n = [root |-> m.pe, set |-> m.set]
  OBVIOUS
<1> DEFINE new == [ctx[p] EXCEPT !.prev_dead = ctx[p].cluster_dead, !.cluster_dead = m.set,
                                 !.coupled_pes_root = m.pe]
<1>3. ctx[p] \in Context
  BY DEF CInv, TypeOK
<1>4. ctx[p].pc \in {"info", "info_root"} /\ Waiting("coupling", p) /\ m.type = "all_terminated"
      /\ mail' = Received(mail, "coupling", p) /\ Set(p, new)
  BY <1>1 DEF InfoDead, Informed, At, Receive
<1>5. /\ Typed(mail') /\ m.pe \in PEorNone /\ m.set \in SUBSET PEs
      /\ \A b \in Mailboxes, q \in PEs : b # "coupling" => mail'[b][q] = mail[b][q]
      /\ \A q \in PEs : InOrder(mail'["coupling"][q])
      /\ \A q \in PEs : \A u : q # p \/ u # "all_terminated" =>
           NewsIn(mail'["coupling"][q], u) = NewsIn(mail["coupling"][q], u)
      /\ NewsIn(mail["coupling"][p], "all_terminated") = {n}
      /\ NewsIn(mail'["coupling"][p], "all_terminated") = {}
  BY <1>1, <1>2, <1>4, AnnouncementTaken
<1>6. /\ new \in Context /\ new.pc = ctx[p].pc /\ new.coupled_pes_root = n.root
      /\ new.cluster_dead = n.set /\ new.prev_dead = ctx[p].cluster_dead
      /\ new.prev_coupled_pes = ctx[p].prev_coupled_pes
      /\ new.received_from = ctx[p].received_from /\ new.terminating = ctx[p].terminating
  BY <1>2, <1>3, <1>5 DEF Context
<1> HIDE DEF new
<1>7. Moves(p, new) /\ ctx'[p] = new
  BY <1>4, <1>6, SetMoves DEF CInv, Moves
<1>8. LosersWait' /\ \A q \in PEs : Infos(q)' = Infos(q)
  <2>1. new.pc = "info" \/ Infos(p) = {}
    BY <1>4, <1>6, NoInfos DEF At
  <2> QED
    BY <1>5, <1>7, <2>1, LosersKept DEF Mailboxes
<1>9. TypeOK'
  BY <1>5, <1>7, TypedAgain DEF Moves, Typed
<1>10. ~Last(p) /\ ~Last(p)' /\ \A x \in PEs : Last(x)' <=> Last(x)
  <2>1. ~Last(p) /\ ~Last(p)'
    BY <1>4, <1>6, <1>7 DEF Last, At
  <2> QED
    BY <1>7, <2>1, OthersSame
<1>11. CInv'
  <2>1. OwnStage(p, new)
    BY <1>4, <1>6 DEF OwnStage, Loop, Sharing
  <2>2. Boxes'
    BY <1>5, <1>10 DEF CInv, Boxes, Mailboxes
  <2> QED
    BY <1>7, <1>8, <1>9, <2>1, <2>2, StagesKept DEF CInv
<1>12. UNCHANGED <<reports, news, values>>
  BY <1>5, <1>10 DEF reports, news, Announced, values, InBox, Mailboxes
<1>13. n \in dead_news[p] /\ dead_news' = [dead_news EXCEPT ![p] = @ \ {n}]
  <2>1. \A y \in PEs : dead_news[y] = NewsIn(mail["coupling"][y], "all_terminated")
                       /\ dead_news'[y] = NewsIn(mail'["coupling"][y], "all_terminated")
    BY DEF dead_news, Announced
  <2>2. dead_news[p] = {n} /\ dead_news'[p] = {} /\ \A q \in PEs : q # p => dead_news'[q] = dead_news[q]
    BY <1>5, <2>1
  <2>3. dead_news'[p] = dead_news[p] \ {n}
    BY <2>2
  <2> QED
    BY <2>2, <2>3, SentChanges DEF Changes
<1>14. /\ stage'[p] = stage[p] /\ stage[p] = "wait" /\ cluster'[p] = cluster[p]
       /\ dead'[p] = n.set /\ old_dead'[p] = dead[p] /\ root'[p] = n.root
       /\ tosend'[p] = tosend[p] /\ received'[p] = received[p]
       /\ told'[p] = told[p] /\ chosen'[p] = chosen[p]
       /\ (p \in leaving' <=> p \in leaving) /\ (p \in announcing' <=> p \in announcing)
       /\ p \notin announcing
  <2>1. Stage(p)' = "wait" /\ Stage(p) = "wait"
    BY <1>4, <1>6, <1>7, <1>10 DEF Stage, At
  <2>2. /\ stage'[p] = stage[p] /\ stage[p] = "wait" /\ cluster'[p] = cluster[p]
        /\ dead'[p] = n.set /\ old_dead'[p] = dead[p] /\ root'[p] = n.root
        /\ received'[p] = received[p] /\ (p \in leaving' <=> p \in leaving)
    BY <1>6, <1>7, <1>10, <2>1 DEF stage, cluster, root, dead, old_dead, received, leaving
  <2>3. /\ tosend'[p] = tosend[p] /\ told'[p] = told[p] /\ chosen'[p] = chosen[p]
        /\ (p \in announcing' <=> p \in announcing) /\ p \notin announcing
    BY <1>4, <1>6, <1>7 DEF tosend, told, chosen, announcing, At, Sharing
  <2> QED
    BY <2>2, <2>3
<1>15. \A x \in PEs : x # p => SameSelf(x) /\ SameGroup(x)
  BY <1>7, <1>8, OthersSame, Elsewhere
<1>16. /\ UNCHANGED <<stage, leaving, cluster, received, tosend, announcing, told, chosen>>
       /\ dead' = [dead EXCEPT ![p] = n.set] /\ old_dead' = [old_dead EXCEPT ![p] = dead[p]]
       /\ root' = [root EXCEPT ![p] = n.root]
  BY <1>14, <1>15, OwnChanges DEF Changes
<1>17. UNCHANGED <<group, held, leavers>>
  <2>1. group'[p] = group[p] /\ held'[p] = held[p] /\ leavers'[p] = leavers[p]
    BY <1>4, <1>6, <1>7, <1>8 DEF group, held, leavers, Group, Leavers, At, Loop, Sharing
  <2> QED
    BY <1>15, <2>1, GroupChanges DEF Changes
<1>18. C!TakeDead(p, n)
  BY <1>12, <1>13, <1>14, <1>16, <1>17 DEF C!TakeDead, C!joining
<1> QED
  BY <1>11, <1>13, <1>18

\* A member takes its cluster, and knows whom to exchange values with.
LEMMA InfoCoupledImplements ==
  ASSUME CInv, C!IInv, NEW p \in PEs, InfoCoupled(p)
  PROVE  CInv' /\ \E n \in news[p] : C!Take(p, n)
<1>1. PICK m : m = First("coupling", p)
  OBVIOUS
<1>2. PICK n : n = [root |-> m.pe, set |-> m.set]
  OBVIOUS
<1> DEFINE rec  == m.set \cap ctx[p].prev_dead
           need == m.set \ ctx[p].prev_dead
           new  == [ctx[p] EXCEPT !.pc = "values", !.coupled_pes = m.set,
                                  !.prev_coupled_pes = m.set, !.coupled_pes_root = m.pe,
                                  !.received_from = rec, !.todo = need,
                                  !.to_couple_with = {}, !.terminating_pes = {},
                                  !.target_pe = 0, !.peer = p]
<1>3. ctx[p] \in Context
  BY DEF CInv, TypeOK
<1>4. ctx[p].pc \in {"info", "info_root"} /\ Waiting("coupling", p) /\ m.type = "coupled"
      /\ mail' = Received(mail, "coupling", p) /\ Set(p, new)
  BY <1>1 DEF InfoCoupled, Informed, At, Receive
<1>5. /\ Typed(mail') /\ m.pe \in PEorNone /\ m.set \in SUBSET PEs
      /\ \A b \in Mailboxes, q \in PEs : b # "coupling" => mail'[b][q] = mail[b][q]
      /\ \A q \in PEs : InOrder(mail'["coupling"][q])
      /\ \A q \in PEs : \A u : q # p \/ u # "coupled" =>
           NewsIn(mail'["coupling"][q], u) = NewsIn(mail["coupling"][q], u)
      /\ NewsIn(mail["coupling"][p], "coupled") = {n}
      /\ NewsIn(mail'["coupling"][p], "coupled") = {}
      /\ NewsIn(mail["coupling"][p], "all_terminated") = {}
  BY <1>1, <1>2, <1>4, AnnouncementTaken
<1>6. rec \in SUBSET PEs /\ need \in SUBSET PEs /\ 0 \in PEorNone /\ p \in PEorNone
  BY <1>5, NumberOfPEs DEF PEorNone, PEs
<1>7. rec = n.set \cap ctx[p].prev_dead /\ need = n.set \ ctx[p].prev_dead
  BY <1>2
<1> HIDE DEF rec, need
<1>8. /\ new \in Context /\ new.pc = "values" /\ new.coupled_pes_root = n.root
      /\ new.coupled_pes = n.set /\ new.prev_coupled_pes = n.set
      /\ new.cluster_dead = ctx[p].cluster_dead /\ new.prev_dead = ctx[p].prev_dead
      /\ new.received_from = rec /\ new.todo = need /\ new.terminating = ctx[p].terminating
  BY <1>2, <1>3, <1>5, <1>6 DEF Context, PC
<1> HIDE DEF new
<1>9. Moves(p, new) /\ ctx'[p] = new
  BY <1>4, <1>8, SetMoves DEF CInv, Moves
<1>10. dead_news[p] = {} /\ n \in news[p] /\ news' = [news EXCEPT ![p] = @ \ {n}]
       /\ dead_news' = dead_news
  <2>1. \A y \in PEs : news[y] = NewsIn(mail["coupling"][y], "coupled")
                       /\ news'[y] = NewsIn(mail'["coupling"][y], "coupled")
    BY DEF news, Announced
  <2>2. news[p] = {n} /\ news'[p] = {} /\ \A q \in PEs : q # p => news'[q] = news[q]
    BY <1>5, <2>1
  <2>3. news'[p] = news[p] \ {n}
    BY <2>2
  <2>4. dead_news[p] = {} /\ dead_news' = dead_news
    BY <1>5 DEF dead_news, Announced
  <2> QED
    BY <2>2, <2>3, <2>4, SentChanges DEF Changes
<1>11. p \notin announcing
  BY <1>4 DEF announcing, At, Sharing
<1>12. Infos(p) = {}
  <2>1. group[p] = {}
    <3>1. group[p] # {} => news[p] = {}
      BY <1>11, C!JoiningHearsNothing DEF C!JoiningHearsNothing
    <3> QED
      BY <1>10, <3>1
  <2>2. \A i \in Infos(p) : p \in i.coupled
    BY OneInfo
  <2>3. group[p] = UNION {i.coupled : i \in Infos(p)}
    BY <1>4, GroupIs DEF At, Loop, Sharing
  <2> QED
    BY <2>1, <2>2, <2>3
<1>13. LosersWait' /\ \A q \in PEs : Infos(q)' = Infos(q)
  BY <1>5, <1>9, <1>12, LosersKept DEF Mailboxes
<1>14. TypeOK'
  BY <1>5, <1>9, TypedAgain DEF Moves, Typed
<1>15. ~Last(p) /\ (Last(p)' <=> ctx[p].terminating)
       /\ \A x \in PEs : x # p => (Last(x)' <=> Last(x))
  <2>1. ~Last(p) /\ (Last(p)' <=> ctx[p].terminating)
    BY <1>4, <1>8, <1>9 DEF Last, At
  <2> QED
    BY <1>9, <2>1, OthersSame
<1>16. CInv'
  <2>1. OwnStage(p, new)
    BY <1>8 DEF OwnStage, Loop, Sharing
  <2>2. Boxes'
    BY <1>5, <1>15 DEF CInv, Boxes, Mailboxes
  <2> QED
    BY <1>9, <1>13, <1>14, <2>1, <2>2, StagesKept DEF CInv
<1>17. reports' = reports
  BY <1>5 DEF reports, InBox, Mailboxes
<1>18. /\ stage[p] = "wait" /\ cluster'[p] = n.set /\ root'[p] = n.root
       /\ dead'[p] = dead[p] /\ old_dead'[p] = old_dead[p] /\ tosend'[p] = n.set \ old_dead[p]
       /\ told'[p] = told[p] /\ chosen'[p] = chosen[p]
       /\ (p \in leaving' <=> p \in leaving) /\ (p \in announcing' <=> p \in announcing)
  <2>1. Stage(p) = "wait"
    BY <1>4, <1>15 DEF Stage, At
  <2>2. /\ stage[p] = "wait" /\ cluster'[p] = n.set /\ root'[p] = n.root
        /\ dead'[p] = dead[p] /\ old_dead'[p] = old_dead[p]
        /\ (p \in leaving' <=> p \in leaving)
    BY <1>8, <1>9, <2>1 DEF stage, cluster, root, dead, old_dead, leaving
  <2>3. tosend'[p] = n.set \ old_dead[p]
    BY <1>7, <1>8, <1>9 DEF tosend, old_dead, At
  <2>4. /\ told'[p] = told[p] /\ chosen'[p] = chosen[p]
        /\ (p \in announcing' <=> p \in announcing)
    BY <1>4, <1>8, <1>9 DEF told, chosen, announcing, At, Sharing
  <2> QED
    BY <2>2, <2>3, <2>4
<1>19. p \in leaving <=> Last(p)'
  BY <1>15 DEF leaving
<1>20. /\ Last(p)' => stage'[p] = "left" /\ values'[p] = {} /\ received'[p] = {}
       /\ ~Last(p)' => /\ stage'[p] = "values" /\ received'[p] = n.set \cap old_dead[p]
                       /\ values'[p] = values[p]
  <2>1. Stage(p)' = IF Last(p)' THEN "left" ELSE "values"
    BY <1>8, <1>9 DEF Stage, At
  <2>2. mail'["value"][p] = mail["value"][p]
    BY <1>5 DEF Mailboxes
  <2>3. CASE Last(p)'
    BY <2>1, <2>3 DEF stage, values, received
  <2>4. CASE ~Last(p)'
    BY <1>7, <1>8, <1>9, <1>15, <2>1, <2>2, <2>4 DEF stage, values, received, old_dead, InBox
  <2> QED
    BY <2>3, <2>4
<1>21. \A x \in PEs : x # p => SameSelf(x) /\ SameGroup(x) /\ values'[x] = values[x]
  BY <1>5, <1>9, <1>13, OthersSame, Elsewhere DEF Mailboxes
<1>22. /\ UNCHANGED <<leaving, dead, old_dead, announcing, told, chosen>>
       /\ cluster' = [cluster EXCEPT ![p] = n.set] /\ root' = [root EXCEPT ![p] = n.root]
       /\ tosend' = [tosend EXCEPT ![p] = n.set \ old_dead[p]]
  BY <1>18, <1>21, OwnChanges DEF Changes
<1>23. Changes(stage, stage', p) /\ Changes(received, received', p) /\ Changes(values, values', p)
  BY <1>21, OwnChanges, SentChanges
<1>24. UNCHANGED <<group, held, leavers>>
  <2>1. group'[p] = group[p] /\ held'[p] = held[p]
    BY <1>4, <1>8, <1>9, <1>13 DEF group, held, Group, At, Loop, Sharing
  <2>2. leavers'[p] = leavers[p]
    BY <1>4, <1>8, <1>9, <1>13 DEF leavers, Leavers, At, Loop, Sharing
  <2> QED
    BY <1>21, <2>1, <2>2, GroupChanges DEF Changes
<1>25. CASE p \in leaving
  <2>1. /\ stage' = [stage EXCEPT ![p] = "left"] /\ values' = [values EXCEPT ![p] = {}]
        /\ received' = [received EXCEPT ![p] = {}]
    BY <1>19, <1>20, <1>23, <1>25 DEF Changes
  <2>2. C!Take(p, n)
    BY <1>10, <1>11, <1>17, <1>18, <1>22, <1>24, <1>25, <2>1 DEF C!Take, C!joining
  <2> QED
    BY <1>10, <1>16, <2>2
<1>26. CASE p \notin leaving
  <2>1. /\ stage' = [stage EXCEPT ![p] = "values"] /\ values' = values
        /\ received' = [received EXCEPT ![p] = n.set \cap old_dead[p]]
    BY <1>19, <1>20, <1>23, <1>26 DEF Changes
  <2>2. C!Take(p, n)
    BY <1>10, <1>11, <1>17, <1>18, <1>22, <1>24, <1>26, <2>1 DEF C!Take, C!joining
  <2> QED
    BY <1>10, <1>16, <2>2
<1> QED
  BY <1>25, <1>26
-----------------------------------------------------------------------------
(* Values and the end of an iteration *)

\* A value is sent to a member, for which there is none of p's on its way.
LEMMA SendValueImplements ==
  ASSUME CInv, C!IInv, NEW p \in PEs, SendValue(p)
  PROVE  CInv' /\ \E q \in PEs : C!SendValue(p, q)
<1>1. PICK q : q = Least(ctx[p].todo)
  OBVIOUS
<1> DEFINE rest == ctx[p].todo \ {q}
           new  == [ctx[p] EXCEPT !.todo = rest]
<1>2. ctx[p] \in Context
  BY DEF CInv, TypeOK
<1>3. ctx[p].pc = "values" /\ ctx[p].todo # {} /\ mail' = Sent(mail, "value", q, p) /\ Set(p, new)
  BY <1>1 DEF SendValue, At, Send
<1>4. ctx[p].todo \in SUBSET PEs /\ q \in ctx[p].todo /\ q \in PEs /\ rest \in SUBSET PEs
  <2>1. ctx[p].todo \in SUBSET PEs
    BY <1>2 DEF Context
  <2> QED
    BY <1>1, <1>3, <2>1, LeastIsOne
<1>5. /\ new \in Context /\ new.pc = "values" /\ new.todo = rest /\ SameIn(ctx[p], new)
  BY <1>2, <1>3, <1>4 DEF Context, SameIn
<1> HIDE DEF new
<1>6. Moves(p, new) /\ ctx'[p] = new
  BY <1>3, <1>5, SetMoves DEF CInv, Moves
<1>7. p \in Message("value")
  BY MessageIs
<1>8. /\ Typed(mail')
      /\ \A b \in Mailboxes, y \in PEs :
           mail'[b][y] = IF b = "value" /\ y = q /\ Alive(q) THEN Append(mail[b][y], p) ELSE mail[b][y]
  BY <1>3, <1>7, SentIs, MailIsTyped DEF CInv, Mailboxes, Reaches
<1>9. Infos(p) = {}
  BY <1>3, NoInfos DEF At
<1>10. LosersWait' /\ \A x \in PEs : Infos(x)' = Infos(x)
  BY <1>6, <1>8, <1>9, LosersKept DEF Mailboxes
<1>11. TypeOK'
  BY <1>6, <1>8, TypedAgain DEF Moves, Typed
<1>12. \A x \in PEs : Last(x)' <=> Last(x)
  <2>1. Last(p)' <=> Last(p)
    BY <1>3, <1>5, <1>6 DEF Last, At, SameIn
  <2> QED
    BY <1>6, <2>1, OthersSame
<1>13. q \in tosend[p] /\ (~Last(q) => p \notin values[q])
  <2>1. q \in tosend[p]
    BY <1>3, <1>4 DEF tosend, At
  <2>2. stage[q] # "left" => p \notin values[q]
    BY <2>1, C!SentOnce DEF C!SentOnce
  <2> QED
    BY <1>4, <2>1, <2>2, GoneIs
<1>14. mail["value"][q] \in Seq(Message("value")) /\ (~Last(q) => NoRepeat(mail["value"][q]))
       /\ (~Last(q) => Alive(q))
  BY <1>4, GoneIs DEF CInv, TypeOK, Boxes, Mailboxes
<1>15. ~Last(q) => /\ InBox("value", q)' = InBox("value", q) \cup {p}
                   /\ NoRepeat(mail'["value"][q])
  <2> SUFFICES ASSUME ~Last(q)
               PROVE  InBox("value", q)' = InBox("value", q) \cup {p} /\ NoRepeat(mail'["value"][q])
    OBVIOUS
  <2>1. mail'["value"][q] = Append(mail["value"][q], p)
    BY <1>4, <1>8, <1>14 DEF Mailboxes
  <2>2. p \notin Elements(mail["value"][q])
    BY <1>4, <1>13 DEF values, InBox
  <2>3. NoRepeat(Append(mail["value"][q], p))
    BY <1>7, <1>14, <2>2, AppendElements
  <2>4. Elements(Append(mail["value"][q], p)) = Elements(mail["value"][q]) \cup {p}
    BY <1>7, <1>14, AppendElements
  <2> QED
    BY <2>1, <2>3, <2>4 DEF InBox
<1>16. \A x \in PEs : x # q => mail'["value"][x] = mail["value"][x]
  BY <1>8 DEF Mailboxes
<1>17. CInv'
  <2>1. OwnStage(p, new)
    <3>1. ctx[p].coupled_pes = ctx[p].prev_coupled_pes
      BY <1>3 DEF CInv, Stages, At
    <3> QED
      BY <1>5, <3>1 DEF OwnStage, Loop, Sharing, SameIn
  <2>2. Boxes'
    <3>1. \A x \in PEs : ~Last(x) => NoRepeat(mail'["value"][x])
      BY <1>15, <1>16 DEF CInv, Boxes
    <3> QED
      BY <1>8, <1>12, <3>1 DEF CInv, Boxes, Mailboxes
  <2> QED
    BY <1>6, <1>10, <1>11, <2>1, <2>2, StagesKept DEF CInv
<1>18. UNCHANGED <<reports, dead_news, news>>
  BY <1>8 DEF reports, dead_news, news, Announced, InBox, Mailboxes
<1>19. values' = IF C!Gone(q) THEN values ELSE [values EXCEPT ![q] = @ \cup {p}]
  <2>1. C!Gone(q) <=> Last(q)
    BY <1>4, GoneIs DEF C!Gone
  <2>2. \A x \in PEs : x # q => values'[x] = values[x]
    BY <1>12, <1>16 DEF values, InBox
  <2>3. Changes(values, values', q)
    BY <1>4, <2>2, SentChanges
  <2>4. CASE Last(q)
    <3>1. values'[q] = values[q]
      BY <1>4, <1>12, <2>4 DEF values
    <3> QED
      BY <2>1, <2>3, <2>4, <3>1 DEF Changes
  <2>5. CASE ~Last(q)
    <3>1. values'[q] = values[q] \cup {p}
      BY <1>4, <1>12, <1>15, <2>5 DEF values
    <3> QED
      BY <2>1, <2>3, <2>5, <3>1 DEF Changes
  <2> QED
    BY <2>4, <2>5
<1>20. /\ stage'[p] = stage[p] /\ cluster'[p] = cluster[p] /\ dead'[p] = dead[p]
       /\ old_dead'[p] = old_dead[p] /\ received'[p] = received[p] /\ root'[p] = root[p]
       /\ tosend'[p] = tosend[p] \ {q} /\ told'[p] = told[p] /\ chosen'[p] = chosen[p]
       /\ (p \in leaving' <=> p \in leaving) /\ (p \in announcing' <=> p \in announcing)
  <2>1. Stage(p)' = Stage(p)
    BY <1>3, <1>5, <1>6, <1>12 DEF Stage, At
  <2>2. /\ stage'[p] = stage[p] /\ cluster'[p] = cluster[p] /\ dead'[p] = dead[p]
        /\ old_dead'[p] = old_dead[p] /\ received'[p] = received[p] /\ root'[p] = root[p]
        /\ (p \in leaving' <=> p \in leaving)
    BY <1>5, <1>6, <1>12, <2>1 DEF stage, cluster, root, dead, old_dead, received, leaving, SameIn
  <2>3. /\ tosend'[p] = tosend[p] \ {q} /\ told'[p] = told[p] /\ chosen'[p] = chosen[p]
        /\ (p \in announcing' <=> p \in announcing)
    BY <1>3, <1>5, <1>6 DEF tosend, told, chosen, announcing, At, Sharing
  <2> QED
    BY <2>2, <2>3
<1>21. \A x \in PEs : x # p => SameSelf(x) /\ SameGroup(x)
  BY <1>6, <1>10, OthersSame, Elsewhere
<1>22. /\ UNCHANGED <<stage, leaving, cluster, root, dead, old_dead, received, announcing, told, chosen>>
       /\ tosend' = [tosend EXCEPT ![p] = @ \ {q}]
  BY <1>20, <1>21, OwnChanges DEF Changes
<1>23. UNCHANGED <<group, held, leavers>>
  <2>1. group'[p] = group[p] /\ held'[p] = held[p] /\ leavers'[p] = leavers[p]
    BY <1>3, <1>5, <1>6, <1>10 DEF group, held, leavers, Group, Leavers, At, Loop, Sharing
  <2> QED
    BY <1>21, <2>1, GroupChanges DEF Changes
<1>24. C!SendValue(p, q)
  BY <1>13, <1>18, <1>19, <1>22, <1>23 DEF C!SendValue, C!joining
<1> QED
  BY <1>4, <1>17, <1>24

\* A step of one PE that only the PE itself and its mailbox of values notices.
LEMMA SelfStep ==
  ASSUME CInv, NEW p \in PEs, NEW new, Moves(p, new), Typed(mail'), OwnStage(p, new),
         ~At(p, {"info"}), ~At(p, Loop \cup Sharing \cup {"gather"}),
         new.pc \notin Loop \cup Sharing \cup {"gather"},
         \A b \in {"coupling", "to_couple_with", "root_info"} : \A q \in PEs : mail'[b][q] = mail[b][q],
         Last(p) => Last(p)',
         \A q \in PEs : ~Last(q)' => NoRepeat(mail'["value"][q])
  PROVE  /\ CInv'
         /\ UNCHANGED <<reports, dead_news, news, group, held, leavers, announcing, told, chosen>>
         /\ \A q \in PEs : q # p => SameSelf(q) /\ SameGroup(q)
<1>1. Infos(p) = {} /\ ctx'[p] = new
  BY NoInfos DEF Moves
<1>2. LosersWait' /\ \A q \in PEs : Infos(q)' = Infos(q)
  BY <1>1, LosersKept
<1>3. TypeOK'
  BY TypedAgain DEF Moves, Typed
<1>4. CInv'
  <2>1. Boxes'
    BY DEF CInv, Boxes
  <2> QED
    BY <1>2, <1>3, <2>1, StagesKept DEF CInv
<1>5. UNCHANGED <<reports, dead_news, news>>
  BY DEF reports, dead_news, news, Announced, InBox
<1>6. \A q \in PEs : q # p => SameSelf(q) /\ SameGroup(q)
  BY <1>2, OthersSame, Elsewhere DEF Moves
<1>7. UNCHANGED <<group, held, leavers>>
  <2>1. group'[p] = group[p] /\ held'[p] = held[p] /\ leavers'[p] = leavers[p]
    BY <1>1, <1>2 DEF group, held, leavers, Group, Leavers, At
  <2> QED
    BY <1>6, <2>1, GroupChanges DEF Changes
<1>8. UNCHANGED <<announcing, told, chosen>>
  <2>1. /\ told'[p] = told[p] /\ chosen'[p] = chosen[p]
        /\ (p \in announcing' <=> p \in announcing)
    BY <1>1 DEF told, chosen, announcing, At, Sharing
  <2> QED
    BY <1>6, <2>1, OwnChanges DEF Changes
<1> QED
  BY <1>4, <1>5, <1>6, <1>7, <1>8

\* A value is received: it was the sender's only one on its way.
LEMMA ReceiveValueImplements ==
  ASSUME CInv, C!IInv, NEW p \in PEs, ReceiveValue(p)
  PROVE  CInv' /\ ((\E q \in PEs : C!ReceiveValue(p, q)) \/ UNCHANGED C!vars)
<1>1. PICK v : v = First("value", p)
  OBVIOUS
<1> DEFINE rec == ctx[p].received_from \cup {v}
           new == [ctx[p] EXCEPT !.received_from = rec]
<1>2. ctx[p] \in Context
  BY DEF CInv, TypeOK
<1>3. ctx[p].pc = "values" /\ Waiting("value", p) /\ mail' = Received(mail, "value", p) /\ Set(p, new)
  BY <1>1 DEF ReceiveValue, Exchanging, At, Receive
<1>4. /\ Typed(mail') /\ v \in PEs
      /\ \A b \in Mailboxes, y \in PEs :
           mail'[b][y] = IF b = "value" /\ y = p THEN Tail(mail[b][y]) ELSE mail[b][y]
  <2>1. /\ Typed(mail') /\ v \in Message("value")
        /\ \A b \in Mailboxes, y \in PEs :
             mail'[b][y] = IF b = "value" /\ y = p THEN Tail(mail[b][y]) ELSE mail[b][y]
    BY <1>1, <1>3, ReceivedIs, MailIsTyped DEF CInv, Mailboxes, Waiting, First
  <2> QED
    BY <2>1, MessageIs
<1>5. rec \in SUBSET PEs
  BY <1>2, <1>4 DEF Context
<1>6. /\ new \in Context /\ new.pc = "values" /\ new.received_from = rec /\ new.todo = ctx[p].todo
      /\ new.coupled_pes = ctx[p].coupled_pes /\ new.prev_coupled_pes = ctx[p].prev_coupled_pes
      /\ new.coupled_pes_root = ctx[p].coupled_pes_root /\ new.cluster_dead = ctx[p].cluster_dead
      /\ new.prev_dead = ctx[p].prev_dead /\ new.terminating = ctx[p].terminating
  BY <1>2, <1>3, <1>5 DEF Context
<1> HIDE DEF new
<1>7. Moves(p, new) /\ ctx'[p] = new
  BY <1>3, <1>6, SetMoves DEF CInv, Moves
<1>8. OwnStage(p, new)
  <2>1. ctx[p].coupled_pes = ctx[p].prev_coupled_pes
    BY <1>3 DEF CInv, Stages, At
  <2> QED
    BY <1>6, <2>1 DEF OwnStage, Loop, Sharing
<1>9. (Last(p) <=> ctx[p].terminating) /\ (Last(p)' <=> ctx[p].terminating)
  BY <1>3, <1>6, <1>7 DEF Last, At
<1>10. tosend'[p] = tosend[p]
  BY <1>3, <1>6, <1>7 DEF tosend, At
<1>11. \A b \in {"coupling", "to_couple_with", "root_info"} : \A q \in PEs : mail'[b][q] = mail[b][q]
  BY <1>4 DEF Mailboxes
<1>12. \A q \in PEs : q # p => mail'["value"][q] = mail["value"][q]
  BY <1>4 DEF Mailboxes
<1>13. CASE Last(p)
  BY <1>4, <1>6, <1>7, <1>8, <1>9, <1>10, <1>11, <1>12, <1>13, LastQuiet
<1>14. CASE ~Last(p)
  <2>1. /\ mail["value"][p] \in Seq(Message("value")) /\ mail["value"][p] # <<>>
        /\ NoRepeat(mail["value"][p]) /\ mail'["value"][p] = Tail(mail["value"][p])
        /\ v = Head(mail["value"][p])
    BY <1>1, <1>3, <1>4, <1>14 DEF CInv, TypeOK, Boxes, Mailboxes, Waiting, First
  <2>2. /\ NoRepeat(mail'["value"][p]) /\ v \in InBox("value", p)
        /\ InBox("value", p)' = InBox("value", p) \ {v}
    <3>1. /\ Elements(mail["value"][p]) = Elements(Tail(mail["value"][p])) \cup {v}
          /\ NoRepeat(Tail(mail["value"][p])) /\ v \notin Elements(Tail(mail["value"][p]))
      BY <2>1, TailElements
    <3>2. Elements(Tail(mail["value"][p])) = Elements(mail["value"][p]) \ {v}
      BY <3>1
    <3> QED
      BY <2>1, <3>1, <3>2 DEF InBox
  <2>3. \A q \in PEs : Last(q)' <=> Last(q)
    BY <1>7, <1>9, OthersSame
  <2>4. \A q \in PEs : ~Last(q)' => NoRepeat(mail'["value"][q])
    BY <1>12, <2>2, <2>3 DEF CInv, Boxes
  <2>5. /\ ~At(p, {"info"}) /\ ~At(p, Loop \cup Sharing \cup {"gather"})
        /\ new.pc \notin Loop \cup Sharing \cup {"gather"}
    BY <1>3, <1>6 DEF At, Loop, Sharing
  <2>6. /\ CInv'
        /\ UNCHANGED <<reports, dead_news, news, group, held, leavers, announcing, told, chosen>>
        /\ \A q \in PEs : q # p => SameSelf(q) /\ SameGroup(q)
    BY <1>4, <1>7, <1>8, <1>11, <1>14, <2>4, <2>5, SelfStep
  <2>7. /\ stage'[p] = stage[p] /\ stage[p] = "values" /\ cluster'[p] = cluster[p]
        /\ root'[p] = root[p] /\ dead'[p] = dead[p] /\ old_dead'[p] = old_dead[p]
        /\ received'[p] = received[p] \cup {v} /\ (p \in leaving' <=> p \in leaving)
    <3>1. Stage(p)' = "values" /\ Stage(p) = "values"
      BY <1>3, <1>6, <1>7, <1>9, <1>14 DEF Stage, At
    <3> QED
      BY <1>6, <1>7, <1>9, <1>14, <3>1 DEF stage, cluster, root, dead, old_dead, received, leaving
  <2>8. /\ UNCHANGED <<stage, leaving, cluster, root, dead, old_dead, tosend>>
        /\ received' = [received EXCEPT ![p] = @ \cup {v}]
    BY <1>10, <2>6, <2>7, OwnChanges DEF Changes
  <2>9. v \in values[p] /\ values' = [values EXCEPT ![p] = @ \ {v}]
    <3>1. \A q \in PEs : q # p => values'[q] = values[q]
      BY <1>12, <2>3 DEF values, InBox
    <3>2. v \in values[p] /\ values'[p] = values[p] \ {v}
      BY <1>9, <1>14, <2>2 DEF values
    <3> QED
      BY <3>1, <3>2, SentChanges DEF Changes
  <2>10. C!ReceiveValue(p, v)
    BY <2>6, <2>7, <2>8, <2>9 DEF C!ReceiveValue, C!joining
  <2> QED
    BY <1>4, <2>6, <2>10
<1> QED
  BY <1>13, <1>14

\* Once there is a value of every member, it goes on.
LEMMA ValuesDoneImplements ==
  ASSUME CInv, C!IInv, NEW p \in PEs, ValuesDone(p)
  PROVE  CInv' /\ (C!ValuesDone(p) \/ UNCHANGED C!vars)
<1> DEFINE new == [ctx[p] EXCEPT !.pc = "poll", !.received_from = {}]
<1>1. ctx[p] \in Context
  BY DEF CInv, TypeOK
<1>2. ctx[p].pc = "values" /\ ctx[p].todo = {} /\ ctx[p].received_from = ctx[p].coupled_pes
      /\ mail' = mail /\ Set(p, new)
  BY DEF ValuesDone, Exchanging, At
<1>3. /\ new \in Context /\ new.pc = "poll" /\ new.received_from = {}
      /\ new.coupled_pes = ctx[p].coupled_pes /\ new.prev_coupled_pes = ctx[p].prev_coupled_pes
      /\ new.coupled_pes_root = ctx[p].coupled_pes_root /\ new.cluster_dead = ctx[p].cluster_dead
      /\ new.prev_dead = ctx[p].prev_dead /\ new.terminating = ctx[p].terminating
  BY <1>1, <1>2 DEF Context, PC
<1> HIDE DEF new
<1>4. Moves(p, new) /\ ctx'[p] = new
  BY <1>2, <1>3, SetMoves DEF CInv, Moves
<1>5. ctx[p].coupled_pes = ctx[p].prev_coupled_pes
  BY <1>2 DEF CInv, Stages, At
<1>6. OwnStage(p, new)
  BY <1>3, <1>5 DEF OwnStage, Loop, Sharing
<1>7. (Last(p) <=> ctx[p].terminating) /\ (Last(p)' <=> ctx[p].terminating)
  BY <1>2, <1>3, <1>4 DEF Last, At
<1>8. tosend'[p] = tosend[p] /\ tosend[p] = {}
  BY <1>2, <1>3, <1>4 DEF tosend, At
<1>9. Typed(mail')
  BY <1>2, MailIsTyped DEF CInv, Typed
<1>10. CASE Last(p)
  BY <1>2, <1>3, <1>4, <1>6, <1>7, <1>8, <1>9, <1>10, LastQuiet
<1>11. CASE ~Last(p)
  <2>1. \A q \in PEs : Last(q)' <=> Last(q)
    BY <1>4, <1>7, OthersSame
  <2>2. \A q \in PEs : ~Last(q)' => NoRepeat(mail'["value"][q])
    BY <1>2, <2>1 DEF CInv, Boxes
  <2>3. /\ ~At(p, {"info"}) /\ ~At(p, Loop \cup Sharing \cup {"gather"})
        /\ new.pc \notin Loop \cup Sharing \cup {"gather"}
    BY <1>2, <1>3 DEF At, Loop, Sharing
  <2>4. /\ CInv'
        /\ UNCHANGED <<reports, dead_news, news, group, held, leavers, announcing, told, chosen>>
        /\ \A q \in PEs : q # p => SameSelf(q) /\ SameGroup(q)
    BY <1>2, <1>4, <1>6, <1>9, <1>11, <2>2, <2>3, SelfStep
  <2>5. /\ stage'[p] = "decide" /\ stage[p] = "values" /\ cluster'[p] = cluster[p]
        /\ root'[p] = root[p] /\ dead'[p] = dead[p] /\ old_dead'[p] = old_dead[p]
        /\ received[p] = cluster[p] /\ received'[p] = {} /\ (p \in leaving' <=> p \in leaving)
    <3>1. Stage(p)' = "decide" /\ Stage(p) = "values"
      BY <1>2, <1>3, <1>4, <1>7, <1>11 DEF Stage, At
    <3> QED
      BY <1>2, <1>3, <1>4, <1>5, <1>7, <1>11, <3>1
         DEF stage, cluster, root, dead, old_dead, received, leaving
  <2>6. /\ UNCHANGED <<leaving, cluster, root, dead, old_dead, tosend>>
        /\ stage' = [stage EXCEPT ![p] = "decide"] /\ received' = [received EXCEPT ![p] = {}]
    BY <1>8, <2>4, <2>5, OwnChanges DEF Changes
  <2>7. values' = values
    BY <1>2, <2>1 DEF values, InBox
  <2>8. C!ValuesDone(p)
    BY <1>8, <2>4, <2>5, <2>6, <2>7 DEF C!ValuesDone, C!joining, C!sent
  <2> QED
    BY <2>4, <2>8
<1> QED
  BY <1>10, <1>11

\* A dead message is read between two iterations.
LEMMA PollDeadImplements ==
  ASSUME CInv, C!IInv, NEW p \in PEs, PollDead(p) PROVE CInv' /\ UNCHANGED C!vars
<1>1. PICK m : m = First("ack_dead", p)
  OBVIOUS
<1> DEFINE gone == ctx[p].all_dead \cup {m.pe}
           new  == [ctx[p] EXCEPT !.all_dead = gone]
<1>2. ctx[p] \in Context
  BY DEF CInv, TypeOK
<1>3. ctx[p].pc = "poll" /\ Waiting("ack_dead", p) /\ mail' = Received(mail, "ack_dead", p)
      /\ Set(p, new)
  BY <1>1 DEF PollDead, At, Receive
<1>4. Talk(mail, mail') /\ m.pe \in PEs
  BY <1>1, <1>3, AckDeadTaken
<1>5. Typed(mail')
  BY <1>4 DEF Talk
<1>6. /\ new \in Context /\ new.pc = "poll" /\ new.todo = ctx[p].todo /\ SameIn(ctx[p], new)
  BY <1>2, <1>3, <1>4 DEF Context, SameIn
<1> HIDE DEF new
<1>7. Moves(p, new) /\ ctx'[p] = new
  BY <1>3, <1>6, SetMoves DEF CInv, Moves
<1>8. OwnStage(p, new)
  <2>1. ctx[p].coupled_pes = ctx[p].prev_coupled_pes
    BY <1>3 DEF CInv, Stages, At
  <2> QED
    BY <1>6, <2>1 DEF OwnStage, Loop, Sharing, SameIn
<1>9. (Last(p) <=> ctx[p].terminating) /\ (Last(p)' <=> ctx[p].terminating)
  BY <1>3, <1>6, <1>7 DEF Last, At, SameIn
<1>10. LosersWait' /\ \A q \in PEs : Infos(q)' = Infos(q)
  <2>1. Infos(p) = {}
    BY <1>3, NoInfos DEF At
  <2> QED
    BY <1>4, <1>7, <2>1, TalkMeansNothing, LosersKept
<1>11. CInv'
  <2>1. TypeOK'
    BY <1>5, <1>7, TypedAgain DEF Moves, Typed
  <2>2. Boxes'
    BY <1>4, <1>7, <1>9, BoxesTalk
  <2> QED
    BY <1>7, <1>8, <1>10, <2>1, <2>2, StagesKept DEF CInv
<1>12. Unchanged(p)
  <2>1. Stage(p)' = Stage(p)
    BY <1>3, <1>6, <1>7, <1>9 DEF Stage, At
  <2>2. SameSelf(p)
    BY <1>3, <1>6, <1>7, <1>9, <2>1 DEF SameSelf, SameIn, Sharing, stage, cluster, root, dead,
       old_dead, received, tosend, told, chosen, leaving, announcing, At
  <2>3. SameGroup(p)
    BY <1>3, <1>6, <1>7, <1>10 DEF SameGroup, group, held, leavers, Group, Leavers, At, Loop, Sharing
  <2>4. values'[p] = values[p]
    BY <1>4, <1>9, TalkMeansNothing DEF values, InBox
  <2> QED
    BY <1>4, <2>2, <2>3, <2>4, TalkMeansNothing DEF Unchanged
<1>13. \A q \in PEs : q # p => Unchanged(q)
  BY <1>4, <1>7, <1>10, OthersSame, Elsewhere, TalkMeansNothing DEF Unchanged
<1> QED
  BY <1>11, <1>12, <1>13, Stutters

\* A PE that goes on starts an iteration, which may be its last.
LEMMA EndIterationImplements ==
  ASSUME CInv, C!IInv, NEW p \in PEs, EndIteration(p) PROVE CInv' /\ C!Decide(p)
<1>1. PICK last \in BOOLEAN : Set(p, [ctx[p] EXCEPT !.pc = "work", !.terminating = last])
  <2>1. ctx[p] \in Context
    BY DEF CInv, TypeOK
  <2>2. CASE Set(p, [ctx[p] EXCEPT !.pc = "work"])
    <3>1. [ctx[p] EXCEPT !.pc = "work"] = [ctx[p] EXCEPT !.pc = "work", !.terminating = FALSE]
      BY <2>1 DEF EndIteration, Context
    <3> QED
      BY <2>2, <3>1 DEF Set
  <2>3. CASE Set(p, [ctx[p] EXCEPT !.pc = "work", !.terminating = TRUE])
    BY <2>3
  <2> QED
    BY <2>2, <2>3 DEF EndIteration
<1> DEFINE new == [ctx[p] EXCEPT !.pc = "work", !.terminating = last]
<1>2. ctx[p] \in Context
  BY DEF CInv, TypeOK
<1>3. ctx[p].pc = "poll" /\ ~ctx[p].terminating /\ mail' = mail /\ Set(p, new)
  BY <1>1 DEF EndIteration, Polled, At
<1>4. /\ new \in Context /\ new.pc = "work" /\ new.terminating = last
      /\ new.prev_coupled_pes = ctx[p].prev_coupled_pes /\ new.received_from = ctx[p].received_from
      /\ new.coupled_pes_root = ctx[p].coupled_pes_root /\ new.cluster_dead = ctx[p].cluster_dead
      /\ new.prev_dead = ctx[p].prev_dead
  BY <1>2, <1>3 DEF Context, PC
<1> HIDE DEF new
<1>5. Moves(p, new) /\ ctx'[p] = new
  BY <1>3, <1>4, SetMoves DEF CInv, Moves
<1>6. OwnStage(p, new)
  BY <1>4 DEF OwnStage, Loop, Sharing
<1>7. ~Last(p) /\ ~Last(p)'
  BY <1>3, <1>4, <1>5 DEF Last, At
<1>8. \A q \in PEs : Last(q)' <=> Last(q)
  BY <1>5, <1>7, OthersSame
<1>9. \A q \in PEs : ~Last(q)' => NoRepeat(mail'["value"][q])
  BY <1>3, <1>8 DEF CInv, Boxes
<1>10. /\ ~At(p, {"info"}) /\ ~At(p, Loop \cup Sharing \cup {"gather"})
       /\ new.pc \notin Loop \cup Sharing \cup {"gather"}
  BY <1>3, <1>4 DEF At, Loop, Sharing
<1>11. Typed(mail')
  BY <1>3, MailIsTyped DEF CInv, Typed
<1>12. /\ CInv'
       /\ UNCHANGED <<reports, dead_news, news, group, held, leavers, announcing, told, chosen>>
       /\ \A q \in PEs : q # p => SameSelf(q) /\ SameGroup(q)
  BY <1>3, <1>5, <1>6, <1>7, <1>9, <1>10, <1>11, SelfStep
<1>13. /\ stage'[p] = "work" /\ stage[p] = "decide" /\ cluster'[p] = cluster[p]
       /\ root'[p] = root[p] /\ dead'[p] = dead[p] /\ old_dead'[p] = old_dead[p]
       /\ received'[p] = received[p] /\ tosend'[p] = tosend[p]
  <2>1. Stage(p)' = "work" /\ Stage(p) = "decide"
    BY <1>3, <1>4, <1>5, <1>7 DEF Stage, At
  <2>2. tosend'[p] = tosend[p]
    BY <1>3, <1>4, <1>5 DEF tosend, At
  <2> QED
    BY <1>4, <1>5, <1>7, <2>1, <2>2 DEF stage, cluster, root, dead, old_dead, received
<1>14. /\ UNCHANGED <<cluster, root, dead, old_dead, received, tosend>>
       /\ stage' = [stage EXCEPT ![p] = "work"]
  BY <1>12, <1>13, OwnChanges DEF Changes
<1>15. leaving' \in {leaving, leaving \cup {p}}
  <2>1. \A q \in PEs : q # p => (q \in leaving' <=> q \in leaving)
    BY <1>12 DEF SameSelf
  <2>2. p \notin leaving /\ (p \in leaving' <=> last)
    BY <1>3, <1>4, <1>5 DEF leaving
  <2>3. leaving \subseteq PEs /\ leaving' \subseteq PEs
    BY DEF leaving
  <2>4. CASE last
    <3>1. leaving' = leaving \cup {p}
      BY <2>1, <2>2, <2>3, <2>4
    <3> QED
      BY <3>1
  <2>5. CASE ~last
    <3>1. leaving' = leaving
      BY <2>1, <2>2, <2>3, <2>5
    <3> QED
      BY <3>1
  <2> QED
    BY <2>4, <2>5
<1>16. values' = values
  BY <1>3, <1>8 DEF values, InBox
<1>17. C!Decide(p)
  BY <1>12, <1>13, <1>14, <1>15, <1>16 DEF C!Decide, C!joining, C!sent
<1> QED
  BY <1>12, <1>17

\* A PE that has its last cluster leaves: it starts to tell everybody.
LEMMA StartExitImplements ==
  ASSUME CInv, C!IInv, NEW p \in PEs, StartExit(p) PROVE CInv' /\ UNCHANGED C!vars
<1> DEFINE new == [ctx[p] EXCEPT !.pc = "exiting", !.todo = PEs]
<1>1. ctx[p] \in Context
  BY DEF CInv, TypeOK
<1>2. ctx[p].pc = "poll" /\ ctx[p].terminating /\ mail' = mail /\ Set(p, new)
  BY DEF StartExit, Polled, At
<1>3. /\ new \in Context /\ new.pc = "exiting" /\ new.todo = PEs
      /\ new.terminating = ctx[p].terminating
      /\ new.prev_coupled_pes = ctx[p].prev_coupled_pes /\ new.cluster_dead = ctx[p].cluster_dead
      /\ new.coupled_pes_root = ctx[p].coupled_pes_root /\ new.prev_dead = ctx[p].prev_dead
  BY <1>1, <1>2 DEF Context, PC
<1> HIDE DEF new
<1>4. Moves(p, new) /\ ctx'[p] = new
  BY <1>2, <1>3, SetMoves DEF CInv, Moves
<1>5. OwnStage(p, new)
  BY <1>2, <1>3 DEF OwnStage, Loop, Sharing
<1>6. Last(p) /\ tosend'[p] = tosend[p] /\ Typed(mail')
  <2>1. Last(p) /\ tosend'[p] = tosend[p]
    BY <1>2, <1>3, <1>4 DEF Last, tosend, At
  <2> QED
    BY <1>2, <2>1, MailIsTyped DEF CInv, Typed
<1> QED
  BY <1>2, <1>3, <1>4, <1>5, <1>6, LastQuiet

\* It tells one PE after the other that it is dead.
LEMMA ExitImplements ==
  ASSUME CInv, C!IInv, NEW p \in PEs, Exit(p) PROVE CInv' /\ UNCHANGED C!vars
<1>1. PICK q : q = Least(ctx[p].todo)
  OBVIOUS
<1> DEFINE rest == ctx[p].todo \ {q}
           then == IF ctx[p].todo = {q} THEN "exited" ELSE "exiting"
           new  == [ctx[p] EXCEPT !.todo = rest, !.pc = then]
<1>2. ctx[p] \in Context
  BY DEF CInv, TypeOK
<1>3. ctx[p].pc = "exiting" /\ mail' = Sent(mail, "ack_dead", q, Dead(p)) /\ Set(p, new)
  BY <1>1 DEF Exit, At, Send
<1>4. ctx[p].terminating /\ rest \in SUBSET PEs /\ then \in {"exited", "exiting"}
  BY <1>2, <1>3 DEF CInv, Stages, At, Context
<1>5. then = "exiting" => rest # {}
  <2>1. ctx[p].todo # {} /\ ctx[p].todo \in SUBSET PEs
    BY <1>2, <1>3 DEF CInv, Stages, At, Sharing, Context
  <2> QED
    BY <1>1, <2>1, LeastIsOne
<1> HIDE DEF rest, then
<1>6. /\ new \in Context /\ new.pc = then /\ new.todo = rest
      /\ new.terminating = ctx[p].terminating
      /\ new.prev_coupled_pes = ctx[p].prev_coupled_pes /\ new.cluster_dead = ctx[p].cluster_dead
      /\ new.coupled_pes_root = ctx[p].coupled_pes_root /\ new.prev_dead = ctx[p].prev_dead
  BY <1>2, <1>4 DEF Context, PC
<1> HIDE DEF new
<1>7. Moves(p, new) /\ ctx'[p] = new
  BY <1>3, <1>6, SetMoves DEF CInv, Moves
<1>8. OwnStage(p, new)
  BY <1>4, <1>5, <1>6 DEF OwnStage, Loop, Sharing
<1>9. Last(p) /\ tosend'[p] = tosend[p]
  BY <1>3, <1>4, <1>6, <1>7 DEF Last, tosend, At
<1>10. Dead(p) \in Message("ack_dead")
  <2>1. Dead(p) \in [type : {"dead"}, pe : PEs]
    BY DEF Dead
  <2> QED
    BY <2>1, MessageIs, Zenon
<1>11. /\ Typed(mail')
       /\ \A b \in Mailboxes, y \in PEs : b # "ack_dead" => mail'[b][y] = mail[b][y]
  BY <1>3, <1>10, SentIs, MailIsTyped DEF CInv, Mailboxes
<1>12. /\ \A b \in {"coupling", "to_couple_with", "root_info"} : \A y \in PEs : mail'[b][y] = mail[b][y]
       /\ \A y \in PEs : y # p => mail'["value"][y] = mail["value"][y]
  BY <1>11 DEF Mailboxes
<1>13. new.pc \in {"values", "poll", "exiting", "exited"} /\ new.terminating
  BY <1>4, <1>6
<1> QED
  BY <1>6, <1>7, <1>8, <1>9, <1>11, <1>12, <1>13, LastQuiet
-----------------------------------------------------------------------------
(* Every step *)

\* What one PE does is a step of the clusters, or nothing they know of.
LEMMA StepImplements ==
  ASSUME CInv, C!IInv, NEW p \in PEs, Step(p) PROVE CInv' /\ (C!Step(p) \/ UNCHANGED C!vars)
<1>1. CASE Root(p)
  <2>1. CASE Gather(p) \/ Gathered(p)
    BY <2>1, GatherImplements, GatheredImplements DEF C!Step
  <2>2. CASE Find(p) \/ FindNone(p) \/ Refuse(p)
    BY <2>2, FindImplements, FindNoneImplements, RefuseImplements
  <2>3. CASE ListenNothing(p) \/ ListenDead(p) \/ AckForwarded(p) \/ AckAborted(p)
    BY <2>3, ListenNothingImplements, ListenDeadImplements, AckForwardedImplements,
       AckAbortedImplements
  <2>4. CASE AckAccepted(p) \/ CheckRequest(p)
    <3>1. CInv' /\ [C!GiveUp(p)]_C!vars
      BY <2>4, AckAcceptedImplements, CheckRequestImplements
    <3> QED
      BY <3>1 DEF C!Step
  <2>5. CASE CheckNothing(p)
    <3>1. CInv' /\ [C!Announce(p)]_C!vars
      BY <2>5, CheckNothingImplements
    <3> QED
      BY <3>1 DEF C!Step
  <2>6. CASE Merge(p)
    BY <2>6, MergeImplements DEF C!Step
  <2>7. CASE ShareDead(p) \/ ShareCoupled(p)
    BY <2>7, ShareDeadImplements, ShareCoupledImplements DEF C!Step
  <2> QED
    BY <1>1, <2>1, <2>2, <2>3, <2>4, <2>5, <2>6, <2>7 DEF Root
<1>2. CASE Member(p)
  <2>1. CASE Work(p)
    BY <2>1, WorkImplements DEF C!Step
  <2>2. CASE InfoRequest(p) \/ PollDead(p) \/ StartExit(p) \/ Exit(p)
    BY <2>2, InfoRequestImplements, PollDeadImplements, StartExitImplements, ExitImplements
  <2>3. CASE InfoDead(p) \/ InfoCoupled(p)
    BY <2>3, InfoDeadImplements, InfoCoupledImplements DEF C!Step
  <2>4. CASE SendValue(p) \/ ReceiveValue(p)
    BY <2>4, SendValueImplements, ReceiveValueImplements DEF C!Step
  <2>5. CASE ValuesDone(p) \/ EndIteration(p)
    BY <2>5, ValuesDoneImplements, EndIterationImplements DEF C!Step
  <2> QED
    BY <1>2, <2>1, <2>2, <2>3, <2>4, <2>5 DEF Member
<1> QED
  BY <1>1, <1>2 DEF Step

\* The invariant holds on, and every step is one of the clusters or a stutter.
LEMMA NextImplements == ASSUME CInv, C!IInv, [Next]_vars PROVE CInv' /\ [C!Next]_C!vars
<1>1. CASE Next
  <2>1. PICK p \in PEs : Step(p)
    BY <1>1 DEF Next
  <2>2. CInv' /\ (C!Step(p) \/ UNCHANGED C!vars)
    BY <2>1, StepImplements
  <2> QED
    BY <2>2 DEF C!Next
<1>2. CASE UNCHANGED vars
  <2>1. ctx' = ctx /\ mail' = mail
    BY <1>2 DEF vars
  <2>2. \A q \in PEs : ctx'[q] = ctx[q] /\ Infos(q)' = Infos(q) /\ (Last(q)' <=> Last(q))
    BY <2>1 DEF Infos, InBox, Last, At
  <2>3. \A q \in PEs : Unchanged(q)
    <3>1. \A q \in PEs : SameSelf(q) /\ SameGroup(q)
      BY <2>2, Elsewhere
    <3> QED
      BY <2>1, <2>2, <3>1
         DEF Unchanged, reports, dead_news, news, values, Announced, InBox
  <2>4. CInv'
    <3>1. TypeOK'
      BY <2>1, TypedAgain DEF CInv, TypeOK, Typed
    <3>2. Stages' /\ LosersWait' /\ Boxes'
      BY <2>1, <2>2 DEF CInv, Stages, LosersWait, Boxes, InBox, At
    <3> QED
      BY <3>1, <3>2 DEF CInv
  <2> QED
    BY <2>3, <2>4, Stutters
<1> QED
  BY <1>1, <1>2
-----------------------------------------------------------------------------
(* The theorems *)

\* The invariant of this proof and that of the clusters hold together.
LEMMA AlwaysCInv == Spec => [](CInv /\ C!IInv)
<1>1. Init => CInv /\ C!IInv
  BY InitImplements, C!InitEstablishes DEF C!InitEstablishes
<1>2. CInv /\ C!IInv /\ [Next]_vars => (CInv /\ C!IInv)'
  BY NextImplements, C!NextKeeps DEF C!NextKeeps
<1> QED
  BY <1>1, <1>2, PTL DEF Spec

\* Spec => []TypeOK: the state of every PE and every message have their types,
\* so that no root, no announced root and no set names anything but PEs.
THEOREM CouplingTypes == Spec => []TypeOK
BY AlwaysCInv, PTL DEF CInv

\* The coupling of update_coupled_values implements Clusters.tla.
THEOREM CouplingImplementsClusters == Spec => C!Spec
<1>1. Init => C!Init
  BY InitImplements
<1>2. CInv /\ C!IInv /\ [Next]_vars => [C!Next]_C!vars
  BY NextImplements
<1> QED
  BY <1>1, <1>2, AlwaysCInv, PTL DEF Spec, C!Spec

\* Spec => ClustersOnlyGrow: whatever InfoCoupled takes from a root, no PE is
\* uncoupled from one that it was coupled with.
THEOREM CoupledStayCoupled == Spec => ClustersOnlyGrow
<1>1. ASSUME CInv, C!IInv, [Next]_vars, NEW p \in PEs
      PROVE  ctx[p].prev_coupled_pes \subseteq ctx'[p].prev_coupled_pes
  <2>1. [C!Next]_C!vars
    BY <1>1, NextImplements
  <2>2. cluster[p] \subseteq cluster'[p]
    BY <1>1, <2>1, C!NextOnlyGrows DEF C!NextOnlyGrows
  <2> QED
    BY <2>2 DEF cluster
<1>2. CInv /\ C!IInv /\ [Next]_vars =>
        [\A p \in PEs : ctx[p].prev_coupled_pes \subseteq ctx'[p].prev_coupled_pes]_vars
  BY <1>1
<1> QED
  BY <1>2, AlwaysCInv, PTL DEF Spec, ClustersOnlyGrow

\* Spec => []MembersAgree: PEs that are coupled and stay have the same cluster,
\* the same root and the same list of the dead whenever both exchange values.
THEOREM CoupledAgree == Spec => []MembersAgree
<1>1. ASSUME CInv, C!Agree PROVE MembersAgree
  <2> SUFFICES ASSUME NEW p \in PEs, NEW q \in PEs, Settled(p), Settled(q),
                      q \in ctx[p].coupled_pes, ~ctx[p].terminating, ~ctx[q].terminating
               PROVE  /\ ctx[q].coupled_pes = ctx[p].coupled_pes
                      /\ ctx[q].coupled_pes_root = ctx[p].coupled_pes_root
                      /\ ctx[q].cluster_dead = ctx[p].cluster_dead
    BY DEF MembersAgree
  <2>1. \A x \in PEs : Settled(x) /\ ~ctx[x].terminating =>
          C!Settled(x) /\ ctx[x].coupled_pes = cluster[x]
    BY <1>1 DEF Settled, C!Settled, stage, Stage, Last, At, cluster, CInv, Stages
  <2>2. cluster[q] = cluster[p] /\ root[q] = root[p] /\ dead[q] = dead[p]
    BY <1>1, <2>1 DEF C!Agree
  <2> QED
    BY <2>1, <2>2 DEF root, dead
<1>2. Spec => []C!Agree
  BY CouplingImplementsClusters, C!ClustersAgree DEF C!ClustersAgree
<1> QED
  BY <1>1, <1>2, AlwaysCInv, PTL
=============================================================================
