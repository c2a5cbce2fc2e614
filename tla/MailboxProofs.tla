---------------------------- MODULE MailboxProofs ----------------------------
(***************************************************************************)
(* Type correctness of the mailbox for every capacity, every set of        *)
(* senders and every set of messages: the indices, the positions the       *)
(* senders write from and the words in the ring stay in range although     *)
(* every offset is computed modulo the capacity from a stale copy.         *)
(***************************************************************************)
EXTENDS Mailbox, SequenceTheorems, TLAPS

\* An offset taken modulo the capacity is a slot.
LEMMA AtIsSlot == ASSUME NEW i \in Int, NEW k \in Int PROVE At(i, k) \in Slots
BY MailboxAssumption DEF At, Slots

\* Writing words into the ring keeps it a ring of words.
LEMMA PutKeepsType ==
  ASSUME buf \in [Slots -> Nat], NEW i \in Slots, NEW s \in Seq(Nat)
  PROVE  put_in_mailbox(i, s) \in [Slots -> Nat]
<1>1. ASSUME NEW k \in Slots, (k - i) % Cap < Len(s)
      PROVE  s[((k - i) % Cap) + 1] \in Nat
  <2>1. (k - i) % Cap \in Nat
    BY MailboxAssumption DEF Slots
  <2>2. ((k - i) % Cap) + 1 \in 1 .. Len(s)
    BY <2>1, <1>1
  <2> QED BY <2>2
<1> QED BY <1>1 DEF put_in_mailbox

\* Words read out of the ring are words.
LEMMA GetType ==
  ASSUME buf \in [Slots -> Nat], NEW i \in Slots, NEW n \in Nat
  PROVE  get_from_mailbox(i, n) \in Seq(Nat)
<1>1. ASSUME NEW k \in 1 .. n PROVE buf[At(i, k - 1)] \in Nat
  <2>1. i \in Int /\ k - 1 \in Int
    BY DEF Slots
  <2>2. At(i, k - 1) \in Slots
    BY <2>1, AtIsSlot
  <2> QED BY <2>2
<1> QED BY <1>1 DEF get_from_mailbox

\* The owner reads through indices of the right type.
LEMMA IndexFields ==
  ASSUME NEW x \in Index PROVE x.r \in Slots /\ x.w \in Slots /\ x.r \in Int /\ x.w \in Int
BY DEF Index, Slots

\* Messages have a size.
LEMMA PayloadType == ASSUME NEW m \in Msgs
                     PROVE Payload[m] \in Seq(Nat) /\ Full(m) \in Nat /\ Len(Payload[m]) \in Nat
BY MailboxAssumption DEF Full, Header

\* The empty mailbox is well typed.
LEMMA InitType == Init => TypeOK
<1> SUFFICES ASSUME Init PROVE TypeOK
  OBVIOUS
<1>1. 0 \in Slots
  BY MailboxAssumption DEF Slots
<1>2. (CHOOSE m \in Msgs : TRUE) \in Msgs
  BY MailboxAssumption
<1>3. indices \in Index
  BY <1>1 DEF Init, Index
<1>4. snd \in [Senders -> SendState]
  BY <1>1, <1>2, <1>3 DEF Init, SendState, SenderPC
<1>5. rcv \in [pc : OwnerPC, curr : Index, msg : Seq(Nat)]
  BY <1>3 DEF Init, OwnerPC
<1> QED BY <1>3, <1>4, <1>5 DEF Init, TypeOK, Clear

\* The types of the parts of the state.
LEMMA TypeParts ==
  ASSUME TypeOK
  PROVE  /\ buf \in [Slots -> Nat] /\ indices \in Index /\ curr_val \in Index
         /\ \A p \in Senders : /\ snd[p].msg \in Msgs /\ snd[p].old \in Index
                               /\ snd[p].start \in Slots /\ snd[p].start \in Int
         /\ rcv.curr \in Index /\ rcv.msg \in Seq(Nat) /\ Len(rcv.msg) \in Nat
BY DEF TypeOK, SendState, Slots

\* Assigning a field of a sender's state a value of its type.
LEMMA FieldUpdates ==
  ASSUME NEW r \in SendState
  PROVE  /\ \A c \in SenderPC : [r EXCEPT !.pc = c] \in SendState
         /\ \A m \in Msgs : [r EXCEPT !.msg = m] \in SendState
         /\ \A x \in Index : [r EXCEPT !.old = x] \in SendState
         /\ \A n \in Nat : [r EXCEPT !.tries = n] \in SendState
         /\ \A n \in Nat : [r EXCEPT !.calls = n] \in SendState
BY DEF SendState

\* Replacing the state of one sender by another keeps the senders typed.
LEMMA SenderMoves ==
  ASSUME snd \in [Senders -> SendState], NEW p \in Senders, NEW s \in SendState,
         snd' = [snd EXCEPT ![p] = s]
  PROVE  snd' \in [Senders -> SendState]
OBVIOUS

\* A sender that only moves on in its call stays typed.
LEMMA SenderAdvances ==
  ASSUME snd \in [Senders -> SendState], NEW p \in Senders, NEW c \in SenderPC,
         snd' = [snd EXCEPT ![p].pc = c]
  PROVE  snd' \in [Senders -> SendState]
<1>1. [snd[p] EXCEPT !.pc = c] \in SendState
  BY DEF SendState
<1>2. snd' = [snd EXCEPT ![p] = [snd[p] EXCEPT !.pc = c]]
  OBVIOUS
<1> QED BY <1>1, <1>2, SenderMoves

\* Every step keeps the types.
LEMMA StepType == TypeOK /\ [Next]_vars => TypeOK'
<1> SUFFICES ASSUME TypeOK, [Next]_vars PROVE TypeOK'
  OBVIOUS
<1>1. ASSUME NEW p \in Senders, NEW m \in Msgs, SendStart(p, m) PROVE TypeOK'
  <2> DEFINE s == [snd[p] EXCEPT !.pc = "try", !.msg = m, !.old = indices, !.tries = 0,
                                 !.calls = snd[p].calls + 1]
  <2>1. s \in SendState
    <3>1. snd[p] \in SendState /\ indices \in Index
      BY DEF TypeOK
    <3>2. "try" \in SenderPC /\ 0 \in Nat /\ snd[p].calls + 1 \in Nat
      BY <3>1 DEF SendState, SenderPC
    <3> DEFINE s1 == [snd[p] EXCEPT !.pc = "try"]
               s2 == [s1 EXCEPT !.msg = m]
               s3 == [s2 EXCEPT !.old = indices]
               s4 == [s3 EXCEPT !.tries = 0]
    <3>3. s = [s4 EXCEPT !.calls = snd[p].calls + 1]
      OBVIOUS
    <3>4. s1 \in SendState
      BY <3>1, <3>2, FieldUpdates
    <3> HIDE DEF s1
    <3>5. s2 \in SendState
      BY <3>4, FieldUpdates
    <3> HIDE DEF s2
    <3>6. s3 \in SendState
      BY <3>1, <3>5, FieldUpdates
    <3> HIDE DEF s3
    <3>7. s4 \in SendState
      BY <3>2, <3>6, FieldUpdates
    <3> HIDE DEF s4, s
    <3> QED BY <3>2, <3>3, <3>7, FieldUpdates
  <2>2. snd' \in [Senders -> SendState]
    <3>1. snd' = [snd EXCEPT ![p] = s]
      BY <1>1 DEF SendStart
    <3> HIDE DEF s
    <3> QED BY <2>1, <3>1, SenderMoves DEF TypeOK
  <2> QED BY <1>1, <2>2 DEF SendStart, TypeOK, recvVars
<1>2. ASSUME NEW p \in Senders, SendReserve(p) PROVE TypeOK'
  <2> DEFINE x == snd[p].old
             e == [from |-> p, msg |-> snd[p].msg, start |-> x.w]
  <2>1. x \in Index /\ snd[p].msg \in Msgs
    BY TypeParts
  <2>2. x.w \in Slots /\ x.w \in Int /\ Full(snd[p].msg) \in Int
    BY <2>1, IndexFields, PayloadType
  <2>3. At(x.w, Full(snd[p].msg)) \in Slots
    BY <2>2, AtIsSlot
  <2>4. indices' \in Index
    BY <1>2, <2>1, <2>3 DEF SendReserve, Index
  <2>5. resv' \in Seq([from : Senders, msg : Msgs, start : Slots])
    <3>1. e \in [from : Senders, msg : Msgs, start : Slots]
      BY <2>1, <2>2
    <3>2. resv' = Append(resv, e)
      BY <1>2 DEF SendReserve
    <3> HIDE DEF e
    <3> QED BY <3>1, <3>2, AppendProperties DEF TypeOK
  <2>6. snd' \in [Senders -> SendState]
    <3>1. [snd[p] EXCEPT !.pc = "len", !.start = x.w] \in SendState
      BY <2>2 DEF TypeOK, SendState, SenderPC
    <3> QED BY <1>2, <3>1 DEF SendReserve, TypeOK
  <2> QED BY <1>2, <2>4, <2>5, <2>6 DEF SendReserve, TypeOK, recvVars
<1>3. ASSUME NEW p \in Senders, SendRetry(p) PROVE TypeOK'
  <2> DEFINE s == [snd[p] EXCEPT !.old = indices, !.tries = snd[p].tries + 1]
  <2>1. s \in SendState
    <3>1. snd[p] \in SendState /\ indices \in Index
      BY DEF TypeOK
    <3>2. snd[p].tries + 1 \in Nat
      BY <3>1 DEF SendState
    <3> DEFINE s1 == [snd[p] EXCEPT !.old = indices]
    <3>3. s1 \in SendState
      BY <3>1, FieldUpdates
    <3>4. s = [s1 EXCEPT !.tries = snd[p].tries + 1]
      OBVIOUS
    <3> HIDE DEF s1, s
    <3> QED BY <3>2, <3>3, <3>4, FieldUpdates
  <2>2. snd' \in [Senders -> SendState]
    <3>1. snd' = [snd EXCEPT ![p] = s]
      BY <1>3 DEF SendRetry
    <3> HIDE DEF s
    <3> QED BY <2>1, <3>1, SenderMoves DEF TypeOK
  <2> QED BY <1>3, <2>2 DEF SendRetry, TypeOK, recvVars
<1>4. ASSUME NEW p \in Senders, SendFail(p) PROVE TypeOK'
  BY <1>4 DEF SendFail, TypeOK, SendState, SenderPC, recvVars
<1>5. ASSUME NEW p \in Senders, SendAbort(p) PROVE TypeOK'
  BY <1>5 DEF SendAbort, TypeOK, SendState, SenderPC, recvVars
<1>6. ASSUME NEW p \in Senders, SendLen(p) \/ SendBody(p) PROVE TypeOK'
  <2>1. snd[p].start \in Int /\ Payload[snd[p].msg] \in Seq(Nat)
    BY TypeParts, PayloadType
  <2>2. At(snd[p].start, 1) \in Slots /\ At(snd[p].start, Header) \in Slots
    BY <2>1, AtIsSlot DEF Header
  <2>3. <<Len(Payload[snd[p].msg]), 0>> \in Seq(Nat)
    BY <2>1
  <2>4. buf' \in [Slots -> Nat]
    <3>1. CASE SendLen(p)
      BY <3>1, <2>2, <2>3, PutKeepsType, TypeParts DEF SendLen
    <3>2. CASE SendBody(p)
      BY <3>2, <2>1, <2>2, PutKeepsType, TypeParts DEF SendBody
    <3> QED BY <1>6, <3>1, <3>2
  <2>5. snd' \in [Senders -> SendState]
    BY <1>6, SenderAdvances DEF SendLen, SendBody, TypeOK, SenderPC
  <2> QED BY <1>6, <2>4, <2>5 DEF SendLen, SendBody, TypeOK, recvVars
<1>7. ASSUME NEW p \in Senders, SendSentinel(p) PROVE TypeOK'
  <2>1. {snd[p].start} \in SUBSET Slots
    BY TypeParts
  <2> QED BY <1>7, <2>1 DEF SendSentinel, TypeOK, SendState, SenderPC, recvVars
<1>8. ASSUME NEW p \in Senders, SentinelLands(p) PROVE TypeOK'
  <2>1. <<Sentinel>> \in Seq(Nat)
    BY DEF Sentinel
  <2>2. PICK i \in flying[p] : /\ buf' = put_in_mailbox(i, <<Sentinel>>)
                               /\ flying' = [flying EXCEPT ![p] = @ \ {i}]
    BY <1>8 DEF SentinelLands
  <2>3. i \in Slots
    BY DEF TypeOK
  <2>4. buf' \in [Slots -> Nat]
    BY <2>1, <2>2, <2>3, PutKeepsType, TypeParts
  <2>5. flying' \in [Senders -> SUBSET Slots]
    BY <2>2 DEF TypeOK
  <2> QED BY <1>8, <2>4, <2>5 DEF SentinelLands, TypeOK, recvVars
<1>9. ASSUME RecvPoll PROVE TypeOK'
  BY <1>9 DEF RecvPoll, RecvIndices, TypeOK, OwnerPC, sendVars
<1>10. ASSUME RecvCopy PROVE TypeOK'
  <2>1. rcv.curr.r \in Int
    BY TypeParts, IndexFields
  <2>2. At(rcv.curr.r, Header) \in Slots /\ At(rcv.curr.r, 1) \in Slots
    BY <2>1, AtIsSlot DEF Header
  <2>3. buf[At(rcv.curr.r, 1)] \in Nat
    BY <2>2, TypeParts
  <2>4. get_from_mailbox(At(rcv.curr.r, Header), buf[At(rcv.curr.r, 1)]) \in Seq(Nat)
    BY <2>2, <2>3, GetType, TypeParts
  <2> QED BY <1>10, <2>4 DEF RecvCopy, TypeOK, OwnerPC, sendVars
<1>11. ASSUME RecvClear \/ RecvUnmark PROVE TypeOK'
  <2>1. rcv.curr.r \in Slots /\ rcv.curr.r \in Int
    BY TypeParts, IndexFields
  <2>2. At(rcv.curr.r, 1) \in Slots
    BY <2>1, AtIsSlot
  <2>3. Zeros(2 + Len(rcv.msg)) \in Seq(Nat) /\ <<Clear>> \in Seq(Nat)
    BY TypeParts DEF Zeros, Clear
  <2>4. buf' \in [Slots -> Nat]
    <3>1. CASE RecvClear
      BY <3>1, <2>2, <2>3, PutKeepsType, TypeParts DEF RecvClear
    <3>2. CASE RecvUnmark
      BY <3>2, <2>1, <2>3, PutKeepsType, TypeParts DEF RecvUnmark
    <3> QED BY <1>11, <3>1, <3>2
  <2>5. rcv' \in [pc : OwnerPC, curr : Index, msg : Seq(Nat)]
    BY <1>11 DEF RecvClear, RecvUnmark, TypeOK, OwnerPC
  <2> QED BY <1>11, <2>4, <2>5 DEF RecvClear, RecvUnmark, TypeOK, sendVars
<1>12. ASSUME RecvAdvance PROVE TypeOK'
  <2>1. rcv.curr.r \in Int /\ Header + Len(rcv.msg) \in Int
    BY TypeParts, IndexFields DEF Header
  <2>2. At(rcv.curr.r, Header + Len(rcv.msg)) \in Slots
    BY <2>1, AtIsSlot
  <2>3. indices' \in Index
    BY <1>12, <2>2, TypeParts DEF RecvAdvance, Index
  <2>4. resv' \in Seq([from : Senders, msg : Msgs, start : Slots])
    <3>1. ASSUME NEW T, NEW q \in Seq(T) PROVE SubSeq(q, 2, Len(q)) \in Seq(T)
      <4>1. \A i \in 2 .. Len(q) : q[i] \in T
        OBVIOUS
      <4> QED BY <4>1, SubSeqProperties
    <3> QED BY <1>12, <3>1 DEF RecvAdvance, TypeOK
  <2>5. delivered' \in Seq(Seq(Nat))
    BY <1>12, TypeParts, AppendProperties DEF RecvAdvance, TypeOK
  <2>6. rcv' \in [pc : OwnerPC, curr : Index, msg : Seq(Nat)]
    BY <1>12 DEF RecvAdvance, TypeOK, OwnerPC
  <2> QED BY <1>12, <2>3, <2>4, <2>5, <2>6 DEF RecvAdvance, TypeOK, sendVars
<1>13. ASSUME RecvAdvanceRetry PROVE TypeOK'
  BY <1>13 DEF RecvAdvanceRetry, TypeOK, sendVars
<1>14. ASSUME RecvNothing \/ UNCHANGED vars PROVE TypeOK'
  BY <1>14 DEF RecvNothing, vars, TypeOK
<1>15. ASSUME NEW p \in Senders, Send(p) PROVE TypeOK'
  BY <1>1, <1>2, <1>3, <1>4, <1>5, <1>6, <1>7, <1>8, <1>15 DEF Send, Put
<1>16. ASSUME Recv PROVE TypeOK'
  BY <1>9, <1>10, <1>11, <1>12, <1>13, <1>14, <1>16 DEF Recv
<1> QED BY <1>14, <1>15, <1>16 DEF Next

\* The mailbox never leaves its types: no index outside the ring, no word that
\* is not one, for any capacity and any number of senders.
THEOREM MailboxTypes == SafeSpec => []TypeOK
BY InitType, StepType, PTL DEF SafeSpec

(***************************************************************************)
(* The ring of the mailbox for every capacity, every set of senders and    *)
(* every set of messages.                                                  *)
(*                                                                         *)
(* Slots are compared by their distance from the read index, where the     *)
(* reservations lie one behind the other; the first lemmas turn the        *)
(* arithmetic modulo the capacity into that of distances.  The invariant   *)
(* says where the reservations lie, which word each of their slots holds   *)
(* at every stage of its sender and of the owner, and that all other slots *)
(* are clear.  From it follow that no two senders share a word, that a     *)
(* sentinel the owner sees is one a sender put, and that the mailbox is a  *)
(* channel.                                                                *)
(***************************************************************************)

\* How far slot k lies after slot i, going round the ring.
Rel(i, k) == (k - i) % Cap

(* Geometry of the ring *)

\* The capacity leaves room for a header and more.
LEMMA CapBounds == Cap \in Nat /\ Cap > Header
<1>1. PICK m \in Msgs : TRUE
  BY MailboxAssumption
<1>2. Full(m) < Cap /\ Len(Payload[m]) \in Nat
  BY <1>1, MailboxAssumption, PayloadType
<1> QED BY <1>2, MailboxAssumption DEF Full, Header

\* Modulo the capacity, a sum within one turn loses the capacity at most once.
LEMMA ModOnce ==
  ASSUME NEW x \in Int, - Cap <= x, x < 2 * Cap
  PROVE  x % Cap = IF x < 0 THEN x + Cap ELSE IF x < Cap THEN x ELSE x - Cap
BY CapBounds DEF Header

\* The distance from a slot to another, without the modulus.
LEMMA RelIs ==
  ASSUME NEW i \in Slots, NEW k \in Slots
  PROVE  Rel(i, k) = (IF k >= i THEN k - i ELSE k - i + Cap) /\ Rel(i, k) \in Slots
<1>1. i \in Int /\ k \in Int /\ - Cap <= k - i /\ k - i < Cap /\ i >= 0 /\ k >= 0 /\ i < Cap /\ k < Cap
  BY CapBounds DEF Slots
<1>2. (k - i) % Cap = IF k - i < 0 THEN k - i + Cap ELSE IF k - i < Cap THEN k - i ELSE k - i - Cap
  BY <1>1, ModOnce, CapBounds
<1> QED BY <1>1, <1>2, CapBounds DEF Rel, Slots

\* The slot at an offset, without the modulus.
LEMMA AtIs ==
  ASSUME NEW i \in Slots, NEW a \in 0 .. Cap
  PROVE  At(i, a) = (IF i + a < Cap THEN i + a ELSE i + a - Cap) /\ At(i, a) \in Slots
<1>1. i \in Int /\ a \in Int /\ - Cap <= i + a /\ i + a < 2 * Cap /\ i >= 0 /\ a >= 0
  BY CapBounds DEF Slots
<1>2. (i + a) % Cap = IF i + a < 0 THEN i + a + Cap ELSE IF i + a < Cap THEN i + a ELSE i + a - Cap
  BY <1>1, ModOnce, CapBounds
<1> QED BY <1>1, <1>2, CapBounds DEF At, Slots

\* Distances are natural numbers below the capacity.
LEMMA RelNat == ASSUME NEW i \in Slots, NEW k \in Slots PROVE Rel(i, k) \in Nat /\ Rel(i, k) < Cap
<1>1. Rel(i, k) \in Slots
  BY RelIs
<1> QED BY <1>1, CapBounds DEF Slots

\* Only a slot itself lies at distance zero.
LEMMA RelSelf == ASSUME NEW i \in Slots, NEW k \in Slots PROVE Rel(i, k) = 0 <=> i = k
<1>1. Rel(i, k) = IF k >= i THEN k - i ELSE k - i + Cap
  BY RelIs
<1> QED BY <1>1, CapBounds DEF Slots

\* Distances to and from a slot at an offset.
LEMMA RelAt ==
  ASSUME NEW i \in Slots, NEW k \in Slots, NEW a \in 0 .. Cap - 1
  PROVE  /\ At(i, a) \in Slots /\ Rel(i, At(i, a)) = a
         /\ Rel(At(i, a), k) = IF Rel(i, k) >= a THEN Rel(i, k) - a ELSE Rel(i, k) - a + Cap
<1>1. a \in 0 .. Cap /\ a \in Int /\ Cap \in Int
  BY CapBounds
<1>2. At(i, a) \in Slots /\ At(i, a) = IF i + a < Cap THEN i + a ELSE i + a - Cap
  BY <1>1, AtIs
<1>3. /\ Rel(i, At(i, a)) = IF At(i, a) >= i THEN At(i, a) - i ELSE At(i, a) - i + Cap
      /\ Rel(At(i, a), k) = IF k >= At(i, a) THEN k - At(i, a) ELSE k - At(i, a) + Cap
      /\ Rel(i, k) = IF k >= i THEN k - i ELSE k - i + Cap
  BY <1>2, RelIs
<1> QED BY <1>1, <1>2, <1>3 DEF Slots

\* The distance between two slots from their distances to a third.
LEMMA RelChange ==
  ASSUME NEW r \in Slots, NEW i \in Slots, NEW k \in Slots
  PROVE  Rel(i, k) = IF Rel(r, k) >= Rel(r, i) THEN Rel(r, k) - Rel(r, i)
                     ELSE Rel(r, k) - Rel(r, i) + Cap
<1>1. /\ Rel(r, i) = IF i >= r THEN i - r ELSE i - r + Cap
      /\ Rel(r, k) = IF k >= r THEN k - r ELSE k - r + Cap
      /\ Rel(i, k) = IF k >= i THEN k - i ELSE k - i + Cap
  BY RelIs
<1> QED BY <1>1, CapBounds DEF Slots

\* Going the distance to a slot leads to it.
LEMMA AtRel == ASSUME NEW i \in Slots, NEW k \in Slots PROVE At(i, Rel(i, k)) = k
<1>1. /\ Rel(i, k) = IF k >= i THEN k - i ELSE k - i + Cap
      /\ Rel(i, k) \in 0 .. Cap
  BY RelIs, CapBounds DEF Slots
<1>2. At(i, Rel(i, k)) = IF i + Rel(i, k) < Cap THEN i + Rel(i, k) ELSE i + Rel(i, k) - Cap
  BY <1>1, AtIs
<1> QED BY <1>1, <1>2, CapBounds DEF Slots

\* The pending words of indices are the distance from the read to the write index.
LEMMA UsedIsRel == ASSUME NEW x \in Index PROVE used_bytes(x) = Rel(x.r, x.w)
<1>1. x.r \in Slots /\ x.w \in Slots
  BY DEF Index
<1>2. Rel(x.r, x.w) = IF x.w >= x.r THEN x.w - x.r ELSE x.w - x.r + Cap
  BY <1>1, RelIs
<1> QED BY <1>1, <1>2, CapBounds DEF used_bytes, Slots

\* What a put does, seen from a slot a words before the one it writes from.
LEMMA PutAt ==
  ASSUME NEW i \in Slots, NEW a \in 0 .. Cap - 1, NEW s \in Seq(Nat), a + Len(s) <= Cap,
         NEW k \in Slots
  PROVE  put_in_mailbox(At(i, a), s)[k] =
           IF a <= Rel(i, k) /\ Rel(i, k) < a + Len(s) THEN s[Rel(i, k) - a + 1] ELSE buf[k]
<1>1. put_in_mailbox(At(i, a), s)[k] =
        IF Rel(At(i, a), k) < Len(s) THEN s[Rel(At(i, a), k) + 1] ELSE buf[k]
  BY DEF put_in_mailbox, Rel
<1>2. Rel(At(i, a), k) = IF Rel(i, k) >= a THEN Rel(i, k) - a ELSE Rel(i, k) - a + Cap
  BY RelAt
<1>3. Rel(i, k) \in Nat /\ Rel(i, k) < Cap
  BY RelIs, CapBounds DEF Slots
<1>4. CASE a <= Rel(i, k)
  BY <1>1, <1>2, <1>3, <1>4, CapBounds
<1>5. CASE ~(a <= Rel(i, k))
  BY <1>1, <1>2, <1>3, <1>5, CapBounds
<1> QED BY <1>4, <1>5

\* A put of one word.
LEMMA PutOne ==
  ASSUME NEW i \in Slots, NEW x \in Nat, NEW k \in Slots
  PROVE  put_in_mailbox(i, <<x>>)[k] = IF k = i THEN x ELSE buf[k]
<1>1. put_in_mailbox(i, <<x>>)[k] = IF Rel(i, k) < Len(<<x>>) THEN <<x>>[Rel(i, k) + 1] ELSE buf[k]
  BY DEF put_in_mailbox, Rel
<1>2. Rel(i, k) \in Nat /\ (Rel(i, k) = 0 <=> i = k)
  BY RelIs, RelSelf, CapBounds DEF Slots
<1> QED BY <1>1, <1>2

(* The inductive invariant *)

Dist(k) == Rel(indices.r, k)
Size(j) == Full(resv[j].msg)
End(j)  == Dist(resv[j].start) + Size(j)

\* How far the sender of the j-th reservation is with it.
Mid == {"len", "body", "sentinel"}
Writing(j) == /\ snd[resv[j].from].pc \in Mid
              /\ snd[resv[j].from].start = resv[j].start
Stage(j) == IF Writing(j) THEN snd[resv[j].from].pc
            ELSE IF resv[j].start \in flying[resv[j].from] THEN "flying" ELSE "marked"

\* How far the owner is with it.
Taken(j) == IF j = 1 THEN rcv.pc ELSE "idle"

\* The word at offset d of a message m whose sender is at stage s and whose
\* receiver is at t.
WordAt(m, s, t, d) ==
  IF d = 0 THEN IF s = "marked" /\ t # "advance" THEN Sentinel ELSE Clear
  ELSE IF d = 2 \/ s = "len" \/ t \in {"unmark", "advance"} THEN Clear
  ELSE IF d = 1 THEN Len(Payload[m])
  ELSE IF s = "body" THEN Clear ELSE Payload[m][d - 2]
Word(j, d) == WordAt(resv[j].msg, Stage(j), Taken(j), d)

\* The reservations lie end to end from the read to the write index.
Tiling ==
  /\ resv = <<>> => indices.w = indices.r
  /\ resv # <<>> => /\ resv[1].start = indices.r
                    /\ Dist(indices.w) = End(Len(resv))
  /\ \A j \in DOMAIN resv : j # 1 => Dist(resv[j].start) = End(j - 1)
  /\ \A j \in DOMAIN resv : End(j) <= Dist(indices.w)
  /\ \A i, j \in DOMAIN resv : i < j => End(i) <= Dist(resv[j].start)

\* Every word of a reservation is the one its two sides have made it, and every
\* word outside them is clear.
Contents ==
  /\ \A j \in DOMAIN resv : \A k \in Slots :
       Rel(resv[j].start, k) < Size(j) => buf[k] = Word(j, Rel(resv[j].start, k))
  /\ \A k \in Slots :
       (\A j \in DOMAIN resv : ~(Rel(resv[j].start, k) < Size(j))) => buf[k] = Clear

\* A sender in the middle of its puts, or with a sentinel in flight, works on a
\* reservation of its own, and its puts go to its reservations in order.
SendersHold ==
  \A p \in Senders :
    /\ snd[p].pc \in Mid => \E j \in DOMAIN resv : /\ resv[j].from = p
                                                   /\ resv[j].start = snd[p].start
                                                   /\ resv[j].msg = snd[p].msg
    /\ \A i \in flying[p] : \E j \in DOMAIN resv : resv[j].from = p /\ resv[j].start = i
    /\ \A i1, i2 \in flying[p] : i1 = i2
    /\ \A i, j \in DOMAIN resv :
         /\ resv[i].from = p /\ resv[i].start \in flying[p]
         /\ resv[j].from = p /\ Writing(j)
         => i < j

\* The indices the owner saved show no more than there is, and from the copy on
\* it works on a completed message.
OwnerHolds ==
  /\ curr_val.r = indices.r /\ Dist(curr_val.w) <= Dist(indices.w)
  /\ rcv.pc # "idle" => /\ resv # <<>>
                        /\ rcv.curr.r = indices.r /\ used_bytes(rcv.curr) > 0
  /\ rcv.pc \in {"clear", "unmark", "advance"} =>
       Stage(1) = "marked" /\ rcv.msg = Payload[resv[1].msg]

RingInv == TypeOK /\ Tiling /\ Contents /\ SendersHold /\ OwnerHolds

(* Consequences *)

\* The elements of a sequence, and their positions.
LEMMA ElementOf ==
  ASSUME NEW T, NEW q \in Seq(T), NEW j \in DOMAIN q
  PROVE  q[j] \in T /\ DOMAIN q = 1 .. Len(q) /\ Len(q) \in Nat /\ j \in 1 .. Len(q)
OBVIOUS

\* The types of a reservation.
LEMMA EntryType ==
  ASSUME TypeOK, NEW j \in DOMAIN resv
  PROVE  /\ resv[j].start \in Slots /\ resv[j].from \in Senders /\ resv[j].msg \in Msgs
         /\ Size(j) \in Nat /\ Header <= Size(j) /\ Size(j) < Cap
         /\ Size(j) = Header + Len(Payload[resv[j].msg])
         /\ Dist(resv[j].start) \in Slots
         /\ j \in Nat /\ 1 <= j /\ j <= Len(resv) /\ Len(resv) \in Nat
<1>1. resv[j] \in [from : Senders, msg : Msgs, start : Slots]
  BY ElementOf DEF TypeOK
<1>2. resv[j].msg \in Msgs
  BY <1>1
<1>2a. Full(resv[j].msg) < Cap /\ Len(Payload[resv[j].msg]) \in Nat
  BY <1>2, MailboxAssumption, PayloadType
<1>3. Dist(resv[j].start) \in Slots
  <2>1. indices.r \in Slots /\ resv[j].start \in Slots
    BY <1>1 DEF TypeOK, Index
  <2> QED BY <2>1, RelIs DEF Dist
<1>4. DOMAIN resv = 1 .. Len(resv) /\ Len(resv) \in Nat
  BY ElementOf DEF TypeOK
<1> QED BY <1>1, <1>2, <1>2a, <1>3, <1>4 DEF Size, Full, Header

\* The slots of a reservation are those at its distances from the read index.
LEMMA InRegion ==
  ASSUME TypeOK, Tiling, NEW j \in DOMAIN resv, NEW k \in Slots
  PROVE  /\ Rel(resv[j].start, k) \in Slots /\ Dist(k) \in Slots
         /\ Rel(resv[j].start, k) < Size(j) <=>
              Dist(resv[j].start) <= Dist(k) /\ Dist(k) < End(j)
         /\ Rel(resv[j].start, k) < Size(j) =>
              Dist(k) = Dist(resv[j].start) + Rel(resv[j].start, k)
<1>1. /\ resv[j].start \in Slots /\ Size(j) \in Nat /\ Dist(resv[j].start) \in Slots
  BY EntryType
<1>2. indices.r \in Slots /\ indices.w \in Slots
  BY DEF TypeOK, Index
<1>3. Rel(resv[j].start, k) = IF Dist(k) >= Dist(resv[j].start) THEN Dist(k) - Dist(resv[j].start)
                              ELSE Dist(k) - Dist(resv[j].start) + Cap
  BY <1>1, <1>2, RelChange DEF Dist
<1>4. Rel(resv[j].start, k) \in Slots /\ Dist(k) \in Slots /\ Dist(indices.w) \in Slots
  BY <1>1, <1>2, RelIs DEF Dist
<1>5. Dist(resv[j].start) + Size(j) <= Dist(indices.w)
  BY DEF Tiling, End
<1> QED BY <1>1, <1>3, <1>4, <1>5, CapBounds DEF Slots, End

\* No slot is in two reservations.
LEMMA RegionsApart ==
  ASSUME TypeOK, Tiling, NEW i \in DOMAIN resv, NEW j \in DOMAIN resv, NEW k \in Slots,
         Rel(resv[i].start, k) < Size(i), Rel(resv[j].start, k) < Size(j)
  PROVE  i = j
<1>1. /\ Dist(resv[i].start) <= Dist(k) /\ Dist(k) < End(i)
      /\ Dist(resv[j].start) <= Dist(k) /\ Dist(k) < End(j)
  BY InRegion
<1>2. /\ Dist(resv[i].start) \in Nat /\ Dist(resv[j].start) \in Nat /\ Dist(k) \in Nat
      /\ Size(i) \in Nat /\ Size(j) \in Nat /\ i \in Nat /\ j \in Nat
  BY EntryType, InRegion, CapBounds DEF Slots
<1>3. i < j => End(i) <= Dist(resv[j].start)
  BY DEF Tiling
<1>4. j < i => End(j) <= Dist(resv[i].start)
  BY DEF Tiling
<1> QED BY <1>1, <1>2, <1>3, <1>4 DEF End

\* A reservation starts in its own region, so no two start at the same slot.
LEMMA StartsApart ==
  ASSUME TypeOK, Tiling, NEW i \in DOMAIN resv, NEW j \in DOMAIN resv,
         resv[i].start = resv[j].start
  PROVE  i = j
<1>1. /\ resv[i].start \in Slots /\ Size(i) \in Nat /\ Size(i) >= Header
      /\ Size(j) \in Nat /\ Size(j) >= Header
  BY EntryType
<1>2. Rel(resv[i].start, resv[i].start) = 0
  BY <1>1, RelSelf
<1>3. Rel(resv[i].start, resv[i].start) < Size(i) /\ Rel(resv[j].start, resv[i].start) < Size(j)
  BY <1>1, <1>2 DEF Header
<1> QED BY <1>1, <1>3, RegionsApart

(* What the steps leave alone *)

\* The empty ring.
LEMMA RingInit == Init => RingInv
<1> SUFFICES ASSUME Init PROVE RingInv
  OBVIOUS
<1>1. TypeOK
  BY InitType
<1>2. resv = <<>> /\ DOMAIN resv = {} /\ indices = [r |-> 0, w |-> 0] /\ curr_val = indices
      /\ rcv.pc = "idle"
  BY DEF Init
<1>3. Tiling
  BY <1>2 DEF Tiling
<1>4. Contents
  BY <1>2 DEF Init, Contents
<1>5. SendersHold
  BY <1>2 DEF Init, SendersHold, Mid
<1>6. OwnerHolds
  <2>1. Dist(curr_val.w) \in Int /\ curr_val.w = indices.w
    BY <1>1, <1>2, RelIs, CapBounds DEF Dist, TypeOK, Index, Slots
  <2> QED BY <1>2, <2>1 DEF OwnerHolds
<1> QED BY <1>1, <1>3, <1>4, <1>5, <1>6 DEF RingInv

\* A step that moves neither index and reserves nothing keeps the tiling.
LEMMA TilingKept == ASSUME Tiling, UNCHANGED <<indices, resv>> PROVE Tiling'
BY DEF Tiling, Dist, End, Size

\* A step that changes at most the words of one reservation, into those it is
\* then to have, keeps the contents.
LEMMA EntryWritten ==
  ASSUME TypeOK, Tiling, Contents, UNCHANGED resv, NEW j \in DOMAIN resv,
         \A k \in Slots : ~(Rel(resv[j].start, k) < Size(j)) => buf'[k] = buf[k],
         \A k \in Slots : Rel(resv[j].start, k) < Size(j) =>
                            buf'[k] = Word(j, Rel(resv[j].start, k))',
         \A i \in DOMAIN resv : i # j => Stage(i)' = Stage(i) /\ Taken(i)' = Taken(i)
  PROVE  Contents'
<1>1. ASSUME NEW i \in DOMAIN resv, NEW k \in Slots, Rel(resv[i].start, k) < Size(i)
      PROVE  buf'[k] = Word(i, Rel(resv[i].start, k))'
  <2>1. CASE i = j
    BY <1>1, <2>1
  <2>2. CASE i # j
    <3>1. ~(Rel(resv[j].start, k) < Size(j))
      BY <1>1, <2>2, RegionsApart
    <3>2. buf'[k] = buf[k] /\ buf[k] = Word(i, Rel(resv[i].start, k))
      BY <1>1, <3>1 DEF Contents
    <3>3. Word(i, Rel(resv[i].start, k))' = Word(i, Rel(resv[i].start, k))
      BY <2>2 DEF Word
    <3> QED BY <3>2, <3>3
  <2> QED BY <2>1, <2>2
<1>2. ASSUME NEW k \in Slots, \A i \in DOMAIN resv : ~(Rel(resv[i].start, k) < Size(i))
      PROVE  buf'[k] = Clear
  BY <1>2 DEF Contents
<1>3. \A i \in DOMAIN resv : Size(i)' = Size(i)
  BY DEF Size
<1> QED BY <1>1, <1>2, <1>3 DEF Contents

\* A step that changes no word, no reservation and no stage keeps the contents.
LEMMA ContentsKept ==
  ASSUME Contents, UNCHANGED <<buf, resv>>,
         \A j \in DOMAIN resv : \A d : Word(j, d)' = Word(j, d)
  PROVE  Contents'
<1>1. \A j \in DOMAIN resv : Size(j)' = Size(j)
  BY DEF Size
<1> QED BY <1>1 DEF Contents

\* Stages are made of the senders' states and the puts in flight.
LEMMA StageKept ==
  ASSUME UNCHANGED resv, NEW j \in DOMAIN resv, resv[j].from \in Senders,
         snd'[resv[j].from] = snd[resv[j].from], flying'[resv[j].from] = flying[resv[j].from]
  PROVE  Stage(j)' = Stage(j) /\ (Writing(j)' <=> Writing(j))
BY DEF Stage, Writing

\* A step of the owner alone keeps what the senders hold.
LEMMA SendersKept ==
  ASSUME SendersHold, UNCHANGED <<snd, flying, resv>> PROVE SendersHold'
BY DEF SendersHold, Writing

\* A sender outside its puts changes nothing but its own state.
LEMMA QuietSender ==
  ASSUME RingInv, TypeOK', NEW p \in Senders, snd[p].pc \notin Mid, snd'[p].pc \notin Mid,
         \A q \in Senders : q # p => snd'[q] = snd[q],
         UNCHANGED <<buf, indices, flying, rcv, curr_val, resv>>
  PROVE  RingInv'
<1>1. TypeOK /\ Tiling /\ Contents /\ SendersHold /\ OwnerHolds
  BY DEF RingInv
<1>2. ASSUME NEW j \in DOMAIN resv
      PROVE  Stage(j)' = Stage(j) /\ (Writing(j)' <=> Writing(j)) /\ Taken(j)' = Taken(j)
  <2>1. resv[j].from \in Senders
    BY <1>1, EntryType
  <2>2. CASE resv[j].from = p
    BY <2>2 DEF Stage, Writing, Taken
  <2>3. CASE resv[j].from # p
    BY <2>1, <2>3, StageKept DEF Taken
  <2> QED BY <2>2, <2>3
<1>3. Tiling'
  BY <1>1, TilingKept
<1>4. Contents'
  <2>1. \A j \in DOMAIN resv : \A d : Word(j, d)' = Word(j, d)
    BY <1>2 DEF Word
  <2> QED BY <1>1, <2>1, ContentsKept
<1>5. SendersHold'
  <2>1. ASSUME NEW q \in Senders, snd'[q].pc \in Mid PROVE snd'[q] = snd[q]
    BY <2>1
  <2> QED BY <1>1, <1>2, <2>1 DEF SendersHold
<1>6. OwnerHolds'
  <2>1. resv # <<>> => 1 \in DOMAIN resv
    BY <1>1 DEF TypeOK
  <2>2. resv # <<>> => Stage(1)' = Stage(1)
    BY <1>2, <2>1
  <2>3. rcv.pc \in {"clear", "unmark", "advance"} => resv # <<>>
    BY <1>1 DEF OwnerHolds
  <2> QED BY <1>1, <2>2, <2>3 DEF OwnerHolds, Dist, used_bytes
<1> QED BY <1>3, <1>4, <1>5, <1>6 DEF RingInv

(* The senders *)

\* The owner does not take a message whose sender has not finished.
LEMMA OpenNotTaken ==
  ASSUME RingInv, NEW j \in DOMAIN resv, Stage(j) # "marked"
  PROVE  Taken(j) \notin {"clear", "unmark", "advance"}
BY DEF RingInv, OwnerHolds, Taken

\* The reservation a sender is writing.
LEMMA WritingEntry ==
  ASSUME RingInv, NEW p \in Senders, snd[p].pc \in Mid
  PROVE  \E j \in DOMAIN resv :
           /\ resv[j].from = p /\ resv[j].start = snd[p].start /\ resv[j].msg = snd[p].msg
           /\ Writing(j) /\ Stage(j) = snd[p].pc
           /\ Taken(j) \notin {"clear", "unmark", "advance"}
           /\ \A i \in DOMAIN resv : i # j => resv[i].start # snd[p].start
<1>1. PICK j \in DOMAIN resv : /\ resv[j].from = p
                               /\ resv[j].start = snd[p].start /\ resv[j].msg = snd[p].msg
  BY DEF RingInv, SendersHold
<1>2. Writing(j) /\ Stage(j) = snd[p].pc
  BY <1>1 DEF Writing, Stage
<1>3. Stage(j) # "marked"
  BY <1>2 DEF Mid
<1>4. \A i \in DOMAIN resv : i # j => resv[i].start # snd[p].start
  BY <1>1, StartsApart DEF RingInv
<1> QED BY <1>1, <1>2, <1>3, <1>4, OpenNotTaken

\* The reservation whose sentinel is in flight.
LEMMA FlyingEntry ==
  ASSUME RingInv, NEW p \in Senders, NEW i \in flying[p]
  PROVE  /\ flying[p] = {i}
         /\ \E j \in DOMAIN resv :
              /\ resv[j].from = p /\ resv[j].start = i
              /\ ~Writing(j) /\ Stage(j) = "flying"
              /\ Taken(j) \notin {"clear", "unmark", "advance"}
              /\ \A m \in DOMAIN resv : m # j => resv[m].start # i
<1>1. PICK j \in DOMAIN resv : resv[j].from = p /\ resv[j].start = i
  BY DEF RingInv, SendersHold
<1>2. j \in Nat
  BY EntryType DEF RingInv
<1>3. ~Writing(j)
  <2>1. Writing(j) => j < j
    BY <1>1 DEF RingInv, SendersHold
  <2> QED BY <1>2, <2>1
<1>4. Stage(j) = "flying"
  BY <1>1, <1>3 DEF Stage
<1>5. \A m \in DOMAIN resv : m # j => resv[m].start # i
  BY <1>1, StartsApart DEF RingInv
<1>6. flying[p] = {i}
  BY DEF RingInv, SendersHold
<1> QED BY <1>1, <1>3, <1>4, <1>5, <1>6, OpenNotTaken

\* A sender that goes on to another put of the same message.
LEMMA WriterMoves ==
  ASSUME RingInv, NEW p \in Senders, snd[p].pc \in Mid, NEW c \in Mid,
         snd' = [snd EXCEPT ![p].pc = c],
         UNCHANGED <<indices, flying, rcv, curr_val, resv>>,
         NEW j \in DOMAIN resv, resv[j].from = p, resv[j].start = snd[p].start
  PROVE  /\ SendersHold' /\ OwnerHolds' /\ Stage(j)' = c
         /\ \A i \in DOMAIN resv : i # j => Stage(i)' = Stage(i) /\ Taken(i)' = Taken(i)
<1>1. TypeOK /\ Tiling /\ SendersHold /\ OwnerHolds
  BY DEF RingInv
<1>2. /\ snd'[p].pc = c /\ snd'[p].start = snd[p].start /\ snd'[p].msg = snd[p].msg
      /\ \A q \in Senders : q # p => snd'[q] = snd[q]
  BY <1>1 DEF TypeOK, SendState
<1>3. ASSUME NEW i \in DOMAIN resv PROVE Writing(i)' <=> Writing(i)
  <2>1. resv[i].from \in Senders
    BY <1>1, EntryType
  <2> QED BY <1>2, <2>1 DEF Writing
<1>4. ASSUME NEW i \in DOMAIN resv, i # j PROVE Stage(i)' = Stage(i) /\ Taken(i)' = Taken(i)
  <2>1. resv[i].from \in Senders
    BY <1>1, EntryType
  <2>2. resv[i].start # snd[p].start
    BY <1>1, <1>4, StartsApart
  <2>3. CASE resv[i].from = p
    BY <1>2, <2>2, <2>3 DEF Stage, Writing, Taken
  <2>4. CASE resv[i].from # p
    BY <1>2, <2>1, <2>4, StageKept DEF Taken
  <2> QED BY <2>3, <2>4
<1>5. Stage(j)' = c
  BY <1>2 DEF Stage, Writing
<1>6. SendersHold'
  <2>1. ASSUME NEW q \in Senders, snd'[q].pc \in Mid
        PROVE  snd[q].pc \in Mid /\ snd'[q].start = snd[q].start /\ snd'[q].msg = snd[q].msg
    BY <1>2, <2>1
  <2> QED BY <1>1, <1>3, <2>1 DEF SendersHold
<1>7. OwnerHolds'
  <2>1. rcv.pc \in {"clear", "unmark", "advance"} => 1 \in DOMAIN resv /\ j # 1
    <3>1. Stage(j) # "marked"
      BY DEF Stage, Writing, Mid
    <3> QED BY <1>1, <3>1 DEF OwnerHolds, TypeOK
  <2> QED BY <1>1, <1>4, <2>1 DEF OwnerHolds, Dist, used_bytes
<1> QED BY <1>4, <1>5, <1>6, <1>7

\* The length goes into the second and third word of the reservation.
LEMMA RingSendLen == ASSUME RingInv, TypeOK', NEW p \in Senders, SendLen(p) PROVE RingInv'
<1>1. TypeOK /\ Tiling /\ Contents
  BY DEF RingInv
<1>2. snd[p].pc = "len" /\ snd[p].pc \in Mid /\ "body" \in Mid
  BY DEF SendLen, Mid
<1>3. PICK j \in DOMAIN resv :
        /\ resv[j].from = p /\ resv[j].start = snd[p].start /\ resv[j].msg = snd[p].msg
        /\ Writing(j) /\ Stage(j) = "len"
        /\ Taken(j) \notin {"clear", "unmark", "advance"}
  BY <1>2, WritingEntry
<1>4. /\ SendersHold' /\ OwnerHolds' /\ Stage(j)' = "body"
      /\ \A i \in DOMAIN resv : i # j => Stage(i)' = Stage(i) /\ Taken(i)' = Taken(i)
  BY <1>2, <1>3, WriterMoves DEF SendLen, recvVars
<1>5. Tiling'
  BY <1>1, TilingKept DEF SendLen
<1>6. Contents'
  <2> DEFINE m == resv[j].msg
             n == Len(Payload[m])
             d(k) == Rel(resv[j].start, k)
  <2>1. /\ resv[j].start \in Slots /\ m \in Msgs /\ n \in Nat /\ Size(j) = Header + n
        /\ <<n, 0>> \in Seq(Nat) /\ 1 \in 0 .. Cap - 1 /\ 1 + Len(<<n, 0>>) <= Cap
    BY <1>1, EntryType, PayloadType, CapBounds DEF Header
  <2>2. buf' = put_in_mailbox(At(resv[j].start, 1), <<n, 0>>)
    BY <1>3 DEF SendLen
  <2>3. ASSUME NEW k \in Slots
        PROVE  /\ d(k) \in Nat
               /\ buf'[k] = IF 1 <= d(k) /\ d(k) < 3 THEN <<n, 0>>[d(k)] ELSE buf[k]
    <3>1. d(k) \in Nat
      BY <2>1, RelNat
    <3>2. buf'[k] = IF 1 <= d(k) /\ d(k) < 1 + Len(<<n, 0>>)
                    THEN <<n, 0>>[d(k) - 1 + 1] ELSE buf[k]
      BY <2>1, <2>2, PutAt
    <3> QED BY <3>1, <3>2
  <2>4. \A k \in Slots : ~(d(k) < Size(j)) => buf'[k] = buf[k]
    BY <2>1, <2>3 DEF Header
  <2>5. ASSUME NEW k \in Slots, d(k) < Size(j) PROVE buf'[k] = Word(j, d(k))'
    <3>1. buf[k] = WordAt(m, "len", Taken(j), d(k))
      BY <1>1, <1>3, <2>5 DEF Contents, Word
    <3>2. Word(j, d(k))' = WordAt(m, "body", Taken(j), d(k))
      BY <1>4 DEF Word, Taken, SendLen, recvVars
    <3>3. d(k) \in Nat /\ buf'[k] = IF 1 <= d(k) /\ d(k) < 3 THEN <<n, 0>>[d(k)] ELSE buf[k]
      BY <2>3
    <3>4. CASE d(k) = 0
      BY <3>1, <3>2, <3>3, <3>4 DEF WordAt
    <3>5. CASE d(k) = 1
      BY <1>3, <3>2, <3>3, <3>5 DEF WordAt
    <3>6. CASE d(k) = 2
      BY <3>2, <3>3, <3>6 DEF WordAt, Clear
    <3>7. CASE d(k) > 2
      BY <3>1, <3>2, <3>3, <3>7 DEF WordAt
    <3> QED BY <3>3, <3>4, <3>5, <3>6, <3>7
  <2> QED BY <1>1, <1>4, <2>4, <2>5, EntryWritten DEF SendLen
<1> QED BY <1>4, <1>5, <1>6 DEF RingInv

\* The payload goes behind it.
LEMMA RingSendBody == ASSUME RingInv, TypeOK', NEW p \in Senders, SendBody(p) PROVE RingInv'
<1>1. TypeOK /\ Tiling /\ Contents
  BY DEF RingInv
<1>2. snd[p].pc = "body" /\ snd[p].pc \in Mid /\ "sentinel" \in Mid
  BY DEF SendBody, Mid
<1>3. PICK j \in DOMAIN resv :
        /\ resv[j].from = p /\ resv[j].start = snd[p].start /\ resv[j].msg = snd[p].msg
        /\ Writing(j) /\ Stage(j) = "body"
        /\ Taken(j) \notin {"clear", "unmark", "advance"}
  BY <1>2, WritingEntry
<1>4. /\ SendersHold' /\ OwnerHolds' /\ Stage(j)' = "sentinel"
      /\ \A i \in DOMAIN resv : i # j => Stage(i)' = Stage(i) /\ Taken(i)' = Taken(i)
  BY <1>2, <1>3, WriterMoves DEF SendBody, recvVars
<1>5. Tiling'
  BY <1>1, TilingKept DEF SendBody
<1>6. Contents'
  <2> DEFINE m == resv[j].msg
             n == Len(Payload[m])
             d(k) == Rel(resv[j].start, k)
  <2>1. /\ resv[j].start \in Slots /\ m \in Msgs /\ n \in Nat
        /\ Size(j) = Header + n /\ Size(j) < Cap
        /\ Payload[m] \in Seq(Nat) /\ Header \in 0 .. Cap - 1 /\ Header + n <= Cap
    BY <1>1, EntryType, PayloadType, CapBounds DEF Header
  <2>2. buf' = put_in_mailbox(At(resv[j].start, Header), Payload[m])
    BY <1>3 DEF SendBody
  <2>3. ASSUME NEW k \in Slots
        PROVE  /\ d(k) \in Nat
               /\ buf'[k] = IF 3 <= d(k) /\ d(k) < Size(j) THEN Payload[m][d(k) - 2] ELSE buf[k]
    <3>1. d(k) \in Nat
      BY <2>1, RelNat
    <3>2. buf'[k] = IF Header <= d(k) /\ d(k) < Header + Len(Payload[m])
                    THEN Payload[m][d(k) - Header + 1] ELSE buf[k]
      BY <2>1, <2>2, PutAt
    <3>3. d(k) - Header + 1 = d(k) - 2
      BY <3>1 DEF Header
    <3> QED BY <2>1, <3>1, <3>2, <3>3 DEF Header
  <2>4. \A k \in Slots : ~(d(k) < Size(j)) => buf'[k] = buf[k]
    BY <2>3
  <2>5. ASSUME NEW k \in Slots, d(k) < Size(j) PROVE buf'[k] = Word(j, d(k))'
    <3>1. buf[k] = WordAt(m, "body", Taken(j), d(k))
      BY <1>1, <1>3, <2>5 DEF Contents, Word
    <3>2. Word(j, d(k))' = WordAt(m, "sentinel", Taken(j), d(k))
      BY <1>4 DEF Word, Taken, SendBody, recvVars
    <3>3. d(k) \in Nat
          /\ buf'[k] = IF 3 <= d(k) /\ d(k) < Size(j) THEN Payload[m][d(k) - 2] ELSE buf[k]
      BY <2>3
    <3>4. CASE d(k) < 3
      BY <3>1, <3>2, <3>3, <3>4 DEF WordAt
    <3>5. CASE ~(d(k) < 3)
      BY <1>3, <2>5, <3>2, <3>3, <3>5 DEF WordAt
    <3> QED BY <3>4, <3>5
  <2> QED BY <1>1, <1>4, <2>4, <2>5, EntryWritten DEF SendBody
<1> QED BY <1>4, <1>5, <1>6 DEF RingInv

\* The owner's side holds while no completed message becomes incomplete.
LEMMA OwnerKept ==
  ASSUME RingInv, UNCHANGED <<indices, rcv, curr_val, resv>>,
         \A i \in DOMAIN resv : Stage(i) = "marked" => Stage(i)' = "marked"
  PROVE  OwnerHolds'
<1>1. rcv.pc \in {"clear", "unmark", "advance"} => 1 \in DOMAIN resv
  BY DEF RingInv, OwnerHolds, TypeOK
<1> QED BY <1>1 DEF RingInv, OwnerHolds, Dist, used_bytes

\* The quiet leaves the sentinel of the finished message in flight.
LEMMA RingSendSentinel ==
  ASSUME RingInv, TypeOK', NEW p \in Senders, SendSentinel(p) PROVE RingInv'
<1>1. TypeOK /\ Tiling /\ Contents /\ SendersHold
  BY DEF RingInv
<1>2. snd[p].pc = "sentinel" /\ snd[p].pc \in Mid /\ flying[p] = {}
  BY DEF SendSentinel, Mid
<1>3. PICK j \in DOMAIN resv :
        /\ resv[j].from = p /\ resv[j].start = snd[p].start
        /\ Writing(j) /\ Stage(j) = "sentinel"
        /\ Taken(j) \notin {"clear", "unmark", "advance"}
        /\ \A i \in DOMAIN resv : i # j => resv[i].start # snd[p].start
  BY <1>2, WritingEntry
<1>4. /\ snd'[p].pc = "idle" /\ snd'[p].pc \notin Mid /\ flying'[p] = {snd[p].start}
      /\ \A q \in Senders : q # p => snd'[q] = snd[q] /\ flying'[q] = flying[q]
  BY <1>1 DEF SendSentinel, TypeOK, SendState, Mid
<1>5. ASSUME NEW i \in DOMAIN resv, i # j
      PROVE  Stage(i)' = Stage(i) /\ (Writing(i)' <=> Writing(i)) /\ Taken(i)' = Taken(i)
  <2>1. resv[i].from \in Senders /\ resv[i].start # snd[p].start
    BY <1>1, <1>3, <1>5, EntryType
  <2>2. Taken(i)' = Taken(i)
    BY DEF SendSentinel, recvVars, Taken
  <2>3. CASE resv[i].from = p
    BY <1>2, <1>4, <2>1, <2>2, <2>3 DEF Stage, Writing, SendSentinel
  <2>4. CASE resv[i].from # p
    BY <1>4, <2>1, <2>2, <2>4, StageKept DEF SendSentinel
  <2> QED BY <2>3, <2>4
<1>6. Stage(j)' = "flying" /\ ~Writing(j)' /\ Taken(j)' = Taken(j)
  BY <1>3, <1>4 DEF Stage, Writing, SendSentinel, recvVars, Taken
<1>7. Tiling'
  BY <1>1, TilingKept DEF SendSentinel
<1>8. Contents'
  <2>1. ASSUME NEW i \in DOMAIN resv, NEW d PROVE Word(i, d)' = Word(i, d)
    <3>1. CASE i = j
      BY <1>3, <1>6, <3>1 DEF Word, WordAt, SendSentinel
    <3>2. CASE i # j
      BY <1>5, <3>2 DEF Word, SendSentinel
    <3> QED BY <3>1, <3>2
  <2> QED BY <1>1, <2>1, ContentsKept DEF SendSentinel
<1>9. SendersHold'
  <2>1. ASSUME NEW i \in DOMAIN resv, Writing(i)' PROVE Writing(i) /\ resv[i].from # p
    BY <1>4, <1>5, <1>6, <2>1 DEF Writing, SendSentinel
  <2>2. resv' = resv
    BY DEF SendSentinel
  <2> SUFFICES ASSUME NEW q \in Senders
               PROVE  /\ snd'[q].pc \in Mid => \E i \in DOMAIN resv : /\ resv[i].from = q
                                                           /\ resv[i].start = snd'[q].start
                                                           /\ resv[i].msg = snd'[q].msg
                      /\ \A i \in flying'[q] :
                           \E m \in DOMAIN resv : resv[m].from = q /\ resv[m].start = i
                      /\ \A i1, i2 \in flying'[q] : i1 = i2
                      /\ \A i, m \in DOMAIN resv :
                           /\ resv[i].from = q /\ resv[i].start \in flying'[q]
                           /\ resv[m].from = q /\ Writing(m)'
                           => i < m
    BY <2>2 DEF SendersHold, Mid
  <2>3. CASE q = p
    BY <1>3, <1>4, <2>1, <2>3
  <2>4. CASE q # p
    BY <1>1, <1>4, <2>1, <2>4 DEF SendersHold
  <2> QED BY <2>3, <2>4
<1>10. OwnerHolds'
  <2>1. \A i \in DOMAIN resv : Stage(i) = "marked" => Stage(i)' = "marked"
    BY <1>3, <1>5
  <2> QED BY <2>1, OwnerKept DEF SendSentinel, recvVars
<1> QED BY <1>7, <1>8, <1>9, <1>10 DEF RingInv

\* The sentinel lands in the first word of its reservation.
LEMMA RingSentinelLands ==
  ASSUME RingInv, TypeOK', NEW p \in Senders, SentinelLands(p) PROVE RingInv'
<1>1. TypeOK /\ Tiling /\ Contents /\ SendersHold
  BY DEF RingInv
<1>2. PICK s \in flying[p] : /\ buf' = put_in_mailbox(s, <<Sentinel>>)
                             /\ flying' = [flying EXCEPT ![p] = @ \ {s}]
  BY DEF SentinelLands
<1>3. flying[p] = {s}
  BY FlyingEntry
<1>4. PICK j \in DOMAIN resv :
        /\ resv[j].from = p /\ resv[j].start = s
        /\ ~Writing(j) /\ Stage(j) = "flying"
        /\ Taken(j) \notin {"clear", "unmark", "advance"}
        /\ \A i \in DOMAIN resv : i # j => resv[i].start # s
  BY FlyingEntry
<1>5. /\ flying'[p] = {} /\ \A q \in Senders : q # p => flying'[q] = flying[q]
      /\ snd' = snd /\ resv' = resv /\ rcv' = rcv /\ curr_val' = curr_val /\ indices' = indices
  BY <1>1, <1>2, <1>3 DEF TypeOK, SentinelLands, recvVars
<1>6. ASSUME NEW i \in DOMAIN resv, i # j PROVE Stage(i)' = Stage(i) /\ Taken(i)' = Taken(i)
  <2>1. resv[i].from \in Senders /\ resv[i].start # s
    BY <1>1, <1>4, <1>6, EntryType
  <2>2. Taken(i)' = Taken(i)
    BY <1>5 DEF Taken
  <2>3. CASE resv[i].from = p
    BY <1>3, <1>5, <2>1, <2>2, <2>3 DEF Stage, Writing
  <2>4. CASE resv[i].from # p
    BY <1>5, <2>1, <2>2, <2>4, StageKept
  <2> QED BY <2>3, <2>4
<1>7. Stage(j)' = "marked" /\ Taken(j)' = Taken(j)
  BY <1>4, <1>5 DEF Stage, Writing, Taken
<1>8. Tiling'
  BY <1>1, <1>5, TilingKept
<1>9. Contents'
  <2>1. s \in Slots /\ Sentinel \in Nat /\ Size(j) \in Nat /\ Size(j) >= Header
    BY <1>1, <1>4, EntryType DEF Sentinel
  <2>2. ASSUME NEW k \in Slots
        PROVE  /\ Rel(s, k) \in Nat
               /\ buf'[k] = IF Rel(s, k) = 0 THEN Sentinel ELSE buf[k]
    <3>1. buf'[k] = IF k = s THEN Sentinel ELSE buf[k]
      BY <1>2, <2>1, PutOne
    <3> QED BY <2>1, <3>1, RelSelf, RelNat
  <2>3. \A k \in Slots : ~(Rel(s, k) < Size(j)) => buf'[k] = buf[k]
    BY <2>1, <2>2 DEF Header
  <2>4. ASSUME NEW k \in Slots, Rel(s, k) < Size(j) PROVE buf'[k] = Word(j, Rel(s, k))'
    <3>1. buf[k] = WordAt(resv[j].msg, "flying", Taken(j), Rel(s, k))
      BY <1>1, <1>4, <2>4 DEF Contents, Word
    <3>2. Word(j, Rel(s, k))' = WordAt(resv[j].msg, "marked", Taken(j), Rel(s, k))
      BY <1>5, <1>7 DEF Word
    <3> QED BY <1>4, <2>2, <3>1, <3>2 DEF WordAt
  <2> QED BY <1>1, <1>4, <1>5, <1>6, <2>3, <2>4, EntryWritten
<1>10. SendersHold'
  BY <1>1, <1>5 DEF SendersHold, Writing
<1>11. OwnerHolds'
  <2>1. \A i \in DOMAIN resv : Stage(i) = "marked" => Stage(i)' = "marked"
    BY <1>6, <1>7
  <2> QED BY <1>5, <2>1, OwnerKept
<1> QED BY <1>8, <1>9, <1>10, <1>11 DEF RingInv

\* A reservation takes the free words behind the write index: its new region
\* lies behind all others, and its words are still clear.
LEMMA RingSendReserve ==
  ASSUME RingInv, TypeOK', NEW p \in Senders, SendReserve(p) PROVE RingInv'
<1> SUFFICES ASSUME NEW r, r = indices.r, NEW w, w = indices.w, NEW m, m = snd[p].msg,
                    NEW f, f = Full(m), NEW n, n = Len(resv), NEW D, D = DOMAIN resv
             PROVE  RingInv'
  OBVIOUS
<1> DEFINE new == [from |-> p, msg |-> m, start |-> w]
<1>1. TypeOK /\ Tiling /\ Contents /\ SendersHold /\ OwnerHolds
  BY DEF RingInv
<1>2. /\ r \in Slots /\ w \in Slots /\ m \in Msgs /\ f \in Nat /\ f >= Header /\ f < Cap
      /\ Dist(w) \in Nat
  <2>1. r \in Slots /\ w \in Slots /\ m \in Msgs
    BY <1>1, TypeParts, IndexFields
  <2>2. Len(Payload[m]) \in Nat /\ Full(m) < Cap
    BY <2>1, PayloadType, MailboxAssumption
  <2> QED BY <2>1, <2>2, RelNat DEF Full, Header, Dist
<1>3. /\ snd[p].pc = "try" /\ snd[p].old = indices
      /\ indices' = [indices EXCEPT !.w = At(w, f)]
      /\ snd' = [snd EXCEPT ![p] = [@ EXCEPT !.pc = "len", !.start = w]]
      /\ resv' = Append(resv, new)
      /\ buf' = buf /\ flying' = flying /\ rcv' = rcv /\ curr_val' = curr_val
  BY DEF SendReserve, Trying, recvVars
<1>4. /\ indices'.r = r /\ indices'.w = At(w, f) /\ \A k : Dist(k)' = Dist(k)
  BY <1>1, <1>3 DEF TypeOK, Index, Dist
<1>5. Dist(w) + f < Cap
  <2>1. Room(indices, m)
    BY <1>3 DEF SendReserve
  <2>2. used_bytes(indices) = Dist(w)
    BY <1>1, UsedIsRel DEF TypeOK, Dist
  <2> QED BY <1>2, <2>1, <2>2, CapBounds DEF Room, free_bytes
<1>6. indices'.w \in Slots /\ Dist(indices'.w) = Dist(w) + f
  <2> DEFINE y == At(w, f)
  <2>1. f \in 0 .. Cap - 1
    BY <1>2, CapBounds
  <2>2. y \in Slots /\ Rel(w, y) = f
    BY <1>2, <2>1, RelAt
  <2>3. Rel(w, y) = IF Dist(y) >= Dist(w) THEN Dist(y) - Dist(w) ELSE Dist(y) - Dist(w) + Cap
    BY <1>2, <2>2, RelChange DEF Dist
  <2>4. Dist(y) \in Nat
    BY <1>2, <2>2, RelNat DEF Dist
  <2> HIDE DEF y
  <2>5. Dist(y) = Dist(w) + f
    BY <1>2, <1>5, <2>2, <2>3, <2>4, CapBounds
  <2> QED BY <1>4, <2>2, <2>5 DEF y
<1>7. /\ n \in Nat /\ D = 1 .. n /\ (DOMAIN resv)' = 1 .. n + 1 /\ Len(resv') = n + 1
      /\ resv'[n + 1] = new /\ \A j \in D : resv'[j] = resv[j]
      /\ resv' # <<>>
  <2>1. new \in [from : Senders, msg : Msgs, start : Slots]
    BY <1>2
  <2>2. resv \in Seq([from : Senders, msg : Msgs, start : Slots])
    BY <1>1 DEF TypeOK
  <2> HIDE DEF new
  <2> QED BY <1>3, <2>1, <2>2, AppendProperties
<1>8. /\ Size(n + 1)' = f /\ resv'[n + 1].start = w /\ resv'[n + 1].from = p
      /\ resv'[n + 1].msg = m /\ \A j \in D : Size(j)' = Size(j)
      /\ Dist(resv[n + 1].start)' = Dist(w)
      /\ End(n + 1)' = Dist(w) + f
      /\ \A j \in D : Dist(resv[j].start)' = Dist(resv[j].start) /\ End(j)' = End(j)
  BY <1>4, <1>7 DEF Size, End
<1>9. ASSUME NEW j \in D
      PROVE  /\ j \in Nat /\ 1 <= j /\ j <= n /\ End(j) <= Dist(w)
             /\ Dist(resv[j].start) < End(j) /\ resv[j].start # w
             /\ Dist(resv[j].start) \in Nat /\ Size(j) \in Nat
  <2>1. /\ Dist(resv[j].start) \in Nat /\ Size(j) \in Nat /\ Size(j) > 0
    <3>1. /\ indices.r \in Slots /\ resv[j].start \in Slots /\ Size(j) \in Nat /\ Size(j) >= Header
      BY <1>1, <1>2, EntryType
    <3> QED BY <3>1, RelNat DEF Dist, Header
  <2>2. End(j) <= Dist(w)
    BY <1>1 DEF Tiling
  <2> QED BY <1>1, <1>2, <2>1, <2>2, EntryType DEF End
<1>10. Tiling'
  <2>1. /\ resv'[1].start = indices'.r
        /\ Dist(indices.w)' = End(Len(resv))'
    <3>1. CASE resv = <<>>
      BY <1>1, <1>4, <1>6, <1>7, <1>8, <3>1 DEF Tiling
    <3>2. CASE resv # <<>>
      <4>1. 1 \in D
        BY <1>1, <3>2 DEF TypeOK
      <4> QED BY <1>1, <1>4, <1>6, <1>7, <1>8, <3>2, <4>1 DEF Tiling
    <3> QED BY <3>1, <3>2
  <2>2. ASSUME NEW j \in (DOMAIN resv)', j # 1 PROVE Dist(resv[j].start)' = End(j - 1)'
    <3>1. CASE j \in D
      <4>1. j - 1 \in D
        BY <1>7, <2>2, <3>1
      <4> QED BY <1>1, <1>8, <2>2, <3>1, <4>1 DEF Tiling
    <3>2. CASE j = n + 1
      <4>1. n \in D /\ resv # <<>>
        BY <1>7, <2>2, <3>2
      <4>2. End(n)' = Dist(w)
        BY <1>1, <1>8, <4>1 DEF Tiling
      <4> QED BY <1>7, <1>8, <3>2, <4>2
    <3> QED BY <1>7, <3>1, <3>2
  <2>3. ASSUME NEW j \in (DOMAIN resv)' PROVE End(j)' <= Dist(indices.w)'
    <3>1. CASE j \in D
      BY <1>2, <1>4, <1>6, <1>8, <1>9, <3>1 DEF End
    <3>2. CASE j = n + 1
      BY <1>2, <1>4, <1>6, <1>8, <3>2
    <3> QED BY <1>7, <3>1, <3>2
  <2>4. ASSUME NEW i \in (DOMAIN resv)', NEW j \in (DOMAIN resv)', i < j
        PROVE  End(i)' <= Dist(resv[j].start)'
    <3>1. i \in D
      BY <1>7, <2>4
    <3>2. CASE j \in D
      BY <1>1, <1>8, <2>4, <3>1, <3>2 DEF Tiling
    <3>3. CASE j = n + 1
      BY <1>8, <1>9, <3>1, <3>3
    <3> QED BY <1>7, <3>2, <3>3
  <2> QED BY <1>7, <2>1, <2>2, <2>3, <2>4 DEF Tiling
<1>11. /\ snd'[p].pc = "len" /\ snd'[p].start = w /\ snd'[p].msg = m
       /\ \A q \in Senders : q # p => snd'[q] = snd[q]
  BY <1>1, <1>3 DEF TypeOK, SendState
<1>12. ASSUME NEW j \in D
       PROVE  Stage(j)' = Stage(j) /\ (Writing(j)' <=> Writing(j)) /\ Taken(j)' = Taken(j)
  <2>1. resv[j].from \in Senders /\ resv'[j] = resv[j] /\ resv[j].start # w
    BY <1>1, <1>7, <1>9, EntryType
  <2>2. CASE resv[j].from = p
    BY <1>3, <1>11, <2>1, <2>2 DEF Stage, Writing, Mid, Taken
  <2>3. CASE resv[j].from # p
    BY <1>3, <1>11, <2>1, <2>3 DEF Stage, Writing, Taken
  <2> QED BY <2>2, <2>3
<1>13. Stage(n + 1)' = "len" /\ Writing(n + 1)'
  BY <1>8, <1>11 DEF Stage, Writing, Mid
<1>14. Contents'
  <2>1. ASSUME NEW k \in Slots, Rel(w, k) < f
        PROVE  /\ \A j \in D : ~(Rel(resv[j].start, k) < Size(j))
               /\ buf[k] = Clear
    <3>1. Dist(k) >= Dist(w)
      <4>1. Rel(w, k) = IF Dist(k) >= Dist(w) THEN Dist(k) - Dist(w) ELSE Dist(k) - Dist(w) + Cap
        BY <1>2, RelChange DEF Dist
      <4>2. Dist(k) \in Nat
        BY <1>2, RelNat DEF Dist
      <4> QED BY <1>2, <1>5, <2>1, <4>1, <4>2, CapBounds
    <3>2. ASSUME NEW j \in D PROVE ~(Rel(resv[j].start, k) < Size(j))
      <4>1. Rel(resv[j].start, k) < Size(j) => Dist(k) < End(j)
        BY <1>1, InRegion
      <4>2. Dist(k) \in Nat
        BY <1>2, RelNat DEF Dist
      <4> QED BY <1>2, <1>9, <3>1, <4>1, <4>2 DEF End
    <3> QED BY <1>1, <3>2 DEF Contents
  <2>2. ASSUME NEW j \in (DOMAIN resv)', NEW k \in Slots, Rel(resv'[j].start, k) < Size(j)'
        PROVE  buf'[k] = Word(j, Rel(resv[j].start, k))'
    <3>1. CASE j \in D
      BY <1>1, <1>3, <1>7, <1>8, <1>12, <2>2, <3>1 DEF Contents, Word
    <3>2. CASE j = n + 1
      <4>1. buf'[k] = Clear
        BY <1>3, <1>8, <2>1, <2>2, <3>2
      <4>2. Word(j, Rel(resv[j].start, k))' = WordAt(m, "len", Taken(j)', Rel(w, k))
        BY <1>8, <1>13, <3>2 DEF Word
      <4> QED BY <4>1, <4>2 DEF WordAt
    <3> QED BY <1>7, <3>1, <3>2
  <2>3. ASSUME NEW k \in Slots, \A j \in (DOMAIN resv)' : ~(Rel(resv'[j].start, k) < Size(j)')
        PROVE  buf'[k] = Clear
    <3>1. \A j \in D : ~(Rel(resv[j].start, k) < Size(j))
      BY <1>7, <1>8, <2>3
    <3> QED BY <1>1, <1>3, <3>1 DEF Contents
  <2> QED BY <2>2, <2>3 DEF Contents
<1>15. SendersHold'
  <2> DEFINE E == (DOMAIN resv)'
  <2> HIDE DEF E
  <2>0. n + 1 \in E /\ D \subseteq E /\ \A j \in E : j \in D \/ j = n + 1
    BY <1>7 DEF E
  <2>1. ASSUME NEW q \in Senders, snd'[q].pc \in Mid
        PROVE  \E j \in E : /\ resv'[j].from = q /\ resv'[j].start = snd'[q].start
                            /\ resv'[j].msg = snd'[q].msg
    <3>1. CASE q = p
      BY <1>8, <1>11, <2>0, <3>1
    <3>2. CASE q # p
      <4>1. PICK j \in D : /\ resv[j].from = q /\ resv[j].start = snd[q].start
                           /\ resv[j].msg = snd[q].msg
        BY <1>1, <1>11, <2>1, <3>2 DEF SendersHold
      <4> QED BY <1>7, <1>11, <2>0, <3>2, <4>1
    <3> QED BY <3>1, <3>2
  <2>2. ASSUME NEW q \in Senders, NEW i \in flying'[q]
        PROVE  \E j \in E : resv'[j].from = q /\ resv'[j].start = i
    <3>1. PICK j \in D : resv[j].from = q /\ resv[j].start = i
      BY <1>1, <1>3 DEF SendersHold
    <3> QED BY <1>7, <2>0, <3>1
  <2>3. ASSUME NEW q \in Senders, NEW i \in E, NEW j \in E,
               resv'[i].from = q, resv'[i].start \in flying'[q],
               resv'[j].from = q, Writing(j)'
        PROVE  i < j
    <3>1. CASE i \in D /\ j \in D
      BY <1>1, <1>3, <1>7, <1>12, <2>3, <3>1 DEF SendersHold
    <3>2. CASE i \in D /\ j = n + 1
      BY <1>9, <1>7, <3>2
    <3>3. CASE i = n + 1
      <4>1. q = p /\ w \in flying[p]
        BY <1>3, <1>8, <2>3, <3>3
      <4>2. PICK k \in D : resv[k].start = w
        BY <1>1, <4>1 DEF SendersHold
      <4> QED BY <1>9, <4>2
    <3> QED BY <2>0, <3>1, <3>2, <3>3
  <2>4. \A q \in Senders : \A i1, i2 \in flying'[q] : i1 = i2
    BY <1>1, <1>3 DEF SendersHold
  <2> QED BY <2>1, <2>2, <2>3, <2>4 DEF SendersHold, E
<1>16. OwnerHolds'
  <2>1. Dist(curr_val.w) <= Dist(w) + f
    <3>1. Dist(curr_val.w) <= Dist(w) /\ curr_val.w \in Slots
      BY <1>1 DEF OwnerHolds, TypeOK, Index
    <3>2. Dist(curr_val.w) \in Nat
      BY <1>2, <3>1, RelNat DEF Dist
    <3> QED BY <1>2, <3>1, <3>2
  <2>2. curr_val'.r = indices'.r /\ Dist(curr_val.w)' <= Dist(indices.w)'
    BY <1>1, <1>3, <1>4, <1>6, <2>1 DEF OwnerHolds
  <2>3. rcv'.pc # "idle" => resv' # <<>> /\ rcv'.curr.r = indices'.r /\ used_bytes(rcv.curr)' > 0
    BY <1>1, <1>3, <1>4, <1>7 DEF OwnerHolds, used_bytes
  <2>4. rcv'.pc \in {"clear", "unmark", "advance"} =>
          Stage(1)' = "marked" /\ rcv'.msg = Payload[resv'[1].msg]
    <3>1. rcv.pc \in {"clear", "unmark", "advance"} => 1 \in D
      BY <1>1 DEF OwnerHolds, TypeOK
    <3> QED BY <1>1, <1>3, <1>7, <1>12, <3>1 DEF OwnerHolds
  <2> QED BY <2>2, <2>3, <2>4 DEF OwnerHolds
<1> QED BY <1>10, <1>14, <1>15, <1>16 DEF RingInv

(* The owner *)

\* While a message is reserved the indices show it.
LEMMA UsedPositive ==
  ASSUME TypeOK, Tiling, resv # <<>>
  PROVE  /\ 1 \in DOMAIN resv /\ used_bytes(indices) > 0
         /\ resv[1].start = indices.r /\ Dist(resv[1].start) = 0 /\ End(1) = Size(1)
<1>1. 1 \in DOMAIN resv
  BY DEF TypeOK
<1>2. indices.r \in Slots /\ indices.w \in Slots /\ used_bytes(indices) = Dist(indices.w)
  BY UsedIsRel DEF TypeOK, Index, Dist
<1>3. resv[1].start = indices.r /\ Dist(resv[1].start) = 0
  BY <1>2, RelSelf DEF Tiling, Dist
<1>4. Size(1) \in Nat /\ Size(1) >= Header /\ Dist(indices.w) \in Nat
  BY <1>1, <1>2, EntryType, RelNat DEF Dist
<1>5. End(1) = Size(1) /\ End(1) <= Dist(indices.w)
  BY <1>1, <1>3, <1>4 DEF Tiling, End
<1> QED BY <1>1, <1>2, <1>3, <1>4, <1>5 DEF Header

\* A step of the owner that changes no word, no index and no reservation.
LEMMA OwnerSteps ==
  ASSUME RingInv, TypeOK', UNCHANGED <<buf, indices, snd, flying, curr_val, resv>>,
         OwnerHolds',
         rcv.pc \in {"unmark", "advance"} \/ rcv'.pc \in {"unmark", "advance"}
           => rcv'.pc = rcv.pc
  PROVE  RingInv'
<1>1. TypeOK /\ Tiling /\ Contents /\ SendersHold
  BY DEF RingInv
<1>2. ASSUME NEW j \in DOMAIN resv, NEW d PROVE Word(j, d)' = Word(j, d)
  <2>1. Stage(j)' = Stage(j)
    BY DEF Stage, Writing
  <2> QED BY <2>1 DEF Word, WordAt, Taken
<1> QED BY <1>1, <1>2, TilingKept, ContentsKept, SendersKept DEF RingInv

\* The indices the owner starts a receive with show a reserved message.
LEMMA RingRecvPoll == ASSUME RingInv, TypeOK', RecvPoll PROVE RingInv'
<1>1. TypeOK /\ Tiling /\ OwnerHolds
  BY DEF RingInv
<1>2. /\ rcv.pc = "idle" /\ rcv'.pc = "wait" /\ rcv'.curr = RecvIndices
      /\ UNCHANGED <<buf, indices, snd, flying, curr_val, resv>>
  BY <1>1 DEF RecvPoll, sendVars, TypeOK
<1>3. /\ indices.r \in Slots /\ indices.w \in Slots /\ curr_val.w \in Slots
      /\ used_bytes(curr_val) = Dist(curr_val.w) /\ used_bytes(indices) = Dist(indices.w)
      /\ curr_val.r = indices.r
  BY <1>1, UsedIsRel DEF OwnerHolds, TypeOK, Index, Dist
<1>4. Dist(curr_val.w) \in Nat /\ Dist(indices.w) \in Nat
  BY <1>3, RelNat DEF Dist
<1>5. RecvIndices.r = indices.r /\ used_bytes(RecvIndices) > 0 /\ resv # <<>>
  <2>1. CASE used_bytes(curr_val) > 0
    <3>1. Dist(indices.w) > 0
      BY <1>1, <1>3, <1>4, <2>1 DEF OwnerHolds
    <3>2. indices.w # indices.r
      BY <1>3, <3>1, RelSelf DEF Dist
    <3> QED BY <1>1, <1>3, <2>1, <3>2 DEF Tiling, RecvIndices
  <2>2. CASE ~(used_bytes(curr_val) > 0)
    <3>1. curr_val.w = indices.r
      BY <1>3, <1>4, <2>2, RelSelf DEF Dist
    <3>2. RecvIndices = indices /\ indices # curr_val
      BY <2>2 DEF RecvPoll, RecvIndices, Pending
    <3>3. indices.w # indices.r
      <4>1. \A x, y \in Index : x.r = y.r /\ x.w = y.w => x = y
        BY DEF Index
      <4>2. indices \in Index /\ curr_val \in Index
        BY <1>1 DEF TypeOK
      <4> QED BY <1>3, <3>1, <3>2, <4>1, <4>2
    <3>4. resv # <<>>
      BY <1>1, <3>3 DEF Tiling
    <3> QED BY <1>1, <3>2, <3>4, UsedPositive
  <2> QED BY <2>1, <2>2
<1>6. OwnerHolds'
  BY <1>1, <1>2, <1>5 DEF OwnerHolds, Dist, used_bytes
<1> QED BY <1>2, <1>6, OwnerSteps

\* When the sentinel is there so is the rest of the message.
LEMMA RingRecvCopy == ASSUME RingInv, TypeOK', RecvCopy PROVE RingInv'
<1>1. TypeOK /\ Tiling /\ Contents /\ OwnerHolds
  BY DEF RingInv
<1>2. /\ rcv.pc = "wait" /\ rcv'.pc = "clear" /\ rcv'.curr = rcv.curr
      /\ UNCHANGED <<buf, indices, snd, flying, curr_val, resv>>
      /\ rcv'.msg = get_from_mailbox(At(rcv.curr.r, Header), buf[At(rcv.curr.r, 1)])
      /\ buf[rcv.curr.r] = Sentinel
  BY <1>1 DEF RecvCopy, sendVars, TypeOK
<1>3. resv # <<>> /\ 1 \in DOMAIN resv /\ rcv.curr.r = resv[1].start
  BY <1>1, <1>2, UsedPositive DEF OwnerHolds
<1> DEFINE i == resv[1].start
           m == resv[1].msg
           q == Payload[m]
           n == Len(q)
<1>4. /\ i \in Slots /\ m \in Msgs /\ q \in Seq(Nat) /\ n \in Nat
      /\ Size(1) = Header + n /\ Size(1) < Cap /\ Taken(1) = "wait"
  BY <1>1, <1>2, <1>3, EntryType, PayloadType DEF Taken
<1>5. ASSUME NEW d \in 0 .. Size(1) - 1
      PROVE  At(i, d) \in Slots /\ buf[At(i, d)] = WordAt(m, Stage(1), "wait", d)
  <2>1. d \in 0 .. Cap - 1 /\ d < Size(1)
    BY <1>4, <1>5, CapBounds DEF Header
  <2>2. At(i, d) \in Slots /\ Rel(i, At(i, d)) = d
    BY <1>4, <2>1, RelAt
  <2> QED BY <1>1, <1>3, <1>4, <2>1, <2>2 DEF Contents, Word
<1>6. Stage(1) = "marked"
  <2>1. At(i, 0) = i
    <3>1. 0 \in 0 .. Cap - 1
      BY CapBounds DEF Header
    <3>2. Rel(i, At(i, 0)) = 0 /\ At(i, 0) \in Slots
      BY <1>4, <3>1, RelAt
    <3> QED BY <1>4, <3>2, RelSelf
  <2>2. 0 \in 0 .. Size(1) - 1
    BY <1>4 DEF Header
  <2>3. WordAt(m, Stage(1), "wait", 0) = Sentinel
    BY <1>2, <1>3, <1>5, <2>1, <2>2
  <2> QED BY <2>3 DEF WordAt, Sentinel, Clear
<1>7. buf[At(i, 1)] = n
  <2>1. 1 \in 0 .. Size(1) - 1
    BY <1>4 DEF Header
  <2> QED BY <1>5, <1>6, <2>1 DEF WordAt
<1>8. rcv'.msg = q
  <2>1. ASSUME NEW k \in 1 .. n PROVE buf[At(At(i, Header), k - 1)] = q[k]
    <3>1. k + 2 \in 0 .. Size(1) - 1 /\ k + 2 \in Nat /\ k + 2 < Cap /\ k + 2 > 2
      BY <1>4, CapBounds DEF Header
    <3>2. At(At(i, Header), k - 1) = At(i, k + 2)
      <4>1. Header \in 0 .. Cap /\ k - 1 \in 0 .. Cap /\ k + 2 \in 0 .. Cap
        BY <1>4, <3>1, CapBounds DEF Header
      <4>2. At(i, Header) \in Slots
            /\ At(i, Header) = IF i + Header < Cap THEN i + Header ELSE i + Header - Cap
        BY <1>4, <4>1, AtIs
      <4>3. At(At(i, Header), k - 1) = IF At(i, Header) + (k - 1) < Cap THEN At(i, Header) + (k - 1)
                                       ELSE At(i, Header) + (k - 1) - Cap
        BY <4>1, <4>2, AtIs
      <4>4. At(i, k + 2) = IF i + (k + 2) < Cap THEN i + (k + 2) ELSE i + (k + 2) - Cap
        BY <1>4, <4>1, AtIs
      <4>5. i \in Int /\ 0 <= i /\ i < Cap
        BY <1>4, CapBounds DEF Slots
      <4> HIDE DEF i, n
      <4> QED BY <3>1, <4>2, <4>3, <4>4, <4>5, CapBounds DEF Header
    <3>3. WordAt(m, "marked", "wait", k + 2) = q[k + 2 - 2]
      BY <3>1 DEF WordAt
    <3> QED BY <1>5, <1>6, <3>1, <3>2, <3>3
  <2>2. rcv'.msg = [k \in 1 .. n |-> buf[At(At(i, Header), k - 1)]]
    BY <1>2, <1>3, <1>7 DEF get_from_mailbox
  <2>3. q = [k \in 1 .. n |-> q[k]]
    BY <1>4
  <2> HIDE DEF i, q, n
  <2> QED BY <2>1, <2>2, <2>3
<1>9. OwnerHolds'
  <2>1. Stage(1)' = Stage(1)
    BY <1>2 DEF Stage, Writing
  <2> QED BY <1>1, <1>2, <1>3, <1>6, <1>8, <2>1 DEF OwnerHolds, Dist, used_bytes
<1> QED BY <1>2, <1>9, OwnerSteps

\* The reservation the owner takes, and that only the owner works on it.
LEMMA TakenEntry ==
  ASSUME RingInv, rcv.pc \in {"clear", "unmark", "advance"}
  PROVE  /\ 1 \in DOMAIN resv /\ resv # <<>> /\ Stage(1) = "marked" /\ Taken(1) = rcv.pc
         /\ rcv.curr.r = resv[1].start /\ resv[1].start = indices.r /\ indices.r \in Slots
         /\ rcv.msg = Payload[resv[1].msg] /\ Size(1) = Header + Len(rcv.msg)
         /\ Len(rcv.msg) \in Nat /\ Size(1) < Cap
BY UsedPositive, EntryType, PayloadType DEF RingInv, OwnerHolds, Taken, TypeOK, Index

\* A step of the owner that writes into the message it takes.
LEMMA OwnerWrites ==
  ASSUME RingInv, TypeOK', UNCHANGED <<indices, snd, flying, curr_val, resv>>,
         rcv.pc \in {"clear", "unmark", "advance"},
         rcv'.pc \in {"clear", "unmark", "advance"}, rcv'.curr = rcv.curr, rcv'.msg = rcv.msg,
         \A k \in Slots : ~(Rel(resv[1].start, k) < Size(1)) => buf'[k] = buf[k],
         \A k \in Slots : Rel(resv[1].start, k) < Size(1) =>
           buf'[k] = WordAt(resv[1].msg, "marked", rcv'.pc, Rel(resv[1].start, k))
  PROVE  RingInv'
<1>1. TypeOK /\ Tiling /\ Contents /\ SendersHold /\ OwnerHolds
  BY DEF RingInv
<1>2. 1 \in DOMAIN resv /\ resv # <<>> /\ Stage(1) = "marked"
  BY TakenEntry
<1>3. \A i \in DOMAIN resv : Stage(i)' = Stage(i) /\ (i # 1 => Taken(i)' = Taken(i))
  BY DEF Stage, Writing, Taken
<1>4. Contents'
  <2>1. \A k \in Slots : Rel(resv[1].start, k) < Size(1) =>
           buf'[k] = Word(1, Rel(resv[1].start, k))'
    BY <1>2, <1>3 DEF Word, Taken
  <2> QED BY <1>1, <1>2, <1>3, <2>1, EntryWritten
<1>5. OwnerHolds'
  BY <1>1, <1>2, <1>3 DEF OwnerHolds, Dist, used_bytes
<1> QED BY <1>1, <1>4, <1>5, TilingKept, SendersKept DEF RingInv

\* The length and the payload are cleared.
LEMMA RingRecvClear == ASSUME RingInv, TypeOK', RecvClear PROVE RingInv'
<1>1. TypeOK /\ Tiling /\ Contents
  BY DEF RingInv
<1>2. /\ rcv.pc = "clear" /\ rcv'.pc = "unmark" /\ rcv'.curr = rcv.curr /\ rcv'.msg = rcv.msg
      /\ UNCHANGED <<indices, snd, flying, curr_val, resv>>
      /\ buf' = put_in_mailbox(At(rcv.curr.r, 1), Zeros(2 + Len(rcv.msg)))
  BY <1>1 DEF RecvClear, sendVars, TypeOK
<1>3. SUFFICES ASSUME NEW i, i = resv[1].start, NEW n, n = Len(rcv.msg), NEW m, m = resv[1].msg
               PROVE  RingInv'
  OBVIOUS
<1>4. /\ 1 \in DOMAIN resv /\ Stage(1) = "marked" /\ Taken(1) = "clear"
      /\ rcv.curr.r = i /\ i \in Slots /\ n \in Nat /\ Size(1) = Header + n /\ Size(1) < Cap
  BY <1>2, <1>3, TakenEntry
<1>5. ASSUME NEW k \in Slots
      PROVE  /\ Rel(i, k) \in Nat
             /\ buf'[k] = IF 1 <= Rel(i, k) /\ Rel(i, k) < Size(1) THEN Clear ELSE buf[k]
  <2>1. Zeros(2 + n) \in Seq(Nat) /\ Len(Zeros(2 + n)) = 2 + n
    BY <1>4 DEF Zeros, Clear
  <2>2. 1 \in 0 .. Cap - 1 /\ 1 + Len(Zeros(2 + n)) <= Cap
    BY <1>4, <2>1, CapBounds DEF Header
  <2>3. buf'[k] = IF 1 <= Rel(i, k) /\ Rel(i, k) < 1 + Len(Zeros(2 + n))
                  THEN Zeros(2 + n)[Rel(i, k) - 1 + 1] ELSE buf[k]
    BY <1>2, <1>3, <1>4, <2>1, <2>2, PutAt
  <2>4. Rel(i, k) \in Nat
    BY <1>4, RelNat
  <2>5. ASSUME 1 <= Rel(i, k), Rel(i, k) < Size(1) PROVE Zeros(2 + n)[Rel(i, k) - 1 + 1] = Clear
    BY <1>4, <2>4, <2>5 DEF Zeros, Header
  <2>6. 1 + Len(Zeros(2 + n)) = Size(1)
    BY <1>4, <2>1 DEF Header
  <2> QED BY <2>3, <2>4, <2>5, <2>6
<1>6. ASSUME NEW k \in Slots, Rel(i, k) < Size(1)
      PROVE  buf'[k] = WordAt(m, "marked", "unmark", Rel(i, k))
  <2>1. CASE Rel(i, k) = 0
    <3>1. buf'[k] = WordAt(m, "marked", "clear", 0)
      BY <1>1, <1>3, <1>4, <1>5, <1>6, <2>1 DEF Contents, Word
    <3> QED BY <2>1, <3>1 DEF WordAt
  <2>2. CASE Rel(i, k) # 0
    BY <1>5, <1>6, <2>2 DEF WordAt
  <2> QED BY <2>1, <2>2
<1>7. \A k \in Slots : ~(Rel(i, k) < Size(1)) => buf'[k] = buf[k]
  BY <1>5
<1> QED BY <1>2, <1>3, <1>6, <1>7, OwnerWrites

\* And then the sentinel.
LEMMA RingRecvUnmark == ASSUME RingInv, TypeOK', RecvUnmark PROVE RingInv'
<1>1. TypeOK /\ Tiling /\ Contents
  BY DEF RingInv
<1>2. /\ rcv.pc = "unmark" /\ rcv'.pc = "advance" /\ rcv'.curr = rcv.curr /\ rcv'.msg = rcv.msg
      /\ UNCHANGED <<indices, snd, flying, curr_val, resv>>
      /\ buf' = put_in_mailbox(rcv.curr.r, <<Clear>>)
  BY <1>1 DEF RecvUnmark, sendVars, TypeOK
<1>3. SUFFICES ASSUME NEW i, i = resv[1].start, NEW m, m = resv[1].msg PROVE RingInv'
  OBVIOUS
<1>4. /\ 1 \in DOMAIN resv /\ Stage(1) = "marked" /\ Taken(1) = "unmark"
      /\ rcv.curr.r = i /\ i \in Slots /\ Len(rcv.msg) \in Nat /\ Size(1) = Header + Len(rcv.msg)
  BY <1>2, <1>3, TakenEntry
<1>5. ASSUME NEW k \in Slots
      PROVE  Rel(i, k) \in Nat /\ buf'[k] = IF Rel(i, k) = 0 THEN Clear ELSE buf[k]
  <2>1. buf'[k] = IF k = i THEN Clear ELSE buf[k]
    BY <1>2, <1>4, PutOne DEF Clear
  <2> QED BY <1>4, <2>1, RelSelf, RelNat
<1>6. ASSUME NEW k \in Slots, Rel(i, k) < Size(1)
      PROVE  buf'[k] = WordAt(m, "marked", "advance", Rel(i, k))
  <2>1. buf[k] = WordAt(m, "marked", "unmark", Rel(i, k))
    BY <1>1, <1>3, <1>4, <1>6 DEF Contents, Word
  <2> QED BY <1>5, <2>1 DEF WordAt
<1>7. \A k \in Slots : ~(Rel(i, k) < Size(1)) => buf'[k] = buf[k]
  BY <1>4, <1>5 DEF Header
<1> QED BY <1>2, <1>3, <1>6, <1>7, OwnerWrites

\* A failed compare-and-swap leaves the owner with fresher indices.
LEMMA RingRecvAdvanceRetry == ASSUME RingInv, TypeOK', RecvAdvanceRetry PROVE RingInv'
<1>1. TypeOK /\ Tiling /\ OwnerHolds
  BY DEF RingInv
<1>2. /\ rcv.pc = "advance" /\ rcv'.pc = "advance" /\ rcv'.curr = indices /\ rcv'.msg = rcv.msg
      /\ UNCHANGED <<buf, indices, snd, flying, curr_val, resv>>
  BY <1>1 DEF RecvAdvanceRetry, sendVars, TypeOK
<1>3. resv # <<>> /\ used_bytes(indices) > 0
  BY <1>1, <1>2, UsedPositive DEF OwnerHolds
<1>4. Stage(1)' = Stage(1)
  BY <1>2 DEF Stage, Writing
<1>5. OwnerHolds'
  BY <1>1, <1>2, <1>3, <1>4 DEF OwnerHolds, Dist, used_bytes
<1> QED BY <1>2, <1>5, OwnerSteps

\* Dropping the first element of a sequence.
LEMMA DropFirst ==
  ASSUME NEW T, NEW q \in Seq(T), q # <<>>,
         NEW n, n = Len(q), NEW t, t = SubSeq(q, 2, n)
  PROVE  /\ n \in Nat /\ n >= 1 /\ DOMAIN q = 1 .. n /\ DOMAIN t = 1 .. n - 1 /\ Len(t) = n - 1
         /\ \A j \in 1 .. n - 1 : t[j] = q[j + 1] /\ j + 1 \in DOMAIN q /\ j + 1 # 1
         /\ \A j \in DOMAIN q : j # 1 => j - 1 \in 1 .. n - 1 /\ t[j - 1] = q[j]
<1>1. n \in Nat /\ n >= 1 /\ DOMAIN q = 1 .. n
  BY EmptySeq, LenProperties
<1>2. \A i \in 2 .. n : q[i] \in T
  BY <1>1
<1>3. t \in Seq(T) /\ Len(t) = n - 1 /\ \A i \in 1 .. n - 1 : t[i] = q[2 + i - 1]
  BY <1>1, <1>2, SubSeqProperties
<1>4. DOMAIN t = 1 .. n - 1
  BY <1>3, LenProperties
<1>5. ASSUME NEW j \in 1 .. n - 1 PROVE t[j] = q[j + 1] /\ j + 1 \in DOMAIN q /\ j + 1 # 1
  <2>1. j \in Int /\ 2 + j - 1 = j + 1
    BY <1>1, <1>5
  <2> QED BY <1>1, <1>3, <1>5, <2>1
<1>6. ASSUME NEW j \in DOMAIN q, j # 1 PROVE j - 1 \in 1 .. n - 1 /\ t[j - 1] = q[j]
  <2>1. j - 1 \in 1 .. n - 1 /\ (j - 1) + 1 = j
    BY <1>1, <1>6
  <2> QED BY <1>5, <2>1
<1> QED BY <1>1, <1>3, <1>4, <1>5, <1>6

\* Releasing the oldest reservation turns the ring: what was the second is now
\* first, and the released words are clear.
LEMMA RingRecvAdvance == ASSUME RingInv, TypeOK', RecvAdvance PROVE RingInv'
<1>1. TypeOK /\ Tiling /\ Contents /\ SendersHold /\ OwnerHolds
  BY DEF RingInv
<1> SUFFICES ASSUME NEW r, r = indices.r, NEW w, w = indices.w, NEW f, f = Size(1),
                    NEW n, n = Len(resv)
             PROVE  RingInv'
  OBVIOUS
<1>2. /\ rcv.pc = "advance" /\ rcv'.pc = "idle" /\ indices = rcv.curr
      /\ indices' = [indices EXCEPT !.r = At(r, Header + Len(rcv.msg))]
      /\ curr_val' = indices' /\ resv' = SubSeq(resv, 2, Len(resv))
      /\ buf' = buf /\ snd' = snd /\ flying' = flying
  BY <1>1 DEF RecvAdvance, sendVars, TypeOK
<1>3. /\ 1 \in DOMAIN resv /\ Stage(1) = "marked" /\ Taken(1) = "advance"
      /\ resv[1].start = r /\ r \in Slots /\ w \in Slots
      /\ f = Header + Len(rcv.msg) /\ f < Cap /\ f \in Nat /\ Len(rcv.msg) \in Nat
      /\ resv # <<>> /\ Dist(resv[1].start) = 0 /\ End(1) = f /\ Dist(w) \in Nat
  <2>1. w \in Slots /\ r \in Slots
    BY <1>1 DEF TypeOK, Index
  <2>2. Dist(w) \in Nat
    BY <2>1, RelNat DEF Dist
  <2> QED BY <1>1, <1>2, <2>1, <2>2, TakenEntry, UsedPositive DEF Header
<1>4. /\ n \in Nat /\ n >= 1 /\ DOMAIN resv = 1 .. n
      /\ (DOMAIN resv)' = 1 .. n - 1 /\ Len(resv') = n - 1
      /\ \A j \in 1 .. n - 1 : resv'[j] = resv[j + 1] /\ j + 1 \in DOMAIN resv /\ j + 1 # 1
      /\ \A j \in DOMAIN resv : j # 1 => j - 1 \in 1 .. n - 1 /\ resv'[j - 1] = resv[j]
  <2>1. resv \in Seq([from : Senders, msg : Msgs, start : Slots])
    BY <1>1 DEF TypeOK
  <2> QED BY <1>2, <1>3, <2>1, DropFirst
<1>5. indices'.r = At(r, f) /\ indices'.w = w /\ indices'.r \in Slots
  <2>1. f \in 0 .. Cap - 1
    BY <1>3, CapBounds
  <2>2. At(r, f) \in Slots
    BY <1>3, <2>1, RelAt
  <2> QED BY <1>1, <1>2, <1>3, <2>2 DEF TypeOK, Index
<1>6. ASSUME NEW k \in Slots
      PROVE  /\ Dist(k) \in Nat
             /\ Dist(k)' = IF Dist(k) >= f THEN Dist(k) - f ELSE Dist(k) - f + Cap
  <2>1. f \in 0 .. Cap - 1
    BY <1>3, CapBounds
  <2>2. Rel(At(r, f), k) = IF Rel(r, k) >= f THEN Rel(r, k) - f ELSE Rel(r, k) - f + Cap
    BY <1>3, <2>1, RelAt
  <2> QED BY <1>3, <1>5, <2>2, RelNat DEF Dist
<1>7. ASSUME NEW j \in DOMAIN resv
      PROVE  /\ Dist(resv[j].start) \in Nat /\ Size(j) \in Nat /\ End(j) <= Dist(w)
             /\ resv[j].start \in Slots /\ resv[j].from \in Senders
  <2>1. resv[j].start \in Slots /\ Size(j) \in Nat /\ resv[j].from \in Senders
    BY <1>1, EntryType
  <2> QED BY <1>1, <1>6, <2>1 DEF Tiling
<1>8. ASSUME NEW j \in 1 .. n - 1
      PROVE  /\ Dist(resv[j].start)' = Dist(resv[j + 1].start) - f
             /\ Size(j)' = Size(j + 1) /\ End(j)' = End(j + 1) - f
  <2>1. j + 1 \in DOMAIN resv /\ resv'[j] = resv[j + 1] /\ 1 < j + 1
    BY <1>4
  <2>2. Dist(resv[j + 1].start) >= f /\ resv[j + 1].start \in Slots
        /\ Dist(resv[j + 1].start) \in Nat /\ Size(j + 1) \in Nat
    BY <1>1, <1>3, <1>7, <2>1 DEF Tiling
  <2>3. Dist(resv[j].start)' = Dist(resv[j + 1].start) - f
    <3>1. Dist(resv[j].start)' = Rel(indices'.r, resv[j + 1].start)
      BY <2>1 DEF Dist
    <3> QED BY <1>6, <2>2, <3>1 DEF Dist
  <2>4. Size(j)' = Size(j + 1)
    BY <2>1 DEF Size
  <2> QED BY <1>3, <2>2, <2>3, <2>4 DEF End
<1>9. Dist(indices.w)' = Dist(w) - f /\ Dist(w) >= f
  <2>1. Dist(w) >= f
    BY <1>3, <1>7
  <2> QED BY <1>3, <1>5, <1>6, <2>1 DEF Dist
<1>10. Tiling'
  <2>1. CASE n = 1
    <3>1. (DOMAIN resv)' = {} /\ resv' = <<>>
      BY <1>1, <1>2, <1>4, <2>1 DEF TypeOK
    <3>2. Dist(w) = f
      BY <1>1, <1>3, <2>1 DEF Tiling
    <3>3. At(r, f) = w
      BY <1>3, <3>2, AtRel DEF Dist
    <3> QED BY <1>5, <3>1, <3>3 DEF Tiling
  <2>2. CASE n > 1
    <3>1. 2 \in DOMAIN resv /\ 1 \in 1 .. n - 1 /\ n - 1 \in 1 .. n - 1 /\ resv' # <<>>
      BY <1>4, <2>2
    <3>2. resv'[1].start = indices'.r
      <4>1. Dist(resv[2].start) = f /\ resv[2].start \in Slots
        BY <1>1, <1>3, <1>7, <3>1 DEF Tiling
      <4>2. At(r, f) = resv[2].start
        BY <1>3, <4>1, AtRel DEF Dist
      <4> QED BY <1>4, <1>5, <3>1, <4>2
    <3>3. Dist(indices.w)' = End(Len(resv))'
      <4>1. Dist(w) = End(n)
        BY <1>1, <1>3 DEF Tiling
      <4>2. (n - 1) + 1 = n
        BY <1>4
      <4> QED BY <1>4, <1>8, <1>9, <3>1, <4>1, <4>2
    <3>4. ASSUME NEW j \in 1 .. n - 1, j # 1 PROVE Dist(resv[j].start)' = End(j - 1)'
      <4>1. j - 1 \in 1 .. n - 1 /\ (j - 1) + 1 = j /\ (j + 1) - 1 = j
            /\ j + 1 \in DOMAIN resv /\ j + 1 # 1
        BY <1>4, <3>4
      <4>2. Dist(resv[j + 1].start) = End(j)
        BY <1>1, <4>1 DEF Tiling
      <4> QED BY <1>8, <3>4, <4>1, <4>2
    <3>5. ASSUME NEW j \in 1 .. n - 1 PROVE End(j)' <= Dist(indices.w)'
      <4>1. End(j + 1) <= Dist(w) /\ End(j + 1) \in Nat
        BY <1>4, <1>7 DEF End
      <4> QED BY <1>3, <1>8, <1>9, <4>1
    <3>6. ASSUME NEW i \in 1 .. n - 1, NEW j \in 1 .. n - 1, i < j
          PROVE  End(i)' <= Dist(resv[j].start)'
      <4>1. End(i + 1) <= Dist(resv[j + 1].start)
        <5>1. i + 1 \in DOMAIN resv /\ j + 1 \in DOMAIN resv /\ i + 1 < j + 1
          BY <1>4, <3>6
        <5> QED BY <1>1, <5>1 DEF Tiling
      <4>2. i + 1 \in DOMAIN resv /\ j + 1 \in DOMAIN resv
        BY <1>4
      <4>3. End(i + 1) \in Nat /\ Dist(resv[j + 1].start) \in Nat
        BY <1>7, <4>2 DEF End
      <4> QED BY <1>3, <1>8, <4>1, <4>3
    <3> QED BY <1>4, <3>1, <3>2, <3>3, <3>4, <3>5, <3>6 DEF Tiling
  <2> QED BY <1>4, <2>1, <2>2
<1>11. ASSUME NEW j \in 1 .. n - 1
       PROVE  Stage(j)' = Stage(j + 1) /\ (Writing(j)' <=> Writing(j + 1)) /\ Taken(j)' = Taken(j + 1)
  BY <1>2, <1>4 DEF Stage, Writing, Taken
<1>12. Contents'
  <2>1. ASSUME NEW j \in 1 .. n - 1, NEW k \in Slots, Rel(resv'[j].start, k) < Size(j)'
        PROVE  buf'[k] = Word(j, Rel(resv[j].start, k))'
    <3>1. j + 1 \in DOMAIN resv /\ resv'[j] = resv[j + 1]
      BY <1>4
    <3>2. buf[k] = Word(j + 1, Rel(resv[j + 1].start, k))
      BY <1>1, <1>8, <2>1, <3>1 DEF Contents
    <3> QED BY <1>2, <1>11, <3>1, <3>2 DEF Word
  <2>2. ASSUME NEW k \in Slots, \A j \in 1 .. n - 1 : ~(Rel(resv'[j].start, k) < Size(j)')
        PROVE  buf'[k] = Clear
    <3>1. ASSUME NEW j \in DOMAIN resv, j # 1 PROVE ~(Rel(resv[j].start, k) < Size(j))
      <4>1. j - 1 \in 1 .. n - 1 /\ resv'[j - 1] = resv[j] /\ (j - 1) + 1 = j
        BY <1>4, <3>1
      <4> QED BY <1>8, <2>2, <4>1
    <3>2. CASE Rel(resv[1].start, k) < Size(1)
      <4>1. buf[k] = WordAt(resv[1].msg, "marked", "advance", Rel(resv[1].start, k))
        BY <1>1, <1>3, <3>2 DEF Contents, Word
      <4> QED BY <1>2, <4>1 DEF WordAt
    <3>3. CASE ~(Rel(resv[1].start, k) < Size(1))
      BY <1>1, <1>2, <3>1, <3>3 DEF Contents
    <3> QED BY <3>2, <3>3
  <2> QED BY <1>4, <2>1, <2>2 DEF Contents
<1>13. SendersHold'
  <2>1. ASSUME NEW q \in Senders, snd[q].pc \in Mid
        PROVE  \E j \in 1 .. n - 1 : /\ resv'[j].from = q /\ resv'[j].start = snd[q].start
                                     /\ resv'[j].msg = snd[q].msg
    <3>1. PICK j \in DOMAIN resv : /\ resv[j].from = q /\ resv[j].start = snd[q].start
                                   /\ resv[j].msg = snd[q].msg /\ Stage(j) = snd[q].pc
      BY <2>1, WritingEntry
    <3>2. j # 1
      BY <1>3, <2>1, <3>1 DEF Mid
    <3> QED BY <1>4, <3>1, <3>2
  <2>2. ASSUME NEW q \in Senders, NEW i \in flying[q]
        PROVE  \E j \in 1 .. n - 1 : resv'[j].from = q /\ resv'[j].start = i
    <3>1. PICK j \in DOMAIN resv : resv[j].from = q /\ resv[j].start = i /\ Stage(j) = "flying"
      BY <2>2, FlyingEntry
    <3>2. j # 1
      BY <1>3, <3>1
    <3> QED BY <1>4, <3>1, <3>2
  <2>3. ASSUME NEW q \in Senders, NEW i \in 1 .. n - 1, NEW j \in 1 .. n - 1,
               resv'[i].from = q, resv'[i].start \in flying[q],
               resv'[j].from = q, Writing(j)'
        PROVE  i < j
    <3>1. i + 1 < j + 1
      BY <1>1, <1>4, <1>11, <2>3 DEF SendersHold
    <3> QED BY <3>1
  <2>4. \A q \in Senders : \A i1, i2 \in flying[q] : i1 = i2
    BY <1>1 DEF SendersHold
  <2> QED BY <1>2, <1>4, <2>1, <2>2, <2>3, <2>4 DEF SendersHold
<1>14. OwnerHolds'
  <2>1. Dist(indices.w)' <= Dist(indices.w)'
    BY <1>3, <1>9
  <2> QED BY <1>2, <2>1 DEF OwnerHolds
<1> QED BY <1>10, <1>12, <1>13, <1>14 DEF RingInv

(* The theorems *)

\* Every step keeps the invariant of the ring.
LEMMA RingStep == RingInv /\ [Next]_vars => RingInv'
<1> SUFFICES ASSUME RingInv, [Next]_vars PROVE RingInv'
  OBVIOUS
<1>1. TypeOK /\ TypeOK'
  BY StepType DEF RingInv
<1>2. ASSUME NEW p \in Senders, NEW m \in Msgs, SendStart(p, m) PROVE RingInv'
  <2>1. /\ snd[p].pc \notin Mid /\ snd'[p].pc \notin Mid
        /\ \A q \in Senders : q # p => snd'[q] = snd[q]
    BY <1>1, <1>2 DEF SendStart, TypeOK, SendState, Mid
  <2> QED BY <1>1, <1>2, <2>1, QuietSender DEF SendStart, recvVars
<1>3. ASSUME NEW p \in Senders, SendRetry(p) PROVE RingInv'
  <2>1. /\ snd[p].pc \notin Mid /\ snd'[p].pc \notin Mid
        /\ \A q \in Senders : q # p => snd'[q] = snd[q]
    BY <1>1, <1>3 DEF SendRetry, Trying, TypeOK, SendState, Mid
  <2> QED BY <1>1, <1>3, <2>1, QuietSender DEF SendRetry, recvVars
<1>4. ASSUME NEW p \in Senders, SendFail(p) \/ SendAbort(p) PROVE RingInv'
  <2>1. /\ snd[p].pc \notin Mid /\ snd'[p].pc \notin Mid
        /\ \A q \in Senders : q # p => snd'[q] = snd[q]
    BY <1>1, <1>4 DEF SendFail, SendAbort, TypeOK, SendState, Mid
  <2> QED BY <1>1, <1>4, <2>1, QuietSender DEF SendFail, SendAbort, recvVars
<1>5. ASSUME NEW p \in Senders, Send(p) PROVE RingInv'
  BY <1>1, <1>2, <1>3, <1>4, <1>5, RingSendReserve, RingSendLen, RingSendBody,
     RingSendSentinel, RingSentinelLands DEF Send, Put
<1>6. CASE RecvNothing \/ UNCHANGED vars
  <2>1. UNCHANGED vars
    BY <1>6 DEF RecvNothing
  <2>2. UNCHANGED <<buf, indices, snd, flying, rcv, curr_val, resv>>
    BY <2>1 DEF vars
  <2>3. Tiling' /\ Contents' /\ SendersHold' /\ OwnerHolds'
    BY <2>2 DEF RingInv, Tiling, Contents, SendersHold, OwnerHolds, Dist, End, Size, Word,
                Stage, Taken, Writing, used_bytes
  <2> QED BY <1>1, <2>3 DEF RingInv
<1>7. CASE Recv
  BY <1>1, <1>6, <1>7, RingRecvPoll, RingRecvCopy, RingRecvClear, RingRecvUnmark,
     RingRecvAdvance, RingRecvAdvanceRetry DEF Recv
<1> QED BY <1>5, <1>6, <1>7 DEF Next

\* The invariant of the ring holds for every capacity, every set of senders and
\* every set of messages that fit (hvr_mailbox_send, hvr_mailbox_recv).
THEOREM MailboxRing == SafeSpec => []RingInv
BY RingInit, RingStep, PTL DEF SafeSpec

\* A region is the slots within the size of its message from its start.
LEMMA RegionIs ==
  ASSUME TypeOK, NEW j \in DOMAIN resv, NEW k
  PROVE  k \in Region(resv[j]) <=> k \in Slots /\ Rel(resv[j].start, k) < Size(j)
<1>1. /\ resv[j].start \in Slots /\ Size(j) \in Nat /\ Size(j) < Cap
      /\ Size(j) = Full(resv[j].msg)
  BY EntryType DEF Size
<1>2. ASSUME NEW a \in 0 .. Full(resv[j].msg) - 1, k = At(resv[j].start, a)
      PROVE  k \in Slots /\ Rel(resv[j].start, k) < Size(j)
  <2>1. a \in 0 .. Cap - 1 /\ a < Size(j)
    BY <1>1, <1>2, CapBounds
  <2> QED BY <1>1, <1>2, <2>1, RelAt
<1>3. ASSUME k \in Slots, Rel(resv[j].start, k) < Size(j)
      PROVE  \E a \in 0 .. Full(resv[j].msg) - 1 : k = At(resv[j].start, a)
  <2>1. Rel(resv[j].start, k) \in 0 .. Full(resv[j].msg) - 1
    BY <1>1, <1>3, RelNat
  <2> QED BY <1>1, <1>3, <2>1, AtRel
<1> QED BY <1>2, <1>3 DEF Region

\* A slot at the distance of another is that slot.
LEMMA SameDist ==
  ASSUME TypeOK, NEW j \in DOMAIN resv, NEW k \in Slots, Dist(k) = End(j), End(j) < Cap
  PROVE  k = At(resv[j].start, Full(resv[j].msg))
<1>1. /\ resv[j].start \in Slots /\ Size(j) \in Nat /\ Size(j) < Cap
      /\ Size(j) = Full(resv[j].msg) /\ indices.r \in Slots
      /\ Dist(resv[j].start) \in Slots
  BY EntryType DEF Size, TypeOK, Index
<1>2. Rel(resv[j].start, k) = IF Dist(k) >= Dist(resv[j].start) THEN Dist(k) - Dist(resv[j].start)
                              ELSE Dist(k) - Dist(resv[j].start) + Cap
  BY <1>1, RelChange DEF Dist
<1>3. Rel(resv[j].start, k) = Size(j)
  BY <1>1, <1>2, CapBounds DEF End, Slots
<1> QED BY <1>1, <1>3, AtRel

\* Every capacity and every interleaving: the reservations tile the ring from
\* the read to the write index without overlap, and a receive works on the
\* oldest (hvr_mailbox_send's compare-and-swap loop, hvr_mailbox_recv's asserts).
THEOREM MailboxTiles == SafeSpec => []ReservationsTile
<1>1. RingInv => ReservationsTile
  <2> SUFFICES ASSUME RingInv PROVE ReservationsTile
    OBVIOUS
  <2>1. TypeOK /\ Tiling /\ OwnerHolds
    BY DEF RingInv
  <2>2. indices.w \in Slots /\ Dist(indices.w) \in Nat /\ Dist(indices.w) < Cap
    BY <2>1, RelNat DEF TypeOK, Index, Dist
  <2>3. ASSUME NEW j \in DOMAIN resv PROVE End(j) < Cap /\ End(j) \in Int
    <3>1. Dist(resv[j].start) \in Slots /\ Size(j) \in Nat /\ End(j) <= Dist(indices.w)
      BY <2>1, EntryType DEF Tiling
    <3> QED BY <2>2, <3>1, CapBounds DEF End, Slots
  <2>4. ASSUME NEW j \in DOMAIN resv
        PROVE  resv[j].start = IF j = 1 THEN indices.r
                               ELSE At(resv[j - 1].start, Full(resv[j - 1].msg))
    <3>1. CASE j = 1
      BY <2>1, <3>1, UsedPositive
    <3>2. CASE j # 1
      <4>1. j - 1 \in DOMAIN resv /\ resv[j].start \in Slots
        BY <2>1, <3>2, EntryType DEF TypeOK
      <4>2. Dist(resv[j].start) = End(j - 1)
        BY <2>1, <3>2 DEF Tiling
      <4> QED BY <2>1, <2>3, <3>2, <4>1, <4>2, SameDist
    <3> QED BY <3>1, <3>2
  <2>5. indices.w = IF resv = <<>> THEN indices.r
                    ELSE At(resv[Len(resv)].start, Full(resv[Len(resv)].msg))
    <3>1. CASE resv # <<>>
      <4>1. Len(resv) \in DOMAIN resv
        BY <2>1, <3>1 DEF TypeOK
      <4>2. Dist(indices.w) = End(Len(resv))
        BY <2>1, <3>1 DEF Tiling
      <4> QED BY <2>1, <2>2, <2>3, <3>1, <4>1, <4>2, SameDist
    <3> QED BY <2>1, <3>1 DEF Tiling
  <2>6. ASSUME NEW i \in DOMAIN resv, NEW j \in DOMAIN resv, i # j
        PROVE  Region(resv[i]) \cap Region(resv[j]) = {}
    <3>1. \A k : ~(k \in Region(resv[i]) /\ k \in Region(resv[j]))
      BY <2>1, <2>6, RegionIs, RegionsApart
    <3> QED BY <3>1
  <2>7. OwnerAtOldest
    BY <2>1, UsedPositive DEF OwnerHolds, OwnerAtOldest
  <2> QED BY <2>4, <2>5, <2>6, <2>7 DEF ReservationsTile
<1> QED BY <1>1, MailboxRing, PTL

\* Every word outside the reserved space is clear, so a sentinel word the owner
\* reads is a sender's, whatever the payloads (clear_mailbox_with_rotation).
THEOREM MailboxFreeIsClear == SafeSpec => []FreeSpaceIsClear
<1>1. RingInv => FreeSpaceIsClear
  <2> SUFFICES ASSUME RingInv, NEW k \in Slots, k \notin Reserved PROVE buf[k] = Clear
    BY DEF FreeSpaceIsClear
  <2>1. ASSUME NEW j \in DOMAIN resv PROVE ~(Rel(resv[j].start, k) < Size(j))
    BY RegionIs DEF Reserved, RingInv
  <2> QED BY <2>1 DEF RingInv, Contents
<1> QED BY <1>1, MailboxRing, PTL

(* The channel *)

\* An entry is open exactly until its sentinel has landed: no other sender's
\* state can hold its start.
LEMMA OpenIs ==
  ASSUME RingInv, NEW j \in DOMAIN resv PROVE Open(resv[j]) <=> Stage(j) # "marked"
<1>1. resv[j].from \in Senders
  BY EntryType DEF RingInv
<1>2. ASSUME Stage(j) # "marked" PROVE Open(resv[j])
  BY <1>1, <1>2 DEF Open, Stage, Writing, Mid
<1>3. ASSUME NEW p \in Senders, snd[p].pc \in Mid, snd[p].start = resv[j].start
      PROVE  Stage(j) # "marked"
  <2>1. PICK i \in DOMAIN resv : resv[i].start = snd[p].start /\ Stage(i) = snd[p].pc
    BY <1>3, WritingEntry
  <2>2. i = j
    BY <1>3, <2>1, StartsApart DEF RingInv
  <2> QED BY <1>3, <2>1, <2>2 DEF Mid
<1>4. ASSUME NEW p \in Senders, resv[j].start \in flying[p] PROVE Stage(j) # "marked"
  <2>1. PICK i \in DOMAIN resv : resv[i].start = resv[j].start /\ Stage(i) = "flying"
    BY <1>4, FlyingEntry
  <2>2. i = j
    BY <2>1, StartsApart DEF RingInv
  <2> QED BY <2>1, <2>2
<1> QED BY <1>2, <1>3, <1>4 DEF Open, Mid

\* The channel's queue, told from the stages of the reservations.
StageQueue == [j \in DOMAIN resv |-> [from |-> resv[j].from, msg |-> Payload[resv[j].msg],
                                      ready |-> Stage(j) = "marked"]]

\* It is the queue of the refinement mapping.
LEMMA QueueIs == RingInv => Queue = StageQueue
<1> SUFFICES ASSUME RingInv PROVE Queue = StageQueue
  OBVIOUS
<1>1. \A j \in DOMAIN resv : ~Open(resv[j]) <=> Stage(j) = "marked"
  BY OpenIs
<1>2. \A j \in DOMAIN resv : (~Open(resv[j])) \in BOOLEAN /\ (Stage(j) = "marked") \in BOOLEAN
  BY DEF Open
<1>3. \A j \in DOMAIN resv : (~Open(resv[j])) = (Stage(j) = "marked")
  BY <1>1, <1>2, Zenon
<1> QED BY <1>3, Zenon DEF Queue, StageQueue

\* And so it is after a step.
LEMMA QueueIsNext == RingInv' => (Queue = StageQueue)'
BY QueueIs, PTL

\* The starts of a sender's open reservations.
Openings(p) == (IF snd[p].pc \in Mid THEN {snd[p].start} ELSE {}) \cup flying[p]

\* A reservation is complete unless its sender has it open.
LEMMA MarkedIs ==
  \A j \in DOMAIN resv : Stage(j) = "marked" <=> resv[j].start \notin Openings(resv[j].from)
BY DEF Stage, Writing, Openings, Mid

\* That holds after a step, too.
LEMMA MarkedIsNext ==
  (\A j \in DOMAIN resv : Stage(j) = "marked" <=> resv[j].start \notin Openings(resv[j].from))'
BY MarkedIs, PTL

\* The length and the entries of the queue.
LEMMA QueueShape ==
  ASSUME TypeOK, NEW Q, Q = StageQueue
  PROVE  /\ Q \in Seq([from : Senders, msg : {Payload[m] : m \in Msgs}, ready : BOOLEAN])
         /\ Len(Q) = Len(resv) /\ DOMAIN Q = DOMAIN resv /\ DOMAIN resv = 1 .. Len(resv)
         /\ \A j \in DOMAIN resv : /\ Q[j].from = resv[j].from
                                   /\ Q[j].msg = Payload[resv[j].msg]
                                   /\ Q[j].ready <=> (Stage(j) = "marked")
<1> DEFINE R == [from : Senders, msg : {Payload[m] : m \in Msgs}, ready : BOOLEAN]
<1>1. DOMAIN resv = 1 .. Len(resv) /\ Len(resv) \in Nat
  BY DEF TypeOK
<1>2. ASSUME NEW j \in DOMAIN resv PROVE Q[j] \in R
  <2>1. resv[j].from \in Senders /\ resv[j].msg \in Msgs
    BY EntryType
  <2>2. (Stage(j) = "marked") \in BOOLEAN
    OBVIOUS
  <2>3. Q[j] = [from |-> resv[j].from, msg |-> Payload[resv[j].msg], ready |-> Stage(j) = "marked"]
    BY DEF StageQueue
  <2>4. \A b \in BOOLEAN, x \in Senders, y \in {Payload[m] : m \in Msgs} :
          [from |-> x, msg |-> y, ready |-> b] \in R
    OBVIOUS
  <2>5. Payload[resv[j].msg] \in {Payload[m] : m \in Msgs}
    BY <2>1
  <2> HIDE DEF R
  <2>6. [from |-> resv[j].from, msg |-> Payload[resv[j].msg], ready |-> Stage(j) = "marked"] \in R
    BY <2>1, <2>2, <2>4, <2>5, Zenon
  <2> QED BY <2>3, <2>6, Zenon
<1>3. Q = [j \in 1 .. Len(resv) |-> Q[j]]
  BY <1>1, Zenon DEF StageQueue
<1>4. Q \in Seq(R)
  <2> HIDE DEF R
  <2> QED BY <1>1, <1>2, <1>3
<1>5. Len(Q) = Len(resv) /\ DOMAIN Q = DOMAIN resv
  BY <1>1, <1>3
<1>6. \A j \in DOMAIN resv : /\ Q[j].from = resv[j].from /\ Q[j].msg = Payload[resv[j].msg]
                             /\ Q[j].ready <=> (Stage(j) = "marked")
  BY Zenon DEF StageQueue
<1> QED BY <1>1, <1>4, <1>5, <1>6

\* A step that reserves and releases nothing and opens and closes nothing keeps
\* the queue.
LEMMA QueueKept ==
  ASSUME TypeOK, UNCHANGED resv, \A q \in Senders : Openings(q)' = Openings(q)
  PROVE  StageQueue' = StageQueue
<1>1. ASSUME NEW j \in DOMAIN resv PROVE (Stage(j)' = "marked") <=> (Stage(j) = "marked")
  <2>1. resv[j].from \in Senders
    BY EntryType
  <2> QED BY <2>1, MarkedIs, MarkedIsNext
<1>2. \A j \in DOMAIN resv : (Stage(j)' = "marked") = (Stage(j) = "marked")
  BY <1>1, Zenon
<1> QED BY <1>2, Zenon DEF StageQueue

\* No reservation starts at the write index.
LEMMA NoneAtWrite ==
  ASSUME TypeOK, Tiling, NEW j \in DOMAIN resv PROVE resv[j].start # indices.w
<1>1. resv[j].start \in Slots /\ Size(j) \in Nat /\ Size(j) >= Header /\ indices.r \in Slots
  BY EntryType DEF TypeOK, Index
<1>2. Dist(resv[j].start) \in Nat /\ End(j) <= Dist(indices.w)
  BY <1>1, RelNat DEF Tiling, Dist
<1> QED BY <1>1, <1>2 DEF End, Header

\* A reservation claims the place behind all others.
LEMMA ReserveClaims ==
  ASSUME RingInv, RingInv', NEW p \in Senders, SendReserve(p)
  PROVE  StageQueue' = Append(StageQueue, [from |-> p, msg |-> Payload[snd[p].msg],
                                           ready |-> FALSE])
<1> SUFFICES ASSUME NEW w, w = indices.w, NEW m, m = snd[p].msg, NEW n, n = Len(resv),
                    NEW Q, Q = StageQueue, NEW Q1, Q1 = StageQueue',
                    NEW e, e = [from |-> p, msg |-> Payload[m], ready |-> FALSE]
             PROVE  Q1 = Append(Q, e)
  OBVIOUS
<1> DEFINE new == [from |-> p, msg |-> m, start |-> w]
           R == [from : Senders, msg : {Payload[k] : k \in Msgs}, ready : BOOLEAN]
<1>1. TypeOK /\ Tiling
  BY DEF RingInv
<1>2. /\ snd[p].pc = "try" /\ snd[p].old = indices /\ resv' = Append(resv, new)
      /\ snd' = [snd EXCEPT ![p] = [@ EXCEPT !.pc = "len", !.start = w]]
      /\ flying' = flying /\ m \in Msgs
  BY <1>1, TypeParts DEF SendReserve, Trying
<1>3. /\ snd'[p].pc = "len" /\ snd'[p].start = w
      /\ \A q \in Senders : q # p => snd'[q] = snd[q]
  BY <1>1, <1>2 DEF TypeOK, SendState
<1>4. /\ n \in Nat /\ DOMAIN resv = 1 .. n /\ (DOMAIN resv)' = 1 .. n + 1
      /\ resv'[n + 1] = new /\ \A j \in 1 .. n : resv'[j] = resv[j]
  <2>1. new \in [from : Senders, msg : Msgs, start : Slots]
    BY <1>1, <1>2, TypeParts, IndexFields
  <2>2. resv \in Seq([from : Senders, msg : Msgs, start : Slots])
    BY <1>1 DEF TypeOK
  <2> HIDE DEF new
  <2> QED BY <1>2, <2>1, <2>2, AppendProperties
<1>5. /\ Q \in Seq(R) /\ Len(Q) = n
      /\ \A j \in 1 .. n : /\ Q[j].from = resv[j].from /\ Q[j].msg = Payload[resv[j].msg]
                           /\ Q[j].ready <=> (Stage(j) = "marked")
  BY <1>1, <1>4, QueueShape
<1>6. e \in R
  BY <1>2
<1>7. /\ Append(Q, e) \in Seq(R) /\ Len(Append(Q, e)) = n + 1
      /\ Append(Q, e)[n + 1] = e /\ \A j \in 1 .. n : Append(Q, e)[j] = Q[j]
  <2> HIDE DEF R
  <2> QED BY <1>5, <1>6, AppendProperties
<1>8. Append(Q, e) = [j \in 1 .. n + 1 |-> Append(Q, e)[j]]
  <2> HIDE DEF R
  <2> QED BY <1>7
<1>9. Q1 = [j \in 1 .. n + 1 |-> [from |-> resv'[j].from, msg |-> Payload[resv'[j].msg],
                                  ready |-> Stage(j)' = "marked"]]
  BY <1>4, Zenon DEF StageQueue
<1>10. ASSUME NEW j \in 1 .. n
       PROVE  [from |-> resv'[j].from, msg |-> Payload[resv'[j].msg],
               ready |-> Stage(j)' = "marked"] = Q[j]
  <2>1. resv[j].from \in Senders /\ resv[j].start # w
    BY <1>1, <1>4, EntryType, NoneAtWrite
  <2>2. resv[j].start \in Openings(resv[j].from)' <=> resv[j].start \in Openings(resv[j].from)
    <3>1. CASE resv[j].from = p
      BY <1>2, <1>3, <2>1, <3>1 DEF Openings, Mid
    <3>2. CASE resv[j].from # p
      BY <1>2, <1>3, <2>1, <3>2 DEF Openings
    <3> QED BY <3>1, <3>2
  <2>3. j \in DOMAIN resv /\ j \in (DOMAIN resv)' /\ resv'[j] = resv[j]
    BY <1>4
  <2>4. (Stage(j)' = "marked") = (Stage(j) = "marked")
    <3>1. (Stage(j)' = "marked") <=> (Stage(j) = "marked")
      BY <2>2, <2>3, MarkedIs, MarkedIsNext
    <3> QED BY <3>1, Zenon
  <2>5. Q[j] = [from |-> resv[j].from, msg |-> Payload[resv[j].msg], ready |-> Stage(j) = "marked"]
    BY <2>3, Zenon DEF StageQueue
  <2> QED BY <2>3, <2>4, <2>5, Zenon
<1>11. [from |-> resv'[n + 1].from, msg |-> Payload[resv'[n + 1].msg],
        ready |-> Stage(n + 1)' = "marked"] = e
  <2>1. Stage(n + 1)' # "marked"
    BY <1>3, <1>4 DEF Stage, Writing, Mid
  <2>2. resv'[n + 1].from = p /\ resv'[n + 1].msg = m
    BY <1>4
  <2>3. (Stage(n + 1)' = "marked") = FALSE
    BY <2>1, Zenon
  <2> QED BY <2>2, <2>3, Zenon
<1>12. \A j \in 1 .. n + 1 : j \in 1 .. n \/ j = n + 1
  BY <1>4
<1>13. ASSUME NEW j \in 1 .. n + 1
       PROVE  [from |-> resv'[j].from, msg |-> Payload[resv'[j].msg],
               ready |-> Stage(j)' = "marked"] = Append(Q, e)[j]
  <2>1. CASE j \in 1 .. n
    BY <1>7, <1>10, <2>1, Zenon
  <2>2. CASE j = n + 1
    BY <1>7, <1>11, <2>2, Zenon
  <2> QED BY <1>12, <2>1, <2>2, Zenon
<1> QED BY <1>8, <1>9, <1>13, Zenon

\* Making an entry of the queue ready.
LEMMA ReadyEntry ==
  ASSUME NEW A, NEW B, NEW x \in [from : A, msg : B, ready : BOOLEAN]
  PROVE  [x EXCEPT !.ready = TRUE] = [from |-> x.from, msg |-> x.msg, ready |-> TRUE]
<1> DEFINE R == [from : A, msg : B, ready : BOOLEAN]
           y == [from |-> x.from, msg |-> x.msg, ready |-> TRUE]
           z == [x EXCEPT !.ready = TRUE]
<1>1. y \in R /\ z \in R
  OBVIOUS
<1>2. \A u, v \in R : u.from = v.from /\ u.msg = v.msg /\ u.ready = v.ready => u = v
  OBVIOUS
<1>3. z.from = x.from /\ z.msg = x.msg /\ z.ready = TRUE
  OBVIOUS
<1> QED BY <1>1, <1>2, <1>3

\* A sentinel that lands publishes the oldest message its sender has open.
LEMMA LandingPublishes ==
  ASSUME RingInv, NEW p \in Senders, SentinelLands(p)
  PROVE  \E i \in DOMAIN StageQueue :
           /\ StageQueue[i].from = p /\ ~StageQueue[i].ready
           /\ \A j \in 1 .. i - 1 : StageQueue[j].from = p => StageQueue[j].ready
           /\ StageQueue' = [StageQueue EXCEPT ![i].ready = TRUE]
<1>1. TypeOK /\ Tiling /\ SendersHold
  BY DEF RingInv
<1>2. PICK s \in flying[p] : flying' = [flying EXCEPT ![p] = @ \ {s}]
  BY DEF SentinelLands
<1>3. flying[p] = {s}
  BY FlyingEntry
<1>4. PICK i \in DOMAIN resv :
        /\ resv[i].from = p /\ resv[i].start = s /\ ~Writing(i) /\ Stage(i) = "flying"
        /\ \A j \in DOMAIN resv : j # i => resv[j].start # s
  BY FlyingEntry
<1>5. flying'[p] = {} /\ snd' = snd /\ resv' = resv
      /\ \A q \in Senders : q # p => flying'[q] = flying[q]
  BY <1>1, <1>2, <1>3 DEF TypeOK, SentinelLands
<1>6. /\ DOMAIN StageQueue = DOMAIN resv /\ DOMAIN resv = 1 .. Len(resv)
      /\ \A j \in DOMAIN resv : /\ StageQueue[j].from = resv[j].from
                                /\ StageQueue[j].ready <=> (Stage(j) = "marked")
  BY <1>1, QueueShape
<1>7. ASSUME NEW j \in 1 .. i - 1, StageQueue[j].from = p PROVE StageQueue[j].ready
  <2>1. j \in DOMAIN resv /\ j < i
    BY <1>4, <1>6, <1>7
  <2>2. resv[j].from = p /\ resv[j].start # s
    BY <1>4, <1>6, <1>7, <2>1
  <2>3. ~Writing(j)
    <3>1. Writing(j) => i < j
      BY <1>1, <1>4, <2>1, <2>2 DEF SendersHold
    <3> QED BY <1>6, <2>1, <3>1
  <2>4. Stage(j) = "marked"
    BY <1>3, <2>2, <2>3 DEF Stage
  <2> QED BY <1>6, <2>1, <2>4
<1>8. ASSUME NEW j \in DOMAIN resv
      PROVE  (Stage(j)' = "marked") = IF j = i THEN TRUE ELSE Stage(j) = "marked"
  <2>1. CASE j = i
    <3>1. Stage(j)' = "marked"
      BY <1>4, <1>5, <2>1 DEF Stage, Writing
    <3> QED BY <2>1, <3>1, Zenon
  <2>2. CASE j # i
    <3>1. resv[j].from \in Senders /\ resv[j].start # s
      BY <1>1, <1>4, <2>2, EntryType
    <3>2. Stage(j)' = Stage(j)
      BY <1>3, <1>5, <3>1 DEF Stage, Writing
    <3> QED BY <2>2, <3>2, Zenon
  <2> QED BY <2>1, <2>2
<1>9. StageQueue' = [StageQueue EXCEPT ![i].ready = TRUE]
  <2> SUFFICES ASSUME NEW Q, Q = StageQueue, NEW Q1, Q1 = StageQueue'
               PROVE  Q1 = [Q EXCEPT ![i].ready = TRUE]
    BY Zenon
  <2>1. Q = [j \in DOMAIN resv |-> Q[j]]
    BY Zenon DEF StageQueue
  <2>2. Q1 = [j \in DOMAIN resv |-> [from |-> resv[j].from, msg |-> Payload[resv[j].msg],
                                     ready |-> Stage(j)' = "marked"]]
    BY <1>5, Zenon DEF StageQueue
  <2>3. ASSUME NEW j \in DOMAIN resv
        PROVE  [from |-> resv[j].from, msg |-> Payload[resv[j].msg],
                ready |-> Stage(j)' = "marked"]
               = IF j = i THEN [Q[j] EXCEPT !.ready = TRUE] ELSE Q[j]
    <3>1. Q[j] = [from |-> resv[j].from, msg |-> Payload[resv[j].msg],
                  ready |-> Stage(j) = "marked"]
      BY Zenon DEF StageQueue
    <3>2. CASE j = i
      <4>1. (Stage(j)' = "marked") = TRUE
        BY <1>8, <3>2, Zenon
      <4>2. Q[j] \in [from : Senders, msg : {Payload[m] : m \in Msgs}, ready : BOOLEAN]
        BY <1>1, QueueShape, ElementOf
      <4>3. [Q[j] EXCEPT !.ready = TRUE]
            = [from |-> resv[j].from, msg |-> Payload[resv[j].msg], ready |-> TRUE]
        <5>1. Q[j].from = resv[j].from /\ Q[j].msg = Payload[resv[j].msg]
          BY <1>1, QueueShape
        <5>2. [Q[j] EXCEPT !.ready = TRUE] = [from |-> Q[j].from, msg |-> Q[j].msg, ready |-> TRUE]
          BY <4>2, ReadyEntry
        <5> QED BY <5>1, <5>2, Zenon
      <4> QED BY <3>2, <4>1, <4>3, Zenon
    <3>3. CASE j # i
      <4>1. (Stage(j)' = "marked") = (Stage(j) = "marked")
        BY <1>8, <3>3, Zenon
      <4> QED BY <3>1, <3>3, <4>1, Zenon
    <3> QED BY <3>2, <3>3, Zenon
  <2>4. \A F : F = [j \in DOMAIN resv |-> F[j]] =>
          [F EXCEPT ![i].ready = TRUE]
          = [j \in DOMAIN resv |-> IF j = i THEN [F[j] EXCEPT !.ready = TRUE] ELSE F[j]]
    OBVIOUS
  <2>5. [Q EXCEPT ![i].ready = TRUE]
        = [j \in DOMAIN resv |-> IF j = i THEN [Q[j] EXCEPT !.ready = TRUE] ELSE Q[j]]
    BY <2>1, <2>4, Zenon
  <2>6. Q1 = [j \in DOMAIN resv |-> IF j = i THEN [Q[j] EXCEPT !.ready = TRUE] ELSE Q[j]]
    BY <2>2, <2>3, Zenon
  <2> QED BY <2>5, <2>6, Zenon
<1> QED BY <1>4, <1>6, <1>7, <1>9

\* The end of a receive delivers the oldest message, whole and complete.
LEMMA AdvanceDelivers ==
  ASSUME RingInv, RecvAdvance
  PROVE  /\ StageQueue # <<>> /\ Head(StageQueue).ready
         /\ StageQueue' = Tail(StageQueue)
         /\ delivered' = Append(delivered, Head(StageQueue).msg)
<1> SUFFICES ASSUME NEW n, n = Len(resv), NEW Q, Q = StageQueue, NEW Q1, Q1 = StageQueue'
             PROVE  /\ Q # <<>> /\ Head(Q).ready /\ Q1 = Tail(Q)
                    /\ delivered' = Append(delivered, Head(Q).msg)
  OBVIOUS
<1> DEFINE R == [from : Senders, msg : {Payload[k] : k \in Msgs}, ready : BOOLEAN]
<1>1. /\ TypeOK /\ rcv.pc = "advance" /\ resv' = SubSeq(resv, 2, n)
      /\ snd' = snd /\ flying' = flying /\ delivered' = Append(delivered, rcv.msg)
  BY DEF RingInv, RecvAdvance, sendVars
<1>2. /\ resv # <<>> /\ 1 \in DOMAIN resv /\ Stage(1) = "marked"
      /\ rcv.msg = Payload[resv[1].msg]
  BY <1>1, TakenEntry
<1>3. /\ n \in Nat /\ n >= 1 /\ DOMAIN resv = 1 .. n /\ (DOMAIN resv)' = 1 .. n - 1
      /\ \A j \in 1 .. n - 1 : resv'[j] = resv[j + 1] /\ j + 1 \in DOMAIN resv
  <2>1. resv \in Seq([from : Senders, msg : Msgs, start : Slots])
    BY <1>1 DEF TypeOK
  <2> QED BY <1>1, <1>2, <2>1, DropFirst
<1>4. /\ Q \in Seq(R) /\ Len(Q) = n /\ DOMAIN Q = DOMAIN resv
      /\ \A j \in DOMAIN resv : /\ Q[j].msg = Payload[resv[j].msg]
                                /\ Q[j].ready <=> (Stage(j) = "marked")
  BY <1>1, QueueShape
<1>5. /\ Q # <<>> /\ Head(Q) = Q[1] /\ Tail(Q) \in Seq(R) /\ Len(Tail(Q)) = n - 1
      /\ \A j \in 1 .. n - 1 : Tail(Q)[j] = Q[j + 1]
  <2> HIDE DEF R
  <2>1. Q # <<>>
    BY <1>3, <1>4
  <2> QED BY <1>3, <1>4, <2>1, HeadTailProperties
<1>6. Tail(Q) = [j \in 1 .. n - 1 |-> Tail(Q)[j]]
  <2>1. \A T : \A q \in Seq(T) : q = [j \in 1 .. Len(q) |-> q[j]]
    OBVIOUS
  <2> HIDE DEF R
  <2>2. Tail(Q) = [j \in 1 .. Len(Tail(Q)) |-> Tail(Q)[j]]
    BY <1>5, <2>1, Zenon
  <2> QED BY <1>5, <2>2, Zenon
<1>7. Q1 = [j \in 1 .. n - 1 |-> [from |-> resv'[j].from, msg |-> Payload[resv'[j].msg],
                                  ready |-> Stage(j)' = "marked"]]
  BY <1>3, Zenon DEF StageQueue
<1>8. ASSUME NEW j \in 1 .. n - 1
      PROVE  [from |-> resv'[j].from, msg |-> Payload[resv'[j].msg],
              ready |-> Stage(j)' = "marked"] = Tail(Q)[j]
  <2>1. resv'[j] = resv[j + 1] /\ j + 1 \in DOMAIN resv
    BY <1>3
  <2>2. Stage(j)' = Stage(j + 1)
    BY <1>1, <2>1 DEF Stage, Writing
  <2>3. Q[j + 1] = [from |-> resv[j + 1].from, msg |-> Payload[resv[j + 1].msg],
                    ready |-> Stage(j + 1) = "marked"]
    BY <2>1, Zenon DEF StageQueue
  <2> QED BY <1>5, <2>1, <2>2, <2>3, Zenon
<1>9. Q1 = Tail(Q)
  BY <1>6, <1>7, <1>8, Zenon
<1> QED BY <1>1, <1>2, <1>4, <1>5, <1>9

\* The mailbox implements the channel: every step claims the place behind all
\* others, publishes its sender's oldest open message, delivers the oldest
\* message whole, or leaves the channel as it was.  What this does not say, that
\* nothing stays stuck, needs the fairness of Spec (hvr_mailbox_send,
\* hvr_mailbox_recv).
THEOREM MailboxImplementsChannel == SafeSpec => Abstract!SafeSpec
<1>1. Init => Abstract!Init
  <2> SUFFICES ASSUME Init PROVE Queue = <<>> /\ delivered = <<>>
    BY DEF Abstract!Init
  <2>1. resv = <<>> /\ delivered = <<>> /\ DOMAIN resv = {}
    BY DEF Init
  <2> QED BY <2>1 DEF Queue
<1>2. RingInv /\ RingInv' /\ [Next]_vars => [Abstract!Next]_(Abstract!vars)
  <2> SUFFICES ASSUME RingInv, RingInv', [Next]_vars
               PROVE  Abstract!Next \/ UNCHANGED <<Queue, delivered>>
    BY DEF Abstract!vars
  <2>1. TypeOK /\ Queue = StageQueue /\ Queue' = StageQueue'
    BY QueueIs, QueueIsNext DEF RingInv
  <2>2. ASSUME UNCHANGED <<resv, delivered>>, \A q \in Senders : Openings(q)' = Openings(q)
        PROVE  UNCHANGED <<Queue, delivered>>
    BY <2>1, <2>2, QueueKept
  <2>3. ASSUME NEW p \in Senders, NEW m \in Msgs, SendStart(p, m)
        PROVE  UNCHANGED <<Queue, delivered>>
    <3>1. \A q \in Senders : Openings(q)' = Openings(q)
      <4>1. /\ snd[p].pc \notin Mid /\ snd'[p].pc \notin Mid /\ flying' = flying
            /\ \A q \in Senders : q # p => snd'[q] = snd[q]
        BY <2>1, <2>3 DEF SendStart, Mid, TypeOK, SendState
      <4> QED BY <4>1 DEF Openings
    <3> QED BY <2>2, <2>3, <3>1 DEF SendStart, recvVars
  <2>4. ASSUME NEW p \in Senders, SendRetry(p) \/ SendFail(p) \/ SendAbort(p)
        PROVE  UNCHANGED <<Queue, delivered>>
    <3>1. \A q \in Senders : Openings(q)' = Openings(q)
      <4>1. /\ snd[p].pc \notin Mid /\ snd'[p].pc \notin Mid /\ flying' = flying
            /\ \A q \in Senders : q # p => snd'[q] = snd[q]
        BY <2>1, <2>4 DEF SendRetry, SendFail, SendAbort, Trying, Mid, TypeOK, SendState
      <4> QED BY <4>1 DEF Openings
    <3> QED BY <2>2, <2>4, <3>1 DEF SendRetry, SendFail, SendAbort, recvVars
  <2>5. ASSUME NEW p \in Senders, Put(p) PROVE UNCHANGED <<Queue, delivered>>
    <3>1. \A q \in Senders : q # p => Openings(q)' = Openings(q)
      BY <2>1, <2>5 DEF Put, SendLen, SendBody, SendSentinel, Openings, TypeOK
    <3>2. Openings(p)' = Openings(p)
      BY <2>1, <2>5 DEF Put, SendLen, SendBody, SendSentinel, Openings, Mid, TypeOK, SendState
    <3> QED BY <2>2, <2>5, <3>1, <3>2 DEF Put, SendLen, SendBody, SendSentinel, recvVars
  <2>6. ASSUME NEW p \in Senders, SendReserve(p) PROVE Abstract!Next
    <3>1. snd[p].msg \in Msgs /\ delivered' = delivered
      BY <2>1, <2>6, TypeParts DEF SendReserve, recvVars
    <3>2. Abstract!Claim(p, Payload[snd[p].msg])
      BY <2>1, <2>6, <3>1, ReserveClaims DEF Abstract!Claim
    <3>3. Payload[snd[p].msg] \in {Payload[m] : m \in Msgs}
      BY <3>1
    <3> QED BY <3>2, <3>3 DEF Abstract!Next
  <2>7. ASSUME NEW p \in Senders, SentinelLands(p) PROVE Abstract!Next
    <3>1. PICK i \in DOMAIN StageQueue :
            /\ StageQueue[i].from = p /\ ~StageQueue[i].ready
            /\ \A j \in 1 .. i - 1 : StageQueue[j].from = p => StageQueue[j].ready
            /\ StageQueue' = [StageQueue EXCEPT ![i].ready = TRUE]
      BY <2>7, LandingPublishes
    <3>2. delivered' = delivered
      BY <2>7 DEF SentinelLands, recvVars
    <3>3. Abstract!Publish(p)
      BY <2>1, <3>1, <3>2, Zenon DEF Abstract!Publish, Abstract!OldestOpen
    <3> QED BY <3>3 DEF Abstract!Next
  <2>8. ASSUME RecvAdvance PROVE Abstract!Next
    <3>1. Abstract!Deliver
      BY <2>1, <2>8, AdvanceDelivers, Zenon DEF Abstract!Deliver
    <3> QED BY <3>1 DEF Abstract!Next
  <2>9. ASSUME RecvPoll \/ RecvCopy \/ RecvClear \/ RecvUnmark \/ RecvAdvanceRetry
        PROVE  UNCHANGED <<Queue, delivered>>
    <3>1. UNCHANGED <<snd, flying, resv, delivered>>
      BY <2>9 DEF RecvPoll, RecvCopy, RecvClear, RecvUnmark, RecvAdvanceRetry, sendVars
    <3> QED BY <2>2, <3>1 DEF Openings
  <2>10. ASSUME RecvNothing \/ UNCHANGED vars PROVE UNCHANGED <<Queue, delivered>>
    <3>1. UNCHANGED <<snd, flying, resv, delivered>>
      BY <2>10 DEF RecvNothing, vars
    <3> QED BY <2>2, <3>1 DEF Openings
  <2>11. CASE \E p \in Senders : Send(p)
    BY <2>3, <2>4, <2>5, <2>6, <2>7, <2>11 DEF Send
  <2>12. CASE Recv
    BY <2>8, <2>9, <2>10, <2>12 DEF Recv
  <2> QED BY <2>10, <2>11, <2>12 DEF Next
<1> QED BY <1>1, <1>2, MailboxRing, PTL DEF SafeSpec, Abstract!SafeSpec
=============================================================================
