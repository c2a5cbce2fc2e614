-------------------------- MODULE DistBitvecProofs --------------------------
(***************************************************************************)
(* Producers that share no bit find, once their atomics have landed, their *)
(* own membership in the row, for any number of PEs, rows and updates, in  *)
(* whatever order the network lets the atomics land.  What makes it true   *)
(* is the fence behind each atomic on a word: of one producer, no two are  *)
(* on their way without a fence between them.  And a copy whose sequence   *)
(* number is still the row's has missed nothing that landed: that fence is *)
(* also between a change and the increment that announces it.              *)
(***************************************************************************)
EXTENDS DistBitvec, SequenceTheorems, TLAPS

\* No two producers have one bit.  With the 64 and 32 of the code this says
\* that no two are 32 apart in the same 64.
NoSharedBit ==
  \A p, q \in Producers :
    coord1_word(p) = coord1_word(q) /\ coord1_bit(p) = coord1_bit(q) => p = q

\* Every PE's bit is in a word of the row.
LEMMA OwnWord ==
  ASSUME NEW p \in Producers
  PROVE  coord1_word(p) \in Words /\ coord1_bit(p) \in Bits
<1> DEFINE B == BITS_PER_ELE
           w == p \div B
<1>1. B \in Nat \ {0} /\ Dim1 \in Nat \ {0} /\ BITS_PER_WORD \in 1 .. B /\ p \in 0 .. Dim1 - 1
  BY BitvecAssumption
<1>2. coord1_bit(p) \in Bits
  BY <1>1 DEF coord1_bit, Bits
<1>3. w \in Nat /\ B * w <= p
  BY <1>1
<1>4. Dim1 + B - 1 >= B * (w + 1)
  <2>1. B * (w + 1) = B * w + B
    BY <1>1, <1>3
  <2> HIDE DEF w
  <2> QED
    BY <1>1, <1>3, <2>1
<1>5. (Dim1 + B - 1) \div B >= w + 1
  <2> DEFINE n == Dim1 + B - 1
             d == n \div B
  <2>1. n \in Nat /\ d \in Int /\ n < B * (d + 1)
    BY <1>1
  <2> HIDE DEF n, d, w
  <2>2. B * (w + 1) < B * (d + 1)
    BY <1>1, <1>3, <1>4, <2>1 DEF n
  <2>3. w + 1 < d + 1 \/ w + 1 >= d + 1
    BY <1>3, <2>1
  <2>4. CASE w + 1 >= d + 1
    BY <1>1, <1>3, <2>1, <2>2, <2>4
  <2>5. CASE w + 1 < d + 1
    BY <1>3, <2>1, <2>5 DEF d, n
  <2> QED
    BY <2>4, <2>5, <1>3, <2>1
<1> QED
  BY <1>1, <1>2, <1>3, <1>5 DEF coord1_word, Words, dim1_length_in_words

\* An atomic that changes a bit of row c.
OnRow(m, c) == m.op \in {"or", "and"} /\ m.row = c

\* Behind every such atomic there is its fence.
Fenced(s) ==
  \A i \in DOMAIN s : s[i].op \in {"or", "and"} => i + 1 \in DOMAIN s /\ s[i + 1] = Fence

\* Some atomic on the bit is on its way; the last of them makes it b.
Pending(s, c) == \E i \in DOMAIN s : OnRow(s[i], c)
EndsIn(s, c, b) ==
  \A i \in DOMAIN s :
    OnRow(s[i], c) /\ (\A j \in DOMAIN s : j > i => ~OnRow(s[j], c)) => (s[i].op = "or" <=> b)

\* What RemoveAt leaves.
LEMMA Removed ==
  ASSUME NEW s \in Seq(Atomics), NEW i \in DOMAIN s
  PROVE  /\ RemoveAt(s, i) \in Seq(Atomics)
         /\ Len(RemoveAt(s, i)) = Len(s) - 1
         /\ \A j \in 1 .. Len(s) - 1 : RemoveAt(s, i)[j] = IF j < i THEN s[j] ELSE s[j + 1]
<1> DEFINE a == SubSeq(s, 1, i - 1)
           b == SubSeq(s, i + 1, Len(s))
<1>1. i \in 1 .. Len(s) /\ Len(s) \in Nat
  OBVIOUS
<1>2. /\ a \in Seq(Atomics) /\ Len(a) = i - 1
      /\ \A j \in 1 .. i - 1 : a[j] = s[j]
  BY <1>1
<1>3. /\ b \in Seq(Atomics) /\ Len(b) = Len(s) - i
      /\ \A j \in 1 .. Len(s) - i : b[j] = s[i + j]
  BY <1>1
<1> HIDE DEF a, b
<1>4. a \o b \in Seq(Atomics) /\ Len(a \o b) = Len(s) - 1
  BY <1>1, <1>2, <1>3
<1>5. ASSUME NEW j \in 1 .. Len(s) - 1
      PROVE  (a \o b)[j] = IF j < i THEN s[j] ELSE s[j + 1]
  <2>1. CASE j < i
    BY <1>1, <1>2, <1>3, <2>1
  <2>2. CASE ~(j < i)
    <3>1. (a \o b)[j] = b[j - (i - 1)]
      BY <1>1, <1>2, <1>3, <2>2
    <3>2. j - (i - 1) \in 1 .. Len(s) - i /\ i + (j - (i - 1)) = j + 1
      BY <1>1, <2>2
    <3> QED
      BY <1>1, <1>3, <2>2, <3>1, <3>2
  <2> QED
    BY <2>1, <2>2
<1>6. RemoveAt(s, i) = a \o b
  BY DEF RemoveAt, a, b
<1> QED
  BY <1>4, <1>5, <1>6

\* One producer's atomic lands.  It was fenced from every other of the same
\* row, so that the last of those still on their way is still the last, and it
\* was itself the last if there is none.
LEMMA RemovingLast ==
  ASSUME NEW s \in Seq(Atomics), NEW i \in DOMAIN s, Fenced(s),
         \A j \in 1 .. i : s[j] # Fence
  PROVE  LET t == RemoveAt(s, i) IN
         /\ Fenced(t)
         /\ \A c, b : EndsIn(s, c, b) => EndsIn(t, c, b)
         /\ \A c : ~OnRow(s[i], c) /\ Pending(s, c) => Pending(t, c)
         /\ \A c : OnRow(s[i], c) /\ ~Pending(t, c) =>
              \A k \in DOMAIN s : k > i => ~OnRow(s[k], c)
<1> DEFINE t == RemoveAt(s, i)
<1>1. /\ i \in 1 .. Len(s) /\ Len(s) \in Nat /\ DOMAIN s = 1 .. Len(s)
      /\ DOMAIN t = 1 .. Len(s) - 1
      /\ \A j \in 1 .. Len(s) - 1 : t[j] = IF j < i THEN s[j] ELSE s[j + 1]
  <2>1. i \in 1 .. Len(s) /\ Len(s) \in Nat /\ DOMAIN s = 1 .. Len(s)
    OBVIOUS
  <2>2. /\ t \in Seq(Atomics) /\ Len(t) = Len(s) - 1
        /\ \A j \in 1 .. Len(s) - 1 : t[j] = IF j < i THEN s[j] ELSE s[j + 1]
    BY Removed
  <2> HIDE DEF t
  <2>3. DOMAIN t = 1 .. Len(t)
    BY <2>2
  <2> QED
    BY <2>1, <2>2, <2>3
<1>2. ASSUME NEW j \in 1 .. i, s[j].op \in {"or", "and"}
      PROVE  j = i
  <2>1. j \in DOMAIN s
    BY <1>1
  <2>2. s[j + 1] = Fence
    BY <1>2, <2>1 DEF Fenced
  <2>3. ~(j + 1 \in 1 .. i)
    BY <2>2
  <2> QED
    BY <1>1, <2>3
<1> HIDE DEF t
<1>3. Fenced(t)
  <2> SUFFICES ASSUME NEW j \in 1 .. Len(s) - 1, t[j].op \in {"or", "and"}
               PROVE  j + 1 \in 1 .. Len(s) - 1 /\ t[j + 1] = Fence
    BY <1>1 DEF Fenced
  <2>1. j >= i
    BY <1>1, <1>2
  <2>2. s[j + 1].op \in {"or", "and"} /\ j + 1 \in 1 .. Len(s)
    BY <1>1, <2>1
  <2>3. j + 2 \in 1 .. Len(s) /\ s[j + 2] = Fence
    <3>1. (j + 1) + 1 \in DOMAIN s /\ s[(j + 1) + 1] = Fence
      BY <1>1, <2>2 DEF Fenced
    <3>2. (j + 1) + 1 = j + 2
      OBVIOUS
    <3> QED
      BY <1>1, <3>1, <3>2
  <2>4. j + 1 \in 1 .. Len(s) - 1 /\ ~(j + 1 < i) /\ (j + 1) + 1 = j + 2
    BY <1>1, <2>1, <2>3
  <2> QED
    BY <1>1, <2>3, <2>4
<1>4. ASSUME NEW c, NEW j \in DOMAIN t, OnRow(t[j], c)
      PROVE  /\ j >= i /\ j + 1 \in DOMAIN s /\ t[j] = s[j + 1]
             /\ \A k \in DOMAIN s : k > j + 1 => k - 1 \in DOMAIN t /\ k - 1 > j /\ t[k - 1] = s[k]
  <2>1. j >= i
    BY <1>1, <1>2, <1>4 DEF OnRow
  <2>2. ASSUME NEW k \in DOMAIN s, k > j + 1
        PROVE  k - 1 \in DOMAIN t /\ k - 1 > j /\ t[k - 1] = s[k]
    <3>1. k - 1 \in 1 .. Len(s) - 1 /\ k - 1 > j /\ ~(k - 1 < i) /\ (k - 1) + 1 = k
      BY <1>1, <2>1, <2>2
    <3> QED
      BY <1>1, <3>1
  <2> QED
    BY <1>1, <2>1, <2>2
<1>5. ASSUME NEW c, NEW b, EndsIn(s, c, b) PROVE EndsIn(t, c, b)
  <2> SUFFICES ASSUME NEW j \in DOMAIN t, OnRow(t[j], c),
                      \A k \in DOMAIN t : k > j => ~OnRow(t[k], c)
               PROVE  t[j].op = "or" <=> b
    BY DEF EndsIn
  <2>1. j + 1 \in DOMAIN s /\ OnRow(s[j + 1], c) /\ t[j] = s[j + 1]
    BY <1>4
  <2>2. \A k \in DOMAIN s : k > j + 1 => ~OnRow(s[k], c)
    BY <1>4
  <2> QED
    BY <1>5, <2>1, <2>2 DEF EndsIn
<1>6. ASSUME NEW c, NEW k \in DOMAIN s, k # i, OnRow(s[k], c)
      PROVE  Pending(t, c)
  <2>1. k > i
    BY <1>1, <1>2, <1>6 DEF OnRow
  <2>2. k - 1 \in 1 .. Len(s) - 1 /\ ~(k - 1 < i) /\ (k - 1) + 1 = k
    BY <1>1, <2>1
  <2>3. k - 1 \in DOMAIN t /\ t[k - 1] = s[k]
    BY <1>1, <2>2
  <2> QED
    BY <1>6, <2>3 DEF Pending
<1>7. ASSUME NEW c, ~OnRow(s[i], c), Pending(s, c) PROVE Pending(t, c)
  BY <1>6, <1>7 DEF Pending
<1>8. ASSUME NEW c, OnRow(s[i], c), ~Pending(t, c)
      PROVE  \A k \in DOMAIN s : k > i => ~OnRow(s[k], c)
  BY <1>1, <1>6, <1>8
<1> QED
  BY <1>3, <1>5, <1>7, <1>8 DEF t

\* A fence that is over changes nothing of what is on its way.
LEMMA PassingFences ==
  ASSUME NEW s \in Seq(Atomics), Fenced(s)
  PROVE  LET t == PastFences(s) IN
         /\ t \in Seq(Atomics) /\ Fenced(t)
         /\ \A c, b : EndsIn(s, c, b) => EndsIn(t, c, b)
         /\ \A c : Pending(s, c) <=> Pending(t, c)
<1> DEFINE t == PastFences(s)
<1>1. CASE ~(s # <<>> /\ Head(s) = Fence)
  BY <1>1 DEF PastFences
<1>2. CASE s # <<>> /\ Head(s) = Fence
  <2>1. /\ t = Tail(s) /\ t \in Seq(Atomics) /\ s[1] = Fence
        /\ Len(s) \in Nat /\ DOMAIN s = 1 .. Len(s) /\ DOMAIN t = 1 .. Len(s) - 1
        /\ \A j \in 1 .. Len(s) - 1 : t[j] = s[j + 1]
    BY <1>2 DEF PastFences
  <2> HIDE DEF t
  <2>2. \A c : ~OnRow(s[1], c)
    BY <2>1 DEF OnRow, Fence
  <2>3. Fenced(t)
    <3> SUFFICES ASSUME NEW j \in 1 .. Len(s) - 1, t[j].op \in {"or", "and"}
                 PROVE  j + 1 \in 1 .. Len(s) - 1 /\ t[j + 1] = Fence
      BY <2>1 DEF Fenced
    <3>1. (j + 1) + 1 \in DOMAIN s /\ s[(j + 1) + 1] = Fence
      BY <2>1 DEF Fenced
    <3> QED
      BY <2>1, <3>1
  <2>4. ASSUME NEW k \in DOMAIN s, NEW c, OnRow(s[k], c)
        PROVE  k - 1 \in DOMAIN t /\ t[k - 1] = s[k]
    <3>1. k > 1
      BY <2>1, <2>2, <2>4
    <3>2. k - 1 \in 1 .. Len(s) - 1 /\ (k - 1) + 1 = k
      BY <2>1, <3>1
    <3> QED
      BY <2>1, <3>2
  <2>5. ASSUME NEW c PROVE Pending(s, c) <=> Pending(t, c)
    <3>1. \A j \in DOMAIN t : j + 1 \in DOMAIN s /\ t[j] = s[j + 1]
      BY <2>1
    <3> QED
      BY <2>4, <3>1 DEF Pending
  <2>6. ASSUME NEW c, NEW b, EndsIn(s, c, b) PROVE EndsIn(t, c, b)
    <3> SUFFICES ASSUME NEW j \in DOMAIN t, OnRow(t[j], c),
                        \A k \in DOMAIN t : k > j => ~OnRow(t[k], c)
                 PROVE  t[j].op = "or" <=> b
      BY DEF EndsIn
    <3>1. j + 1 \in DOMAIN s /\ t[j] = s[j + 1]
      BY <2>1
    <3>2. ASSUME NEW k \in DOMAIN s, k > j + 1, OnRow(s[k], c) PROVE FALSE
      <4>1. k - 1 \in DOMAIN t /\ t[k - 1] = s[k]
        BY <2>4, <3>2
      <4>2. k - 1 > j
        BY <2>1, <3>2
      <4> QED
        BY <3>2, <4>1, <4>2
    <3> QED
      BY <2>6, <3>1, <3>2 DEF EndsIn
  <2> QED
    BY <2>1, <2>3, <2>5, <2>6 DEF t
<1> QED
  BY <1>1, <1>2

\* t is s with an update of row c behind it.
IsIssued(t, s, op, c) ==
  LET n == Len(s)
  IN  /\ t \in Seq(Atomics) /\ n \in Nat
      /\ DOMAIN s = 1 .. n /\ DOMAIN t = 1 .. n + 3
      /\ \A j \in 1 .. n : t[j] = s[j]
      /\ t[n + 1] = [op |-> op, row |-> c] /\ t[n + 2] = Fence
      /\ t[n + 3] = [op |-> "inc", row |-> c]

\* Issue puts an update behind what is on its way.
LEMMA IssuedAtomics ==
  ASSUME NEW s \in Seq(Atomics), NEW c \in Rows, NEW op \in {"or", "and"}
  PROVE  IsIssued(s \o Issue(op, c), s, op, c)
<1> DEFINE t == s \o Issue(op, c)
           n == Len(s)
<1> DEFINE new == Issue(op, c)
<1>1. /\ new \in Seq(Atomics) /\ Len(new) = 3
      /\ new[1] = [op |-> op, row |-> c] /\ new[2] = Fence
      /\ new[3] = [op |-> "inc", row |-> c]
  BY DEF Issue, Atomics, Fence
<1>2. t = s \o new
  OBVIOUS
<1> HIDE DEF new, t
<1>3. n \in Nat /\ DOMAIN s = 1 .. n
  OBVIOUS
<1>4. t \in Seq(Atomics) /\ Len(t) = n + 3
  <2>1. s \o new \in Seq(Atomics) /\ Len(s \o new) = Len(s) + Len(new)
    BY <1>1, ConcatProperties
  <2> QED
    BY <1>1, <1>2, <2>1
<1>5. \A j \in 1 .. n : t[j] = s[j]
  BY <1>1, <1>2
<1>6. t[n + 1] = new[1] /\ t[n + 2] = new[2] /\ t[n + 3] = new[3]
  <2>1. \A i \in 1 .. Len(s) + Len(new) :
          (s \o new)[i] = IF i <= Len(s) THEN s[i] ELSE new[i - Len(s)]
    BY <1>1, ConcatProperties
  <2>2. /\ {n + 1, n + 2, n + 3} \subseteq 1 .. Len(s) + Len(new)
        /\ (n + 1) - n = 1 /\ (n + 2) - n = 2 /\ (n + 3) - n = 3
        /\ ~(n + 1 <= n) /\ ~(n + 2 <= n) /\ ~(n + 3 <= n)
    BY <1>1, <1>3
  <2> QED
    BY <1>2, <2>1, <2>2
<1>7. DOMAIN t = 1 .. n + 3
  BY <1>3, <1>4
<1> QED
  BY <1>1, <1>3, <1>4, <1>5, <1>6, <1>7 DEF IsIssued, t, n

\* An update goes behind what is on its way, with its fence.
LEMMA Issuing ==
  ASSUME NEW s \in Seq(Atomics), Fenced(s), NEW c \in Rows, NEW op \in {"or", "and"}
  PROVE  LET t == s \o Issue(op, c) IN
         /\ t \in Seq(Atomics) /\ Fenced(t)
         /\ Pending(t, c) /\ EndsIn(t, c, op = "or")
         /\ \A d : d # c => (Pending(t, d) <=> Pending(s, d))
         /\ \A d, b : d # c /\ EndsIn(s, d, b) => EndsIn(t, d, b)
<1> DEFINE t == s \o Issue(op, c)
           n == Len(s)
<1>0. IsIssued(t, s, op, c)
  BY IssuedAtomics
<1> HIDE DEF t
<1>1. /\ t \in Seq(Atomics) /\ n \in Nat /\ DOMAIN s = 1 .. n /\ DOMAIN t = 1 .. n + 3
      /\ \A j \in 1 .. n : t[j] = s[j]
      /\ t[n + 1] = [op |-> op, row |-> c] /\ t[n + 2] = Fence
      /\ t[n + 3] = [op |-> "inc", row |-> c]
  BY <1>0 DEF IsIssued
<1> HIDE DEF t, n
<1>2. /\ \A d : OnRow(t[n + 1], d) <=> d = c
      /\ \A d : ~OnRow(t[n + 2], d) /\ ~OnRow(t[n + 3], d)
      /\ t[n + 1].op = op
  BY <1>1 DEF OnRow, Fence
<1>3. Fenced(t)
  <2> SUFFICES ASSUME NEW j \in 1 .. n + 3, t[j].op \in {"or", "and"}
               PROVE  j + 1 \in 1 .. n + 3 /\ t[j + 1] = Fence
    BY <1>1 DEF Fenced
  <2>1. CASE j \in 1 .. n
    <3>1. j + 1 \in 1 .. n /\ s[j + 1] = Fence
      BY <1>1, <2>1 DEF Fenced
    <3> QED
      BY <1>1, <3>1
  <2>2. CASE j = n + 1
    BY <1>1, <2>2
  <2>3. CASE j = n + 2 \/ j = n + 3
    BY <1>1, <2>3 DEF Fence
  <2> QED
    BY <1>1, <2>1, <2>2, <2>3
<1>4. Pending(t, c)
  BY <1>1, <1>2 DEF Pending
<1>5. EndsIn(t, c, op = "or")
  <2> SUFFICES ASSUME NEW j \in DOMAIN t, OnRow(t[j], c),
                      \A k \in DOMAIN t : k > j => ~OnRow(t[k], c)
               PROVE  t[j].op = "or" <=> op = "or"
    BY DEF EndsIn
  <2>1. j >= n + 1
    BY <1>1, <1>2
  <2>2. j = n + 1
    BY <1>1, <1>2, <2>1
  <2> QED
    BY <1>2, <2>2
<1>6. ASSUME NEW d, d # c, NEW j \in DOMAIN t, OnRow(t[j], d)
      PROVE  j \in DOMAIN s /\ t[j] = s[j]
  BY <1>1, <1>2, <1>6
<1>7. ASSUME NEW d, d # c PROVE Pending(t, d) <=> Pending(s, d)
  BY <1>1, <1>6, <1>7 DEF Pending
<1>8. ASSUME NEW d, NEW b, d # c, EndsIn(s, d, b) PROVE EndsIn(t, d, b)
  <2> SUFFICES ASSUME NEW j \in DOMAIN t, OnRow(t[j], d),
                      \A k \in DOMAIN t : k > j => ~OnRow(t[k], d)
               PROVE  t[j].op = "or" <=> b
    BY DEF EndsIn
  <2>1. j \in DOMAIN s /\ t[j] = s[j]
    BY <1>6, <1>8
  <2>2. \A k \in DOMAIN s : k > j => ~OnRow(s[k], d)
    BY <1>1
  <2> QED
    BY <1>8, <2>1, <2>2 DEF EndsIn
<1> QED
  BY <1>1, <1>3, <1>4, <1>5, <1>7, <1>8 DEF t

\* What a landed atomic of p does to p's own bit and to that of another.
LEMMA AppliedBits ==
  ASSUME NEW p \in Producers, NEW op \in {"or", "and", "inc"},
         NEW words \in [Words -> SUBSET Bits]
  PROVE  /\ Applied(p, op, words) \in [Words -> SUBSET Bits]
         /\ op = "inc" => Applied(p, op, words) = words
         /\ op # "inc" => (contains(p, Applied(p, op, words)) <=> op = "or")
         /\ \A q \in Producers : NoSharedBit /\ q # p =>
              (contains(q, Applied(p, op, words)) <=> contains(q, words))
<1> DEFINE w == coord1_word(p)
           b == coord1_bit(p)
<1>1. w \in Words /\ b \in Bits
  BY OwnWord
<1>2. ASSUME NEW q \in Producers, NoSharedBit, q # p
      PROVE  coord1_word(q) \in Words /\ ~(coord1_word(q) = w /\ coord1_bit(q) = b)
  BY <1>2, OwnWord DEF NoSharedBit
<1>3. CASE op = "or"
  <2>1. Applied(p, op, words) = [words EXCEPT ![w] = @ \union {b}]
    BY <1>3 DEF Applied
  <2> HIDE DEF w, b
  <2> QED
    BY <1>1, <1>2, <1>3, <2>1 DEF contains, w, b
<1>4. CASE op = "and"
  <2>1. Applied(p, op, words) = [words EXCEPT ![w] = @ \ {b}]
    BY <1>4 DEF Applied
  <2> HIDE DEF w, b
  <2> QED
    BY <1>1, <1>2, <1>4, <2>1 DEF contains, w, b
<1>5. CASE op = "inc"
  BY <1>5 DEF Applied
<1> QED
  BY <1>3, <1>4, <1>5

\* Once the atomics of p on row c have landed the bit is p's membership, and
\* the last of those still on their way will make it so.
Agrees(p, c) ==
  /\ EndsIn(flight[p], c, c \in member[p])
  /\ ~Pending(flight[p], c) => (contains(p, symm_vec[c]) <=> c \in member[p])

IInv ==
  /\ symm_vec \in [Rows -> [Words -> SUBSET Bits]]
  /\ flight \in [Producers -> Seq(Atomics)]
  /\ member \in [Producers -> SUBSET Rows]
  /\ \A p \in Producers : Fenced(flight[p])
  /\ \A p \in Producers, c \in Rows : Agrees(p, c)

LEMMA InitEstablishes == Init => IInv
<1> SUFFICES ASSUME Init PROVE IInv
  OBVIOUS
<1>1. \A p \in Producers : flight[p] = <<>> /\ member[p] = {}
  BY DEF Init
<1>2. symm_vec \in [Rows -> [Words -> SUBSET Bits]]
  BY DEF Init, NoBits
<1>3. \A p \in Producers, c \in Rows : ~contains(p, symm_vec[c])
  BY OwnWord DEF Init, NoBits, contains
<1>4. \A p \in Producers : Fenced(flight[p])
  BY <1>1 DEF Fenced
<1>5. ASSUME NEW p \in Producers, NEW c \in Rows PROVE Agrees(p, c)
  BY <1>1, <1>3 DEF Agrees, EndsIn, Pending
<1> QED
  BY <1>2, <1>4, <1>5 DEF IInv, Init

\* Set and Clear: the new atomic is the last on its row and makes the bit
\* what the membership has become.
LEMMA UpdateKeeps ==
  ASSUME IInv, NEW p \in Producers, NEW c \in Rows, NEW op \in {"or", "and"},
         Update(p, c, op), member' = [member EXCEPT ![p] = IF op = "or" THEN @ \union {c} ELSE @ \ {c}]
  PROVE  IInv'
<1> DEFINE t == flight[p] \o Issue(op, c)
<1>1. /\ symm_vec' = symm_vec
      /\ flight' = [flight EXCEPT ![p] = t]
  BY DEF Update
<1>2. flight[p] \in Seq(Atomics) /\ Fenced(flight[p])
  BY DEF IInv
<1>3. /\ t \in Seq(Atomics) /\ Fenced(t)
      /\ Pending(t, c) /\ EndsIn(t, c, op = "or")
      /\ \A d : d # c => (Pending(t, d) <=> Pending(flight[p], d))
      /\ \A d, b : d # c /\ EndsIn(flight[p], d, b) => EndsIn(t, d, b)
  BY <1>2, Issuing
<1> HIDE DEF t
<1>4. /\ flight' \in [Producers -> Seq(Atomics)]
      /\ flight'[p] = t /\ \A q \in Producers : q # p => flight'[q] = flight[q]
  BY <1>1, <1>3 DEF IInv
<1>5. /\ member' \in [Producers -> SUBSET Rows]
      /\ c \in member'[p] <=> op = "or"
      /\ \A d : d # c => (d \in member'[p] <=> d \in member[p])
      /\ \A q \in Producers : q # p => member'[q] = member[q]
  BY DEF IInv
<1>6. \A q \in Producers : Fenced(flight'[q])
  BY <1>3, <1>4 DEF IInv
<1>7. ASSUME NEW q \in Producers, NEW d \in Rows PROVE Agrees(q, d)'
  <2>1. Agrees(q, d)
    BY DEF IInv
  <2>2. CASE q # p
    BY <1>1, <1>4, <1>5, <2>1, <2>2 DEF Agrees
  <2>3. CASE q = p /\ d = c
    <3>1. EndsIn(t, c, c \in member'[p])
      BY <1>3, <1>5 DEF EndsIn
    <3> QED
      BY <1>3, <1>4, <2>3, <3>1 DEF Agrees
  <2>4. CASE q = p /\ d # c
    <3>1. EndsIn(t, d, d \in member[p])
      BY <1>3, <2>1, <2>4 DEF Agrees
    <3>2. EndsIn(t, d, d \in member'[p])
      BY <1>5, <2>4, <3>1 DEF EndsIn
    <3>3. ~Pending(t, d) => (contains(p, symm_vec[d]) <=> d \in member[p])
      BY <1>3, <2>1, <2>4 DEF Agrees
    <3> QED
      BY <1>1, <1>4, <1>5, <2>4, <3>2, <3>3 DEF Agrees
  <2> QED
    BY <2>2, <2>3, <2>4
<1> QED
  BY <1>1, <1>4, <1>5, <1>6, <1>7 DEF IInv

\* An atomic lands: it changes at most the bit of its own producer, and that
\* for good only if it was the last on the row.
LEMMA LandKeeps ==
  ASSUME NoSharedBit, IInv, NEW p \in Producers, NEW i \in DOMAIN flight[p], Land(p, i)
  PROVE  IInv'
<1> DEFINE s == flight[p]
           f == s[i]
           u == RemoveAt(s, i)
           t == PastFences(u)
<1>1. s \in Seq(Atomics) /\ Fenced(s) /\ i \in DOMAIN s
  BY DEF IInv
<1>2. \A j \in 1 .. i : s[j] # Fence
  BY DEF Land
<1>3. f \in [op : {"or", "and", "inc"}, row : Rows]
  <2>1. i \in 1 .. i /\ f \in Atomics
    BY <1>1
  <2> QED
    BY <1>2, <2>1 DEF Atomics
<1>4. /\ Fenced(u)
      /\ \A c, b : EndsIn(s, c, b) => EndsIn(u, c, b)
      /\ \A c : ~OnRow(f, c) /\ Pending(s, c) => Pending(u, c)
      /\ \A c : OnRow(f, c) /\ ~Pending(u, c) => \A k \in DOMAIN s : k > i => ~OnRow(s[k], c)
  BY <1>1, <1>2, RemovingLast
<1>5. u \in Seq(Atomics)
  BY <1>1, Removed
<1>6. /\ symm_vec' = [symm_vec EXCEPT ![f.row] = Applied(p, f.op, @)]
      /\ flight' = [flight EXCEPT ![p] = t]
      /\ member' = member
  BY DEF Land
<1> HIDE DEF s, f, u
<1>7. /\ t \in Seq(Atomics) /\ Fenced(t)
      /\ \A c, b : EndsIn(u, c, b) => EndsIn(t, c, b)
      /\ \A c : Pending(u, c) <=> Pending(t, c)
  BY <1>4, <1>5, PassingFences
<1> HIDE DEF t
<1>8. /\ flight' \in [Producers -> Seq(Atomics)]
      /\ flight'[p] = t /\ \A q \in Producers : q # p => flight'[q] = flight[q]
  BY <1>6, <1>7 DEF IInv
<1>9. /\ Applied(p, f.op, symm_vec[f.row]) \in [Words -> SUBSET Bits]
      /\ f.op = "inc" => Applied(p, f.op, symm_vec[f.row]) = symm_vec[f.row]
      /\ f.op # "inc" => (contains(p, Applied(p, f.op, symm_vec[f.row])) <=> f.op = "or")
      /\ \A q \in Producers : q # p =>
           (contains(q, Applied(p, f.op, symm_vec[f.row])) <=> contains(q, symm_vec[f.row]))
  <2>1. f.op \in {"or", "and", "inc"} /\ symm_vec[f.row] \in [Words -> SUBSET Bits]
    BY <1>3 DEF IInv
  <2> QED
    BY <2>1, AppliedBits
<1>10. /\ symm_vec' \in [Rows -> [Words -> SUBSET Bits]]
       /\ symm_vec'[f.row] = Applied(p, f.op, symm_vec[f.row])
       /\ \A c \in Rows : c # f.row => symm_vec'[c] = symm_vec[c]
  BY <1>3, <1>6, <1>9 DEF IInv
<1>11. \A q \in Producers : Fenced(flight'[q])
  BY <1>7, <1>8 DEF IInv
<1>12. ASSUME NEW q \in Producers, NEW c \in Rows PROVE Agrees(q, c)'
  <2>1. Agrees(q, c)
    BY DEF IInv
  <2>2. CASE q # p
    <3>1. contains(q, symm_vec'[c]) <=> contains(q, symm_vec[c])
      BY <1>9, <1>10, <2>2
    <3> QED
      BY <1>6, <1>8, <2>1, <2>2, <3>1 DEF Agrees
  <2>3. CASE q = p
    <3>1. EndsIn(s, c, c \in member[p])
      BY <2>1, <2>3 DEF Agrees, s
    <3>2. EndsIn(t, c, c \in member[p])
      BY <1>4, <1>7, <3>1
    <3>3. ASSUME ~Pending(t, c)
          PROVE  contains(p, symm_vec'[c]) <=> c \in member[p]
      <4>1. ~Pending(u, c)
        BY <1>7, <3>3
      <4>2. CASE OnRow(f, c)
        <5>1. f.op = "or" <=> c \in member[p]
          BY <1>1, <1>4, <3>1, <4>1, <4>2 DEF EndsIn, f
        <5>2. f.row = c /\ f.op # "inc"
          BY <4>2 DEF OnRow
        <5> QED
          BY <1>9, <1>10, <5>1, <5>2
      <4>3. CASE ~OnRow(f, c)
        <5>1. contains(p, symm_vec[c]) <=> c \in member[p]
          BY <1>4, <2>1, <2>3, <4>1, <4>3 DEF Agrees, s
        <5>2. f.row = c => f.op = "inc"
          BY <1>3, <4>3 DEF OnRow
        <5>3. symm_vec'[c] = symm_vec[c]
          BY <1>9, <1>10, <5>2
        <5> QED
          BY <5>1, <5>3
      <4> QED
        BY <4>2, <4>3
    <3> QED
      BY <1>6, <1>8, <2>3, <3>2, <3>3 DEF Agrees
  <2> QED
    BY <2>2, <2>3
<1> QED
  BY <1>6, <1>8, <1>10, <1>11, <1>12 DEF IInv

LEMMA NextKeeps == NoSharedBit /\ IInv /\ [Next]_vars => IInv'
<1> SUFFICES ASSUME NoSharedBit, IInv, [Next]_vars PROVE IInv'
  OBVIOUS
<1> USE DEF IInv
<1>1. ASSUME NEW p \in Producers, NEW c \in Rows, Set(p, c) PROVE IInv'
  <2>1. Update(p, c, "or") /\ member' = [member EXCEPT ![p] = @ \union {c}]
    BY <1>1 DEF Set
  <2> QED
    BY <2>1, UpdateKeeps
<1>2. ASSUME NEW p \in Producers, NEW c \in Rows, Clear(p, c) PROVE IInv'
  <2>1. Update(p, c, "and") /\ member' = [member EXCEPT ![p] = @ \ {c}]
    BY <1>2 DEF Clear
  <2> QED
    BY <2>1, UpdateKeeps
<1>3. ASSUME NEW p \in Producers, NEW i \in DOMAIN flight[p], Land(p, i) PROVE IInv'
  BY <1>3, LandKeeps
<1>4. ASSUME NEW r \in Readers, NEW c \in Rows, CopyStart(r, c) PROVE IInv'
  BY <1>4 DEF CopyStart, Agrees
<1>5. ASSUME NEW r \in Readers, NEW c \in Rows, NEW w \in Words, CopyWord(r, c, w) PROVE IInv'
  BY <1>5 DEF CopyWord, Agrees
<1>6. CASE UNCHANGED vars
  BY <1>6 DEF vars, Agrees
<1> QED
  BY <1>1, <1>2, <1>3, <1>4, <1>5, <1>6 DEF Next

\* Producers that share no bit each read, once their updates of a row have
\* landed, the membership they last published: neither the order in which
\* hvr_dist_bitvec_set's and _clear's atomics land nor other PEs undo it.
THEOREM RowExact ==
  ASSUME NoSharedBit
  PROVE  Spec => []RowIsMembership
<1>1. IInv => RowIsMembership
  <2> SUFFICES ASSUME IInv, NEW p \in Producers, NEW c \in Rows, Settled(p, c)
               PROVE  contains(p, symm_vec[c]) <=> c \in member[p]
    BY DEF RowIsMembership
  <2>1. ~Pending(flight[p], c)
    BY DEF Pending, Settled, OnRow, Fence
  <2> QED
    BY <2>1 DEF IInv, Agrees
<1>2. IInv /\ [Next]_vars => IInv'
  BY NextKeeps
<1> QED
  BY <1>1, <1>2, InitEstablishes, PTL DEF Spec

-----------------------------------------------------------------------------
(* The copies.  A change of a bit is announced: its increment is behind it  *)
(* and its fence, so that a change that a copy missed still has an          *)
(* increment on its way, or has made the sequence number move past it.      *)

\* The increment of a change of row c is on its way.
IncPending(s, c) == \E i \in DOMAIN s : s[i].op = "inc" /\ s[i].row = c

\* Behind every change there is the increment that announces it.
Announced(s) ==
  \A i \in DOMAIN s : \A c \in Rows :
    OnRow(s[i], c) => \E j \in DOMAIN s : j > i /\ s[j].op = "inc" /\ s[j].row = c

\* What r has read of row c since it read the sequence number that is still
\* the row's shows every producer that has no increment on its way.
Shows(r, c) ==
  /\ copy[r][c].seq_no <= seq_nos[c]
  /\ copy[r][c].seq_no = seq_nos[c] =>
       \A p \in Producers :
         coord1_word(p) \notin left[r][c] /\ ~IncPending(flight[p], c) =>
           (contains(p, copy[r][c].subvec) <=> contains(p, symm_vec[c]))

\* What a local copy of a row is.
Copies == [subvec : [Words -> SUBSET Bits], seq_no : Nat]

\* The changes are announced, and every copy shows what it must.
CopyInv ==
  /\ seq_nos \in [Rows -> Nat]
  /\ copy \in [Readers -> [Rows -> Copies]]
  /\ left \in [Readers -> [Rows -> SUBSET Words]]
  /\ \A p \in Producers : Announced(flight[p])
  /\ \A r \in Readers, c \in Rows : Shows(r, c)

\* An atomic that lands leaves what announces the others, and what announces
\* itself if it was a change; only an increment takes its announcement along.
LEMMA RemovingAnnounced ==
  ASSUME NEW s \in Seq(Atomics), NEW i \in DOMAIN s, Fenced(s), Announced(s),
         \A j \in 1 .. i : s[j] # Fence
  PROVE  LET t == RemoveAt(s, i) IN
         /\ Announced(t)
         /\ \A c : IncPending(s, c) /\ ~(s[i].op = "inc" /\ s[i].row = c) => IncPending(t, c)
         /\ \A c \in Rows : OnRow(s[i], c) => IncPending(t, c)
<1> DEFINE t == RemoveAt(s, i)
<1>1. /\ i \in 1 .. Len(s) /\ Len(s) \in Nat /\ DOMAIN s = 1 .. Len(s)
      /\ DOMAIN t = 1 .. Len(s) - 1
      /\ \A j \in 1 .. Len(s) - 1 : t[j] = IF j < i THEN s[j] ELSE s[j + 1]
  <2>1. i \in 1 .. Len(s) /\ Len(s) \in Nat /\ DOMAIN s = 1 .. Len(s)
    OBVIOUS
  <2>2. /\ t \in Seq(Atomics) /\ Len(t) = Len(s) - 1
        /\ \A j \in 1 .. Len(s) - 1 : t[j] = IF j < i THEN s[j] ELSE s[j + 1]
    BY Removed
  <2> HIDE DEF t
  <2>3. DOMAIN t = 1 .. Len(t)
    BY <2>2
  <2> QED
    BY <2>1, <2>2, <2>3
<1> HIDE DEF t
<1>2. ASSUME NEW j \in 1 .. i, s[j].op \in {"or", "and"}
      PROVE  j = i
  <2>1. j \in DOMAIN s
    BY <1>1
  <2>2. s[j + 1] = Fence
    BY <1>2, <2>1 DEF Fenced
  <2>3. ~(j + 1 \in 1 .. i)
    BY <2>2
  <2> QED
    BY <1>1, <2>3
<1>3. ASSUME NEW k \in DOMAIN s, k > i
      PROVE  k - 1 \in DOMAIN t /\ t[k - 1] = s[k]
  <2>1. k - 1 \in 1 .. Len(s) - 1 /\ ~(k - 1 < i) /\ (k - 1) + 1 = k
    BY <1>1, <1>3
  <2> QED
    BY <1>1, <2>1
<1>4. ASSUME NEW k \in DOMAIN s, k < i
      PROVE  k \in DOMAIN t /\ t[k] = s[k]
  <2>1. k \in 1 .. Len(s) - 1
    BY <1>1, <1>4
  <2> QED
    BY <1>1, <1>4, <2>1
<1>5. Announced(t)
  <2> SUFFICES ASSUME NEW j \in DOMAIN t, NEW c \in Rows, OnRow(t[j], c)
               PROVE  \E k \in DOMAIN t : k > j /\ t[k].op = "inc" /\ t[k].row = c
    BY DEF Announced
  <2>1. j >= i
    BY <1>1, <1>2 DEF OnRow
  <2>2. j + 1 \in DOMAIN s /\ t[j] = s[j + 1]
    BY <1>1, <2>1
  <2>3. PICK k \in DOMAIN s : k > j + 1 /\ s[k].op = "inc" /\ s[k].row = c
    BY <2>2 DEF Announced
  <2>4. k > i /\ k - 1 > j
    BY <1>1, <2>1, <2>3
  <2> QED
    BY <1>3, <2>3, <2>4
<1>6. ASSUME NEW c, IncPending(s, c), ~(s[i].op = "inc" /\ s[i].row = c)
      PROVE  IncPending(t, c)
  <2>1. PICK k \in DOMAIN s : s[k].op = "inc" /\ s[k].row = c
    BY <1>6 DEF IncPending
  <2>2. k < i \/ k > i
    BY <1>1, <1>6, <2>1
  <2> QED
    BY <1>3, <1>4, <2>1, <2>2 DEF IncPending
<1>7. ASSUME NEW c \in Rows, OnRow(s[i], c) PROVE IncPending(t, c)
  <2>1. PICK k \in DOMAIN s : k > i /\ s[k].op = "inc" /\ s[k].row = c
    BY <1>7 DEF Announced
  <2> QED
    BY <1>3, <2>1 DEF IncPending
<1> QED
  BY <1>5, <1>6, <1>7 DEF t

\* A fence that is over announced nothing.
LEMMA PassingAnnounced ==
  ASSUME NEW s \in Seq(Atomics), Announced(s)
  PROVE  LET t == PastFences(s) IN
         /\ Announced(t)
         /\ \A c : IncPending(s, c) => IncPending(t, c)
<1> DEFINE t == PastFences(s)
<1>1. CASE ~(s # <<>> /\ Head(s) = Fence)
  BY <1>1 DEF PastFences
<1>2. CASE s # <<>> /\ Head(s) = Fence
  <2>1. /\ t = Tail(s) /\ s[1] = Fence
        /\ Len(s) \in Nat /\ DOMAIN s = 1 .. Len(s) /\ DOMAIN t = 1 .. Len(s) - 1
        /\ \A j \in 1 .. Len(s) - 1 : t[j] = s[j + 1]
    BY <1>2 DEF PastFences
  <2> HIDE DEF t
  <2>2. ASSUME NEW k \in DOMAIN s, k > 1
        PROVE  k - 1 \in DOMAIN t /\ t[k - 1] = s[k]
    <3>1. k - 1 \in 1 .. Len(s) - 1 /\ (k - 1) + 1 = k
      BY <2>1, <2>2
    <3> QED
      BY <2>1, <3>1
  <2>3. Announced(t)
    <3> SUFFICES ASSUME NEW j \in DOMAIN t, NEW c \in Rows, OnRow(t[j], c)
                 PROVE  \E k \in DOMAIN t : k > j /\ t[k].op = "inc" /\ t[k].row = c
      BY DEF Announced
    <3>1. j + 1 \in DOMAIN s /\ t[j] = s[j + 1]
      BY <2>1
    <3>2. PICK k \in DOMAIN s : k > j + 1 /\ s[k].op = "inc" /\ s[k].row = c
      BY <3>1 DEF Announced
    <3>3. k > 1 /\ k - 1 > j
      BY <2>1, <3>2
    <3> QED
      BY <2>2, <3>2, <3>3
  <2>4. ASSUME NEW c, IncPending(s, c) PROVE IncPending(t, c)
    <3>1. PICK k \in DOMAIN s : s[k].op = "inc" /\ s[k].row = c
      BY <2>4 DEF IncPending
    <3>2. k > 1
      BY <2>1, <3>1 DEF Fence
    <3> QED
      BY <2>2, <3>1, <3>2 DEF IncPending
  <2> QED
    BY <2>3, <2>4 DEF t
<1> QED
  BY <1>1, <1>2

\* An update brings its own announcement.
LEMMA IssuingAnnounced ==
  ASSUME NEW s \in Seq(Atomics), Announced(s), NEW c \in Rows, NEW op \in {"or", "and"}
  PROVE  LET t == s \o Issue(op, c) IN
         /\ Announced(t)
         /\ \A d : IncPending(s, d) => IncPending(t, d)
<1> DEFINE t == s \o Issue(op, c)
           n == Len(s)
<1>0. IsIssued(t, s, op, c)
  BY IssuedAtomics
<1> HIDE DEF t
<1>1. /\ n \in Nat /\ DOMAIN s = 1 .. n /\ DOMAIN t = 1 .. n + 3
      /\ \A j \in 1 .. n : t[j] = s[j]
      /\ t[n + 1] = [op |-> op, row |-> c] /\ t[n + 2] = Fence
      /\ t[n + 3] = [op |-> "inc", row |-> c]
  BY <1>0 DEF IsIssued
<1> HIDE DEF t, n
<1>2. Announced(t)
  <2> SUFFICES ASSUME NEW j \in DOMAIN t, NEW d \in Rows, OnRow(t[j], d)
               PROVE  \E k \in DOMAIN t : k > j /\ t[k].op = "inc" /\ t[k].row = d
    BY DEF Announced
  <2>1. CASE j \in 1 .. n
    <3>1. j \in DOMAIN s /\ OnRow(s[j], d)
      BY <1>1, <2>1
    <3>2. PICK k \in DOMAIN s : k > j /\ s[k].op = "inc" /\ s[k].row = d
      BY <3>1 DEF Announced
    <3> QED
      BY <1>1, <3>2
  <2>2. CASE j = n + 1
    <3>1. d = c
      BY <1>1, <2>2 DEF OnRow
    <3> QED
      BY <1>1, <2>2, <3>1
  <2>3. CASE j = n + 2 \/ j = n + 3
    BY <1>1, <2>3 DEF OnRow, Fence
  <2> QED
    BY <1>1, <2>1, <2>2, <2>3
<1>3. ASSUME NEW d, IncPending(s, d) PROVE IncPending(t, d)
  <2>1. PICK k \in DOMAIN s : s[k].op = "inc" /\ s[k].row = d
    BY <1>3 DEF IncPending
  <2> QED
    BY <1>1, <2>1 DEF IncPending
<1> QED
  BY <1>2, <1>3 DEF t

\* Copies and rows start out empty.
LEMMA InitEstablishesCopies == Init => CopyInv
<1> SUFFICES ASSUME Init PROVE CopyInv
  OBVIOUS
<1>1. /\ symm_vec = [c \in Rows |-> NoBits]
      /\ seq_nos = [c \in Rows |-> 0]
      /\ flight = [p \in Producers |-> <<>>]
      /\ copy = [r \in Readers |-> [c \in Rows |-> [subvec |-> NoBits, seq_no |-> 0]]]
      /\ left = [r \in Readers |-> [c \in Rows |-> {}]]
  BY DEF Init
<1>2. NoBits \in [Words -> SUBSET Bits]
  BY DEF NoBits
<1>3. \A p \in Producers : Announced(flight[p])
  BY <1>1 DEF Announced
<1>4. ASSUME NEW r \in Readers, NEW c \in Rows PROVE Shows(r, c)
  <2>1. copy[r][c].subvec = NoBits /\ copy[r][c].seq_no = 0 /\ symm_vec[c] = NoBits /\ seq_nos[c] = 0
    BY <1>1
  <2> QED
    BY <2>1 DEF Shows
<1> QED
  BY <1>1, <1>2, <1>3, <1>4 DEF CopyInv, Copies

\* Set and Clear change no row and no copy, and only add increments to those
\* on their way.
LEMMA UpdateKeepsCopies ==
  ASSUME IInv, CopyInv, NEW p \in Producers, NEW c \in Rows, NEW op \in {"or", "and"},
         Update(p, c, op)
  PROVE  CopyInv'
<1> DEFINE t == flight[p] \o Issue(op, c)
<1>1. /\ UNCHANGED <<symm_vec, seq_nos, copy, left>>
      /\ flight' = [flight EXCEPT ![p] = t]
  BY DEF Update
<1>2. flight[p] \in Seq(Atomics) /\ Announced(flight[p])
  BY DEF IInv, CopyInv
<1>3. /\ Announced(t)
      /\ \A d : IncPending(flight[p], d) => IncPending(t, d)
  BY <1>2, IssuingAnnounced
<1> HIDE DEF t
<1>4. flight'[p] = t /\ \A q \in Producers : q # p => flight'[q] = flight[q]
  BY <1>1 DEF IInv
<1>5. \A q \in Producers : Announced(flight'[q])
  BY <1>3, <1>4 DEF CopyInv
<1>6. ASSUME NEW r \in Readers, NEW d \in Rows PROVE Shows(r, d)'
  <2>1. Shows(r, d)
    BY DEF CopyInv
  <2>2. \A q \in Producers : ~IncPending(flight'[q], d) => ~IncPending(flight[q], d)
    BY <1>3, <1>4
  <2> QED
    BY <1>1, <2>1, <2>2 DEF Shows
<1> QED
  BY <1>1, <1>5, <1>6 DEF CopyInv

\* An atomic lands.  A change leaves its own increment on its way, so that no
\* copy need show it yet; an increment moves the row's sequence number past
\* that of every copy.
LEMMA LandKeepsCopies ==
  ASSUME NoSharedBit, IInv, CopyInv, NEW p \in Producers, NEW i \in DOMAIN flight[p],
         Land(p, i)
  PROVE  CopyInv'
<1> DEFINE s == flight[p]
           f == s[i]
           u == RemoveAt(s, i)
           t == PastFences(u)
<1>1. s \in Seq(Atomics) /\ Fenced(s) /\ Announced(s) /\ i \in DOMAIN s
  BY DEF IInv, CopyInv
<1>2. \A j \in 1 .. i : s[j] # Fence
  BY DEF Land
<1>3. f \in [op : {"or", "and", "inc"}, row : Rows]
  <2>1. i \in 1 .. i /\ f \in Atomics
    BY <1>1
  <2> QED
    BY <1>2, <2>1 DEF Atomics
<1>4. /\ Announced(u)
      /\ \A c : IncPending(s, c) /\ ~(f.op = "inc" /\ f.row = c) => IncPending(u, c)
      /\ \A c \in Rows : OnRow(f, c) => IncPending(u, c)
  BY <1>1, <1>2, RemovingAnnounced
<1>5. u \in Seq(Atomics)
  BY <1>1, Removed
<1>6. /\ symm_vec' = [symm_vec EXCEPT ![f.row] = Applied(p, f.op, @)]
      /\ seq_nos' = [seq_nos EXCEPT ![f.row] = IF f.op = "inc" THEN @ + 1 ELSE @]
      /\ flight' = [flight EXCEPT ![p] = t]
      /\ UNCHANGED <<copy, left>>
  BY DEF Land
<1> HIDE DEF s, f, u
<1>7. /\ Announced(t)
      /\ \A c : IncPending(u, c) => IncPending(t, c)
  BY <1>4, <1>5, PassingAnnounced
<1> HIDE DEF t
<1>8. flight'[p] = t /\ \A q \in Producers : q # p => flight'[q] = flight[q]
  BY <1>6 DEF IInv
<1>9. /\ f.op = "inc" => Applied(p, f.op, symm_vec[f.row]) = symm_vec[f.row]
      /\ \A q \in Producers : q # p =>
           (contains(q, Applied(p, f.op, symm_vec[f.row])) <=> contains(q, symm_vec[f.row]))
  <2>1. f.op \in {"or", "and", "inc"} /\ symm_vec[f.row] \in [Words -> SUBSET Bits]
    BY <1>3 DEF IInv
  <2> QED
    BY <2>1, AppliedBits
<1>10. /\ symm_vec'[f.row] = Applied(p, f.op, symm_vec[f.row])
       /\ \A c \in Rows : c # f.row => symm_vec'[c] = symm_vec[c]
  BY <1>3, <1>6 DEF IInv
<1>11. /\ seq_nos' \in [Rows -> Nat]
       /\ \A c \in Rows : seq_nos'[c] = IF f.op = "inc" /\ c = f.row THEN seq_nos[c] + 1 ELSE seq_nos[c]
  BY <1>3, <1>6 DEF CopyInv
<1>12. \A q \in Producers : Announced(flight'[q])
  BY <1>7, <1>8 DEF CopyInv
<1>13. ASSUME NEW r \in Readers, NEW c \in Rows PROVE Shows(r, c)'
  <2>1. Shows(r, c) /\ copy[r][c].seq_no \in Nat /\ seq_nos[c] \in Nat
    BY DEF CopyInv, Copies
  <2>2. copy'[r][c].seq_no <= seq_nos'[c]
    BY <1>6, <1>11, <2>1 DEF Shows
  <2>3. ASSUME NEW q \in Producers, copy'[r][c].seq_no = seq_nos'[c],
               coord1_word(q) \notin left'[r][c], ~IncPending(flight'[q], c)
        PROVE  contains(q, copy'[r][c].subvec) <=> contains(q, symm_vec'[c])
    <3>1. ~(f.op = "inc" /\ c = f.row) /\ seq_nos'[c] = seq_nos[c]
      BY <1>6, <1>11, <2>1, <2>3 DEF Shows
    <3>2. ~IncPending(flight[q], c)
      <4>1. CASE q # p
        BY <1>8, <2>3, <4>1
      <4>2. CASE q = p
        BY <1>4, <1>7, <1>8, <2>3, <3>1, <4>2 DEF s
      <4> QED
        BY <4>1, <4>2
    <3>3. contains(q, copy[r][c].subvec) <=> contains(q, symm_vec[c])
      BY <1>6, <2>1, <2>3, <3>1, <3>2 DEF Shows
    <3>4. contains(q, symm_vec'[c]) <=> contains(q, symm_vec[c])
      <4>1. CASE c # f.row
        BY <1>10, <4>1
      <4>2. CASE c = f.row /\ q # p
        BY <1>9, <1>10, <4>2
      <4>3. CASE c = f.row /\ q = p
        <5>1. OnRow(f, c)
          BY <1>3, <3>1, <4>3 DEF OnRow
        <5>2. IncPending(flight'[p], c)
          BY <1>4, <1>7, <1>8, <5>1
        <5> QED
          BY <2>3, <4>3, <5>2
      <4> QED
        BY <4>1, <4>2, <4>3
    <3> QED
      BY <1>6, <3>3, <3>4
  <2> QED
    BY <2>2, <2>3 DEF Shows
<1> QED
  BY <1>6, <1>11, <1>12, <1>13 DEF CopyInv

\* A copy begins: it takes the row's sequence number and has every word left.
LEMMA StartKeepsCopies ==
  ASSUME CopyInv, NEW r \in Readers, NEW c \in Rows, CopyStart(r, c)
  PROVE  CopyInv'
<1>1. /\ copy' = [copy EXCEPT ![r][c].seq_no = seq_nos[c]]
      /\ left' = [left EXCEPT ![r][c] = Words]
      /\ UNCHANGED <<symm_vec, seq_nos, flight>>
  BY DEF CopyStart
<1>2. /\ copy' \in [Readers -> [Rows -> Copies]]
      /\ left' \in [Readers -> [Rows -> SUBSET Words]]
  <2> DEFINE new == [copy[r][c] EXCEPT !.seq_no = seq_nos[c]]
  <2>1. copy \in [Readers -> [Rows -> Copies]] /\ copy[r][c] \in Copies
    BY DEF CopyInv
  <2>2. new \in Copies
    BY <2>1 DEF Copies, CopyInv
  <2>3. copy' = [copy EXCEPT ![r] = [copy[r] EXCEPT ![c] = new]]
    BY <1>1
  <2> HIDE DEF new
  <2>4. copy' \in [Readers -> [Rows -> Copies]]
    BY <2>1, <2>2, <2>3
  <2>5. left' \in [Readers -> [Rows -> SUBSET Words]]
    BY <1>1 DEF CopyInv
  <2> QED
    BY <2>4, <2>5
<1>3. copy'[r][c].seq_no = seq_nos[c] /\ left'[r][c] = Words
  <2>1. copy[r][c] \in Copies
    BY DEF CopyInv
  <2>2. copy'[r][c] = [copy[r][c] EXCEPT !.seq_no = seq_nos[c]]
    BY <1>1 DEF CopyInv
  <2> QED
    BY <1>1, <2>1, <2>2 DEF CopyInv
<1>4. \A x \in Readers, d \in Rows : ~(x = r /\ d = c) =>
        copy'[x][d] = copy[x][d] /\ left'[x][d] = left[x][d]
  BY <1>1 DEF CopyInv
<1>5. ASSUME NEW x \in Readers, NEW d \in Rows PROVE Shows(x, d)'
  <2>1. Shows(x, d)
    BY DEF CopyInv
  <2>2. CASE x = r /\ d = c
    <3>1. \A p \in Producers : coord1_word(p) \in Words
      BY OwnWord
    <3>2. seq_nos[c] \in Nat
      BY DEF CopyInv
    <3> QED
      BY <1>1, <1>3, <2>2, <3>1, <3>2 DEF Shows
  <2>3. CASE ~(x = r /\ d = c)
    BY <1>1, <1>4, <2>1, <2>3 DEF Shows
  <2> QED
    BY <2>2, <2>3
<1> QED
  BY <1>1, <1>2, <1>5 DEF CopyInv

\* A word is read: it shows its producers as the row does.
LEMMA WordKeepsCopies ==
  ASSUME IInv, CopyInv, NEW r \in Readers, NEW c \in Rows, NEW w \in Words, CopyWord(r, c, w)
  PROVE  CopyInv'
<1>1. /\ copy' = [copy EXCEPT ![r][c].subvec[w] = symm_vec[c][w]]
      /\ left' = [left EXCEPT ![r][c] = @ \ {w}]
      /\ UNCHANGED <<symm_vec, seq_nos, flight>>
  BY DEF CopyWord
<1>2. symm_vec[c][w] \in SUBSET Bits
  BY DEF IInv
<1>3. /\ copy' \in [Readers -> [Rows -> Copies]]
      /\ left' \in [Readers -> [Rows -> SUBSET Words]]
  <2> DEFINE new == [copy[r][c] EXCEPT !.subvec[w] = symm_vec[c][w]]
  <2>1. copy \in [Readers -> [Rows -> Copies]] /\ copy[r][c] \in Copies
    BY DEF CopyInv
  <2>2. new \in Copies
    BY <1>2, <2>1 DEF Copies, CopyInv
  <2>3. copy' = [copy EXCEPT ![r] = [copy[r] EXCEPT ![c] = new]]
    BY <1>1
  <2> HIDE DEF new
  <2>4. copy' \in [Readers -> [Rows -> Copies]]
    BY <2>1, <2>2, <2>3
  <2>5. left' \in [Readers -> [Rows -> SUBSET Words]]
    BY <1>1 DEF CopyInv
  <2> QED
    BY <2>4, <2>5
<1>4. /\ copy'[r][c].seq_no = copy[r][c].seq_no
      /\ \A v \in Words : copy'[r][c].subvec[v] = IF v = w THEN symm_vec[c][w] ELSE copy[r][c].subvec[v]
      /\ left'[r][c] = left[r][c] \ {w}
  <2>1. copy[r][c] \in Copies
    BY DEF CopyInv
  <2>2. copy'[r][c] = [copy[r][c] EXCEPT !.subvec[w] = symm_vec[c][w]]
    BY <1>1 DEF CopyInv
  <2> QED
    BY <1>1, <2>1, <2>2 DEF CopyInv, Copies
<1>5. \A x \in Readers, d \in Rows : ~(x = r /\ d = c) =>
        copy'[x][d] = copy[x][d] /\ left'[x][d] = left[x][d]
  BY <1>1 DEF CopyInv
<1>6. ASSUME NEW x \in Readers, NEW d \in Rows PROVE Shows(x, d)'
  <2>1. Shows(x, d)
    BY DEF CopyInv
  <2>2. CASE x = r /\ d = c
    <3>1. ASSUME NEW p \in Producers, coord1_word(p) = w
          PROVE  contains(p, copy'[r][c].subvec) <=> contains(p, symm_vec[c])
      BY <1>4, <3>1 DEF contains
    <3>2. ASSUME NEW p \in Producers, coord1_word(p) # w
          PROVE  /\ contains(p, copy'[r][c].subvec) <=> contains(p, copy[r][c].subvec)
                 /\ coord1_word(p) \notin left'[r][c] => coord1_word(p) \notin left[r][c]
      BY <1>4, <3>2, OwnWord DEF contains
    <3> QED
      BY <1>1, <1>4, <2>1, <2>2, <3>1, <3>2 DEF Shows
  <2>3. CASE ~(x = r /\ d = c)
    BY <1>1, <1>5, <2>1, <2>3 DEF Shows
  <2> QED
    BY <2>2, <2>3
<1> QED
  BY <1>1, <1>3, <1>6 DEF CopyInv

\* Every step keeps what the copies show.
LEMMA NextKeepsCopies == NoSharedBit /\ IInv /\ CopyInv /\ [Next]_vars => CopyInv'
<1> SUFFICES ASSUME NoSharedBit, IInv, CopyInv, [Next]_vars PROVE CopyInv'
  OBVIOUS
<1>1. ASSUME NEW p \in Producers, NEW c \in Rows, Set(p, c) PROVE CopyInv'
  BY <1>1, UpdateKeepsCopies DEF Set
<1>2. ASSUME NEW p \in Producers, NEW c \in Rows, Clear(p, c) PROVE CopyInv'
  BY <1>2, UpdateKeepsCopies DEF Clear
<1>3. ASSUME NEW p \in Producers, NEW i \in DOMAIN flight[p], Land(p, i) PROVE CopyInv'
  BY <1>3, LandKeepsCopies
<1>4. ASSUME NEW r \in Readers, NEW c \in Rows, CopyStart(r, c) PROVE CopyInv'
  BY <1>4, StartKeepsCopies
<1>5. ASSUME NEW r \in Readers, NEW c \in Rows, NEW w \in Words, CopyWord(r, c, w)
      PROVE  CopyInv'
  BY <1>5, WordKeepsCopies
<1>6. CASE UNCHANGED vars
  BY <1>6 DEF vars, CopyInv, Shows
<1> QED
  BY <1>1, <1>2, <1>3, <1>4, <1>5, <1>6 DEF Next

\* A reader that compares sequence numbers and skips the copy
\* (handle_existing_subscription) has, if no producers share a bit, missed no
\* change that has landed, however its earlier copy was interleaved with the
\* atomics of hvr_dist_bitvec_set and _clear.
THEOREM CopyMissesNothing ==
  ASSUME NoSharedBit
  PROVE  Spec => []NoMissedChange
<1>1. IInv /\ CopyInv => NoMissedChange
  <2> SUFFICES ASSUME IInv, CopyInv, NEW r \in Readers, NEW c \in Rows,
                      left[r][c] = {}, ~Outdated(r, c),
                      NEW p \in Producers, Settled(p, c)
               PROVE  contains(p, copy[r][c].subvec) <=> c \in member[p]
    BY DEF NoMissedChange
  <2>1. Shows(r, c) /\ copy[r][c].seq_no \in Nat /\ seq_nos[c] \in Nat
    BY DEF CopyInv, Copies
  <2>2. copy[r][c].seq_no = seq_nos[c]
    BY <2>1 DEF Shows, Outdated
  <2>3. ~IncPending(flight[p], c)
    BY DEF IncPending, Settled, Fence
  <2>4. contains(p, copy[r][c].subvec) <=> contains(p, symm_vec[c])
    BY <2>1, <2>2, <2>3 DEF Shows
  <2>5. ~Pending(flight[p], c)
    BY DEF Pending, Settled, OnRow, Fence
  <2> QED
    BY <2>4, <2>5 DEF IInv, Agrees
<1>2. IInv /\ [Next]_vars => IInv'
  BY NextKeeps
<1>3. IInv /\ CopyInv /\ [Next]_vars => CopyInv'
  BY NextKeepsCopies
<1> QED
  BY <1>1, <1>2, <1>3, InitEstablishes, InitEstablishesCopies, PTL DEF Spec
=============================================================================
