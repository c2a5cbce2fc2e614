---------------------------- MODULE HvrSetProofs ----------------------------
(***************************************************************************)
(* The vector of words of a set and its cached count stand for the set of  *)
(* values they are meant to be, for every width of a word, every number of *)
(* values and every set: each operation keeps the vector, the values       *)
(* within the range and the count together.  Bits of the last word that    *)
(* are past the range may hold anything, as hvr_set_fill leaves them.      *)
(***************************************************************************)
EXTENDS HvrSet, FiniteSetTheorems, TLAPS

\* The words of a set of n values.
Words(n) == 0 .. (n + BitsPerElement - 1) \div BitsPerElement - 1

\* set is a set of up to n values, and its values are those of S.
Holds(set, n, S) ==
  /\ set \in [n_contained : Nat, max_n_contained : {n}, bit_vector : [Words(n) -> SUBSET AllBits]]
  /\ S \subseteq 0 .. n - 1
  /\ \A v \in 0 .. n - 1 : hvr_set_contains(v, set) <=> v \in S
  /\ set.n_contained = Cardinality(S)

\* What a division leaves.
LEMMA Division ==
  ASSUME NEW a \in Nat, NEW w \in Nat \ {0}
  PROVE  /\ a \div w \in Nat /\ a % w \in 0 .. w - 1
         /\ a = w * (a \div w) + (a % w)
OBVIOUS

\* A smaller multiple is a multiple by less.
LEMMA LessMultiple ==
  ASSUME NEW a \in Int, NEW b \in Int, NEW w \in Nat \ {0}, w * a < w * b
  PROVE  a < b
OBVIOUS

\* Every value of the range has a bit in a word of the vector.
LEMMA WordOfValue ==
  ASSUME NEW n \in Nat, NEW v \in 0 .. n - 1
  PROVE  ElementOf(v) \in Words(n) /\ BitOf(v) \in AllBits
<1> DEFINE w == BitsPerElement
           q == v \div w
           d == (n + w - 1) \div w
           r == (n + w - 1) % w
<1>1. w \in Nat \ {0}
  BY WordAssumption
<1>2. v \in Nat /\ q \in Nat /\ v % w \in 0 .. w - 1 /\ v = w * q + (v % w)
  <2>1. v \in Nat
    OBVIOUS
  <2> QED BY <1>1, <2>1, Division
<1>3. n + w - 1 \in Nat
  BY <1>1
<1>4. d \in Nat /\ r \in 0 .. w - 1 /\ n + w - 1 = w * d + r
  BY <1>1, <1>3, Division
<1>5. q < d
  <2> HIDE DEF q, d, r
  <2>1. w * q \in Int /\ w * d \in Int
    BY <1>1, <1>2, <1>4
  <2>2. w * q < w * d
    <3> DEFINE x == w * q
               y == w * d
    <3> HIDE DEF x, y
    <3>1. x \in Int /\ y \in Int /\ v = x + (v % w) /\ n + w - 1 = y + r
      BY <2>1, <1>2, <1>4 DEF x, y
    <3>2. x < y
      BY <3>1, <1>1, <1>2, <1>4
    <3> QED BY <3>2 DEF x, y
  <2> QED BY <1>1, <1>2, <1>4, <2>2, LessMultiple
<1>6. q \in 0 .. d - 1
  BY <1>2, <1>4, <1>5
<1> QED BY <1>2, <1>6 DEF ElementOf, BitOf, Words, AllBits

\* Two values are one when their words and bits are.
LEMMA PlaceOfValue ==
  ASSUME NEW u \in Nat, NEW v \in Nat, ElementOf(u) = ElementOf(v), BitOf(u) = BitOf(v)
  PROVE  u = v
<1> DEFINE w == BitsPerElement
<1>1. w \in Nat \ {0}
  BY WordAssumption
<1>2. u = w * (u \div w) + (u % w) /\ v = w * (v \div w) + (v % w)
  BY <1>1, Division
<1> QED BY <1>2 DEF ElementOf, BitOf

\* A set of values of a range is finite, and its size a number.
LEMMA RangeIsFinite ==
  ASSUME NEW n \in Nat, NEW S \in SUBSET (0 .. n - 1)
  PROVE  IsFiniteSet(S) /\ Cardinality(S) \in Nat
<1>1. IsFiniteSet(0 .. n - 1)
  BY FS_Interval
<1>2. IsFiniteSet(S)
  BY <1>1, FS_Subset
<1> QED BY <1>2, FS_CardinalityType

\* The fields of a set that holds S, and that S is finite.
LEMMA HeldSet ==
  ASSUME NEW n \in Nat, NEW set, NEW S, Holds(set, n, S)
  PROVE  /\ set.n_contained \in Nat /\ set.max_n_contained = n
         /\ set.bit_vector \in [Words(n) -> SUBSET AllBits]
         /\ set = [n_contained |-> set.n_contained, max_n_contained |-> n,
                    bit_vector |-> set.bit_vector]
         /\ IsFiniteSet(S) /\ Cardinality(S) \in Nat
BY RangeIsFinite DEF Holds

\* A set with a new vector and a new count, in either order.
Replaced(set, words, count) == [set EXCEPT !.bit_vector = words, !.n_contained = count]
Received(set, words, count) == [set EXCEPT !.n_contained = count, !.bit_vector = words]

\* What is replaced of a set leaves its range.
LEMMA ReplacedParts ==
  ASSUME NEW n \in Nat, NEW set, NEW S, Holds(set, n, S), NEW words, NEW count
  PROVE  Replaced(set, words, count)
           = [n_contained |-> count, max_n_contained |-> n, bit_vector |-> words]
<1> DEFINE vec == [set EXCEPT !.bit_vector = words]
<1>1. vec = [n_contained |-> set.n_contained, max_n_contained |-> n, bit_vector |-> words]
  BY HeldSet
<1>2. Replaced(set, words, count) = [vec EXCEPT !.n_contained = count]
  BY Zenon DEF Replaced
<1> HIDE DEF vec
<1> QED BY <1>1, <1>2

\* The same of what a message replaces.
LEMMA ReceivedParts ==
  ASSUME NEW n \in Nat, NEW set, NEW S, Holds(set, n, S), NEW words, NEW count
  PROVE  Received(set, words, count)
           = [n_contained |-> count, max_n_contained |-> n, bit_vector |-> words]
<1> DEFINE cnt == [set EXCEPT !.n_contained = count]
<1>1. cnt = [n_contained |-> count, max_n_contained |-> n, bit_vector |-> set.bit_vector]
  BY HeldSet
<1>2. Received(set, words, count) = [cnt EXCEPT !.bit_vector = words]
  BY Zenon DEF Received
<1> HIDE DEF cnt
<1> QED BY <1>1, <1>2

\* A new set is empty (hvr_create_empty_set).
THEOREM EmptyHoldsNothing ==
  ASSUME NEW n \in Nat
  PROVE  Holds(hvr_create_empty_set(n), n, {})
<1>1. \A v \in 0 .. n - 1 : ElementOf(v) \in Words(n)
  BY WordOfValue
<1> QED BY <1>1, FS_EmptySet DEF Holds, hvr_create_empty_set, hvr_set_contains, Words

\* An insert adds its value and no other, and the count grows when the value is
\* new: a word's bit is of one value only (hvr_set_insert).
THEOREM InsertIsExact ==
  ASSUME NEW n \in Nat, NEW set, NEW S, Holds(set, n, S), NEW val \in 0 .. n - 1
  PROVE  Holds(hvr_set_insert(val, set), n, S \cup {val})
<1> DEFINE new == hvr_set_insert(val, set)
<1>1. ElementOf(val) \in Words(n) /\ BitOf(val) \in AllBits
  BY WordOfValue
<1>2. /\ new.max_n_contained = n
      /\ new.n_contained = set.n_contained + IF hvr_set_contains(val, set) THEN 0 ELSE 1
      /\ new.bit_vector = [set.bit_vector EXCEPT ![ElementOf(val)] = @ \cup {BitOf(val)}]
      /\ new = [n_contained |-> new.n_contained, max_n_contained |-> n,
                 bit_vector |-> new.bit_vector]
  <2> DEFINE count == set.n_contained + IF hvr_set_contains(val, set) THEN 0 ELSE 1
             words == [set.bit_vector EXCEPT ![ElementOf(val)] = @ \cup {BitOf(val)}]
  <2>1. new = Replaced(set, words, count)
    BY Zenon DEF hvr_set_insert, Replaced
  <2> HIDE DEF new, words, count
  <2>2. new = [n_contained |-> count, max_n_contained |-> n, bit_vector |-> words]
    BY <2>1, ReplacedParts
  <2> QED BY <2>2 DEF words, count
<1>3. ASSUME NEW v \in 0 .. n - 1
      PROVE  hvr_set_contains(v, new) <=> v \in S \cup {val}
  <2>1. ElementOf(v) \in Words(n) /\ BitOf(v) \in AllBits
    BY WordOfValue
  <2>2. hvr_set_contains(v, set) <=> v \in S
    BY DEF Holds
  <2>3. CASE ElementOf(v) = ElementOf(val)
    <3>1. new.bit_vector[ElementOf(v)] = set.bit_vector[ElementOf(v)] \cup {BitOf(val)}
      BY <1>2, <2>1, <2>3, HeldSet
    <3>2. BitOf(v) = BitOf(val) => v = val
      BY <2>3, PlaceOfValue
    <3> QED BY <3>1, <3>2, <2>2 DEF hvr_set_contains
  <2>4. CASE ElementOf(v) # ElementOf(val)
    <3>1. new.bit_vector[ElementOf(v)] = set.bit_vector[ElementOf(v)]
      BY <1>2, <2>1, <2>4, HeldSet
    <3> QED BY <3>1, <2>2, <2>4 DEF hvr_set_contains
  <2> QED BY <2>3, <2>4
<1>4. new.n_contained = Cardinality(S \cup {val})
  <2>1. hvr_set_contains(val, set) <=> val \in S
    BY DEF Holds
  <2>2. set.n_contained = Cardinality(S)
    BY DEF Holds
  <2> QED BY <1>2, <2>1, <2>2, HeldSet, FS_AddElement
<1>5. new.n_contained \in Nat /\ new.bit_vector \in [Words(n) -> SUBSET AllBits]
  BY <1>1, <1>2, HeldSet
<1>6. S \cup {val} \subseteq 0 .. n - 1
  BY DEF Holds
<1> HIDE DEF new
<1>7. Holds(new, n, S \cup {val})
  BY <1>2, <1>3, <1>4, <1>5, <1>6 DEF Holds
<1> QED BY <1>7 DEF new

\* A clear takes its value away and no other, and the count shrinks when the
\* value was there (hvr_set_clear).
THEOREM ClearIsExact ==
  ASSUME NEW n \in Nat, NEW set, NEW S, Holds(set, n, S), NEW val \in 0 .. n - 1
  PROVE  Holds(hvr_set_clear(val, set), n, S \ {val})
<1> DEFINE new == hvr_set_clear(val, set)
<1>1. ElementOf(val) \in Words(n) /\ BitOf(val) \in AllBits
  BY WordOfValue
<1>2. /\ new.max_n_contained = n
      /\ new.n_contained = set.n_contained - IF hvr_set_contains(val, set) THEN 1 ELSE 0
      /\ new.bit_vector = [set.bit_vector EXCEPT ![ElementOf(val)] = @ \ {BitOf(val)}]
      /\ new = [n_contained |-> new.n_contained, max_n_contained |-> n,
                 bit_vector |-> new.bit_vector]
  <2> DEFINE count == set.n_contained - IF hvr_set_contains(val, set) THEN 1 ELSE 0
             words == [set.bit_vector EXCEPT ![ElementOf(val)] = @ \ {BitOf(val)}]
  <2>1. new = Replaced(set, words, count)
    BY Zenon DEF hvr_set_clear, Replaced
  <2> HIDE DEF new, words, count
  <2>2. new = [n_contained |-> count, max_n_contained |-> n, bit_vector |-> words]
    BY <2>1, ReplacedParts
  <2> QED BY <2>2 DEF words, count
<1>3. ASSUME NEW v \in 0 .. n - 1
      PROVE  hvr_set_contains(v, new) <=> v \in S \ {val}
  <2>1. ElementOf(v) \in Words(n) /\ BitOf(v) \in AllBits
    BY WordOfValue
  <2>2. hvr_set_contains(v, set) <=> v \in S
    BY DEF Holds
  <2>3. CASE ElementOf(v) = ElementOf(val)
    <3>1. new.bit_vector[ElementOf(v)] = set.bit_vector[ElementOf(v)] \ {BitOf(val)}
      BY <1>2, <2>1, <2>3, HeldSet
    <3>2. BitOf(v) = BitOf(val) <=> v = val
      BY <2>3, PlaceOfValue
    <3> QED BY <3>1, <3>2, <2>2 DEF hvr_set_contains
  <2>4. CASE ElementOf(v) # ElementOf(val)
    <3>1. new.bit_vector[ElementOf(v)] = set.bit_vector[ElementOf(v)]
      BY <1>2, <2>1, <2>4, HeldSet
    <3> QED BY <3>1, <2>2, <2>4 DEF hvr_set_contains
  <2> QED BY <2>3, <2>4
<1>4. new.n_contained = Cardinality(S \ {val}) /\ new.n_contained \in Nat
  <2>1. hvr_set_contains(val, set) <=> val \in S
    BY DEF Holds
  <2>2. set.n_contained = Cardinality(S)
    BY DEF Holds
  <2>3. IsFiniteSet(S \ {val}) /\ Cardinality(S \ {val}) \in Nat
    BY HeldSet, FS_RemoveElement, FS_CardinalityType
  <2>4. Cardinality(S \ {val}) = IF val \in S THEN Cardinality(S) - 1 ELSE Cardinality(S)
    BY HeldSet, FS_RemoveElement
  <2> QED BY <1>2, <2>1, <2>2, <2>3, <2>4, HeldSet
<1>5. new.bit_vector \in [Words(n) -> SUBSET AllBits]
  BY <1>1, <1>2, HeldSet
<1>6. S \ {val} \subseteq 0 .. n - 1
  BY DEF Holds
<1> HIDE DEF new
<1>7. Holds(new, n, S \ {val})
  BY <1>2, <1>3, <1>4, <1>5, <1>6 DEF Holds
<1> QED BY <1>7 DEF new

\* A filled set has every value of the range and counts the range, although the
\* last word has bits past it (hvr_set_fill).
THEOREM FillIsExact ==
  ASSUME NEW n \in Nat, NEW set, NEW S, Holds(set, n, S)
  PROVE  Holds(hvr_set_fill(set), n, 0 .. n - 1)
<1>1. \A v \in 0 .. n - 1 : ElementOf(v) \in Words(n) /\ BitOf(v) \in AllBits
  BY WordOfValue
<1>2. Cardinality(0 .. n - 1) = n
  <2>1. Cardinality(0 .. n - 1) = IF 0 > n - 1 THEN 0 ELSE n - 1 - 0 + 1
    BY FS_Interval
  <2> QED BY <2>1
<1>3. DOMAIN set.bit_vector = Words(n)
  BY HeldSet
<1>4. hvr_set_fill(set) = [n_contained |-> n, max_n_contained |-> n,
                           bit_vector |-> [e \in Words(n) |-> AllBits]]
  <2> DEFINE words == [e \in Words(n) |-> AllBits]
  <2>1. hvr_set_fill(set) = Replaced(set, words, set.max_n_contained)
    BY <1>3, Zenon DEF hvr_set_fill, Replaced
  <2> HIDE DEF words
  <2>2. set.max_n_contained = n
    BY HeldSet
  <2>3. hvr_set_fill(set) = [n_contained |-> n, max_n_contained |-> n, bit_vector |-> words]
    BY <2>1, <2>2, ReplacedParts
  <2> QED BY <2>3 DEF words
<1> QED BY <1>1, <1>2, <1>4 DEF Holds, hvr_set_contains

\* A wiped set is empty (hvr_set_wipe).
THEOREM WipeIsExact ==
  ASSUME NEW n \in Nat, NEW set, NEW S, Holds(set, n, S)
  PROVE  Holds(hvr_set_wipe(set), n, {})
<1>1. \A v \in 0 .. n - 1 : ElementOf(v) \in Words(n)
  BY WordOfValue
<1>2. DOMAIN set.bit_vector = Words(n)
  BY HeldSet
<1>3. hvr_set_wipe(set) = [n_contained |-> 0, max_n_contained |-> n,
                           bit_vector |-> [e \in Words(n) |-> {}]]
  <2> DEFINE words == [e \in Words(n) |-> {}]
  <2>1. hvr_set_wipe(set) = Replaced(set, words, 0)
    BY <1>2, Zenon DEF hvr_set_wipe, Replaced
  <2> HIDE DEF words
  <2>2. hvr_set_wipe(set) = [n_contained |-> 0, max_n_contained |-> n, bit_vector |-> words]
    BY <2>1, ReplacedParts
  <2> QED BY <2>2 DEF words
<1> QED BY <1>1, <1>3, FS_EmptySet DEF Holds, hvr_set_contains

\* Words put together and counted again hold the values that they have bits of.
LEMMA RecountIsExact ==
  ASSUME NEW n \in Nat, NEW set, NEW S, Holds(set, n, S),
         NEW words \in [Words(n) -> SUBSET AllBits], NEW T \in SUBSET (0 .. n - 1),
         \A v \in 0 .. n - 1 : BitOf(v) \in words[ElementOf(v)] <=> v \in T
  PROVE  Holds(Recount([set EXCEPT !.bit_vector = words]), n, T)
<1> DEFINE mid == [set EXCEPT !.bit_vector = words]
           new == Recount(mid)
<1>1. mid = [n_contained |-> set.n_contained, max_n_contained |-> n, bit_vector |-> words]
  BY HeldSet
<1>2. \A v \in 0 .. n - 1 : hvr_set_contains(v, mid) <=> v \in T
  BY <1>1 DEF hvr_set_contains
<1>3. {v \in 0 .. mid.max_n_contained - 1 : hvr_set_contains(v, mid)} = T
  BY <1>1, <1>2
<1>4. new = [n_contained |-> Cardinality(T), max_n_contained |-> n, bit_vector |-> words]
  <2>1. new = [mid EXCEPT !.n_contained = Cardinality(T)]
    BY <1>3, Zenon DEF Recount
  <2> HIDE DEF new, mid
  <2> QED BY <1>1, <2>1
<1>5. Cardinality(T) \in Nat
  BY RangeIsFinite
<1> HIDE DEF mid, new
<1>6. \A v \in 0 .. n - 1 : hvr_set_contains(v, new) <=> v \in T
  BY <1>4 DEF hvr_set_contains
<1>7. Holds(new, n, T)
  BY <1>4, <1>5, <1>6 DEF Holds
<1> QED BY <1>7 DEF mid, new

\* A merge is the union (hvr_set_merge, hvr_set_or).
THEOREM MergeIsExact ==
  ASSUME NEW n \in Nat, NEW set, NEW S, Holds(set, n, S), NEW other, NEW T, Holds(other, n, T)
  PROVE  Holds(hvr_set_merge(set, other), n, S \cup T)
<1> DEFINE words == [e \in Words(n) |-> set.bit_vector[e] \cup other.bit_vector[e]]
<1>1. words \in [Words(n) -> SUBSET AllBits]
  BY HeldSet
<1>2. \A v \in 0 .. n - 1 : ElementOf(v) \in Words(n)
  BY WordOfValue
<1>3. \A v \in 0 .. n - 1 : BitOf(v) \in words[ElementOf(v)] <=> v \in S \cup T
  BY <1>2 DEF Holds, hvr_set_contains
<1>4. S \cup T \in SUBSET (0 .. n - 1)
  BY DEF Holds
<1>5. hvr_set_merge(set, other) = Recount([set EXCEPT !.bit_vector = words])
  BY HeldSet DEF hvr_set_merge
<1> HIDE DEF words
<1> QED BY <1>1, <1>3, <1>4, <1>5, RecountIsExact

\* A conjunction is the intersection, also into one of its sources (hvr_set_and).
THEOREM AndIsExact ==
  ASSUME NEW n \in Nat, NEW dst, NEW R, Holds(dst, n, R),
         NEW src1, NEW S, Holds(src1, n, S), NEW src2, NEW T, Holds(src2, n, T)
  PROVE  Holds(hvr_set_and(dst, src1, src2), n, S \cap T)
<1> DEFINE words == [e \in Words(n) |-> src1.bit_vector[e] \cap src2.bit_vector[e]]
<1>1. words \in [Words(n) -> SUBSET AllBits]
  BY HeldSet
<1>2. \A v \in 0 .. n - 1 : ElementOf(v) \in Words(n)
  BY WordOfValue
<1>3. \A v \in 0 .. n - 1 : BitOf(v) \in words[ElementOf(v)] <=> v \in S \cap T
  BY <1>2 DEF Holds, hvr_set_contains
<1>4. S \cap T \in SUBSET (0 .. n - 1)
  BY DEF Holds
<1>5. hvr_set_and(dst, src1, src2) = Recount([dst EXCEPT !.bit_vector = words])
  BY HeldSet DEF hvr_set_and
<1> HIDE DEF words
<1> QED BY <1>1, <1>3, <1>4, <1>5, RecountIsExact

\* A copy holds what its source holds, and so does the set a message is copied
\* to, whatever either held before (hvr_set_copy, hvr_set_msg_send,
\* hvr_set_msg_copy).
THEOREM CopyIsExact ==
  ASSUME NEW n \in Nat, NEW dst, NEW S, Holds(dst, n, S), NEW src, NEW T, Holds(src, n, T)
  PROVE  /\ Holds(hvr_set_copy(dst, src), n, T)
         /\ Holds(hvr_set_msg_copy(dst, hvr_set_msg_send(src)), n, T)
<1> DEFINE words == src.bit_vector
           count == src.n_contained
<1>1. src = [n_contained |-> count, max_n_contained |-> n, bit_vector |-> words]
  BY HeldSet
<1>2. hvr_set_copy(dst, src) = Replaced(dst, words, count)
  BY Zenon DEF hvr_set_copy, Replaced
<1>3. hvr_set_msg_copy(dst, hvr_set_msg_send(src))
        = Received(dst, words, count)
  <2> DEFINE msg == hvr_set_msg_send(src)
  <2>1. msg.n_contained = count /\ msg.bits = words
    BY DEF hvr_set_msg_send
  <2> HIDE DEF msg, words, count
  <2>2. hvr_set_msg_copy(dst, msg) = Received(dst, words, count)
    BY <2>1, Zenon DEF hvr_set_msg_copy, Received
  <2> QED BY <2>2 DEF msg
<1> HIDE DEF words, count
<1>4. hvr_set_copy(dst, src) = src
  BY <1>1, <1>2, ReplacedParts
<1>5. hvr_set_msg_copy(dst, hvr_set_msg_send(src)) = src
  BY <1>1, <1>3, ReceivedParts
<1> QED BY <1>4, <1>5

\* Two sets are found equal when they hold the same, whatever their last words
\* have past the range (hvr_set_equal).
THEOREM EqualIsExact ==
  ASSUME NEW n \in Nat, NEW a, NEW S, Holds(a, n, S), NEW b, NEW T, Holds(b, n, T)
  PROVE  hvr_set_equal(a, b) <=> S = T
<1>1. \A v \in 0 .. n - 1 : /\ hvr_set_contains(v, a) <=> v \in S
                            /\ hvr_set_contains(v, b) <=> v \in T
  BY DEF Holds
<1>2. S \subseteq 0 .. n - 1 /\ T \subseteq 0 .. n - 1
  BY DEF Holds
<1>3. a.max_n_contained = n /\ a.n_contained = Cardinality(S) /\ b.n_contained = Cardinality(T)
  BY DEF Holds
<1>4. \A v : hvr_set_contains(v, a) \in BOOLEAN /\ hvr_set_contains(v, b) \in BOOLEAN
  BY DEF hvr_set_contains
<1> QED BY <1>1, <1>2, <1>3, <1>4 DEF hvr_set_equal
=============================================================================
