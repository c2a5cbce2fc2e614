------------------------------- MODULE HvrSet -------------------------------
(***************************************************************************)
(* The sets of PEs and partitions of src/hvr_set.cpp, and their messages   *)
(* (src/hvr_set_msg.cpp): a vector of machine words and a cached count.    *)
(* A word is the set of its bits that are one.                             *)
(***************************************************************************)
EXTENDS Integers, FiniteSets

CONSTANT BitsPerElement      \* sizeof(bit_vec_element_type) * BITS_PER_BYTE
ASSUME WordAssumption == BitsPerElement \in Nat \ {0}

AllBits == 0 .. BitsPerElement - 1
ElementOf(val) == val \div BitsPerElement
BitOf(val) == val % BitsPerElement

hvr_create_empty_set(nvals) ==
  [n_contained |-> 0, max_n_contained |-> nvals,
   bit_vector |-> [e \in 0 .. (nvals + BitsPerElement - 1) \div BitsPerElement - 1 |-> {}]]

hvr_set_contains(val, set) == BitOf(val) \in set.bit_vector[ElementOf(val)]

\* All bits of the last word too, those past max_n_contained included.
hvr_set_fill(set) ==
  [set EXCEPT !.bit_vector = [e \in DOMAIN @ |-> AllBits],
              !.n_contained = set.max_n_contained]

hvr_set_wipe(set) ==
  [set EXCEPT !.bit_vector = [e \in DOMAIN @ |-> {}], !.n_contained = 0]

hvr_set_insert(val, set) ==
  [set EXCEPT !.bit_vector[ElementOf(val)] = @ \cup {BitOf(val)},
              !.n_contained = set.n_contained + IF hvr_set_contains(val, set) THEN 0 ELSE 1]

hvr_set_clear(val, set) ==
  [set EXCEPT !.bit_vector[ElementOf(val)] = @ \ {BitOf(val)},
              !.n_contained = set.n_contained - IF hvr_set_contains(val, set) THEN 1 ELSE 0]

Recount(set) ==
  [set EXCEPT !.n_contained =
     Cardinality({v \in 0 .. set.max_n_contained - 1 : hvr_set_contains(v, set)})]

hvr_set_merge(set, other) ==
  Recount([set EXCEPT !.bit_vector = [e \in DOMAIN @ |-> @[e] \cup other.bit_vector[e]]])

hvr_set_or(dst, src) == hvr_set_merge(dst, src)

hvr_set_and(dst, src1, src2) ==
  Recount([dst EXCEPT !.bit_vector =
             [e \in DOMAIN @ |-> src1.bit_vector[e] \cap src2.bit_vector[e]]])

hvr_set_copy(dst, src) ==
  [dst EXCEPT !.bit_vector = src.bit_vector, !.n_contained = src.n_contained]

\* What is sent of a set, and what its receiver makes of it.
hvr_set_msg_send(set) ==
  [n_contained |-> set.n_contained, max_n_contained |-> set.max_n_contained,
   bits |-> set.bit_vector]
hvr_set_msg_copy(dst, msg) ==
  [dst EXCEPT !.n_contained = msg.n_contained, !.bit_vector = msg.bits]

hvr_set_equal(a, b) ==
  /\ a.n_contained = b.n_contained
  /\ \A v \in 0 .. a.max_n_contained - 1 : hvr_set_contains(v, a) = hvr_set_contains(v, b)

\* Of a set that is not empty; -1 stands for the abort.
hvr_set_min_contained(set) ==
  LET From[i \in 0 .. set.max_n_contained] ==
        IF i = set.max_n_contained THEN -1
        ELSE IF hvr_set_contains(i, set) THEN i ELSE From[i + 1]
  IN From[0]
hvr_set_max_contained(set) ==
  LET Down[i \in -1 .. set.max_n_contained - 1] ==
        IF i = -1 \/ hvr_set_contains(i, set) THEN i ELSE Down[i - 1]
  IN Down[set.max_n_contained - 1]
=============================================================================
