---------------------------- MODULE MCContainers ----------------------------
(* Small segments, words of two bits, one row with enough values to rotate, a  *)
(* heap with room for the smallest trie of two levels.                         *)
EXTENDS Containers

RowAndValue == {<<0, v>> : v \in 1 .. 7} \cup {<<1, 2>>, <<2, 5>>}

ValuesOfSlots == 0 :> 7 @@ 1 :> 5 @@ 2 :> 9 @@ 3 :> 5

\* Both send updates and one subscribes; one has many subscriptions, the other updates.
SmallPrograms == {
  <<[update |-> 2, sub |-> 2], [update |-> 2, sub |-> 0]>>,
  <<[update |-> 0, sub |-> 5], [update |-> 2, sub |-> 0]>> }
=============================================================================
