----------------------------- MODULE MCCoupling -----------------------------
(* Small instances of Coupling: who may want whom, and who may leave when.   *)
EXTENDS Coupling, TLC

Program(wants, terminates) ==
  [p \in PEs |-> [wants |-> wants[p], terminates |-> terminates[p]]]
All(x) == [p \in PEs |-> x]

\* Each wants the next.  PE 0 and PE 1 may leave once all are coupled.
Up == Program([p \in PEs |-> {p + 1} \cap PEs],
              [p \in PEs |-> IF p < 2 THEN "complete" ELSE "never"])

\* The first two couple, and may leave at any time.
Pair == Program([p \in PEs |-> IF p = 0 THEN {1} ELSE {}],
                [p \in PEs |-> IF p < 2 THEN "any time" ELSE "never"])

\* Each wants the next, and the last the first: clusters ask each other.
Ring == Program([p \in PEs |-> {(p + 1) % NPes}], All("never"))

UpPairRing == {Up, Pair, Ring}

\* Everyone may want everyone, and leave at any time.
Everything == {Program([p \in PEs |-> PEs \ {p}], All("any time"))}
=============================================================================
