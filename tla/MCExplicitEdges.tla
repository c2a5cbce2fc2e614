-------------------------- MODULE MCExplicitEdges --------------------------
(* Instances of ExplicitEdges for TLC: vertices 1, 2, 3 of as many PEs.      *)
EXTENDS ExplicitEdges

\* 1 and 2 create an edge to each other, change, and 2 may leave.
Mutual == [pes |-> {1, 2}, changing |-> {1, 2}, leavers |-> {2},
           creates |-> [p \in {1, 2} |-> {<<3 - p, BIDIRECTIONAL>>}]]

\* 1 creates an edge to 2, and 2 one to 3.
Chain == [pes |-> {1, 2, 3}, changing |-> {}, leavers |-> {},
          creates |-> [p \in {1, 2, 3} |-> IF p = 3 THEN {} ELSE {<<p + 1, BIDIRECTIONAL>>}]]

\* 1 creates an edge that comes in from 2.
Inward == [pes |-> {1, 2}, changing |-> {}, leavers |-> {},
           creates |-> [p \in {1, 2} |-> IF p = 1 THEN {<<2, DIRECTED_IN>>} ELSE {}]]

MutualAndChain == {Mutual, Chain}
OnlyMutual == {Mutual}
OnlyChain == {Chain}
OnlyInward == {Inward}
=============================================================================
