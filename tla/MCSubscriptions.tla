-------------------------- MODULE MCSubscriptions --------------------------
(* Instances of Subscriptions for TLC: two PEs, two partitions.              *)
EXTENDS Subscriptions

CONSTANTS p1, p2

Alone  == [q \in Parts |-> {q}]                                \* only with itself
OneWay == [q \in Parts |-> IF q = p2 THEN {p1, p2} ELSE {q}]   \* p2 also with p1

Anywhere == [q \in Parts |-> Parts]
Nowhere  == [q \in Parts |-> {q}]
Away     == [q \in Parts |-> Parts \ {q}]

App(interacts, depth, interval, starts, goes, changes, leaves) ==
  [might_interact |-> interacts, max_graph_traverse_depth |-> depth,
   max_producer_info_interval |-> interval,
   starts |-> starts, goes |-> goes, changes |-> changes, leaves |-> leaves]
At0And1(a, b) == [p \in PEs |-> IF p = 0 THEN a ELSE b]

\* PE 0's vertex moves twice, and rows are read in every iteration ...
EagerMoves ==
  At0And1(App(OneWay, 2, 1, p1, Anywhere, 2, FALSE), App(OneWay, 2, 1, p2, Nowhere, 0, TRUE))
\* ... or only in every second.  PE 1's interacts with PE 0's but not the other
\* way round, or neither does until they meet.  PE 1 may exit.
LazyMoves ==
  At0And1(App(Alone, 1, 2, p1, Anywhere, 2, FALSE), App(Alone, 1, 2, p2, Nowhere, 0, TRUE))

\* PE 0's vertex moves away and may come back, while that of PE 1 changes where it
\* is and PE 1 may exit.
ChangeAndExit ==
  At0And1(App(Alone, 1, 1, p2, Away, 2, FALSE), App(Alone, 1, 1, p2, Nowhere, 1, TRUE))

Moves == {EagerMoves, LazyMoves, ChangeAndExit}

ASSUME MovesHaveFixedEnds == \A program \in Moves : HasFixedEnds(program)

\* The vertex of PE 0 moves, and PE 1 may exit.
MoveAndExit ==
  {At0And1(App(Alone, 1, 1, p1, Anywhere, 1, FALSE), App(Alone, 1, 1, p2, Nowhere, 0, TRUE))}

\* Both start in one partition, and move away and back.
AwayAndBack ==
  {At0And1(App(Alone, 1, 1, p1, Away, 2, FALSE), App(Alone, 1, 1, p1, Away, 2, FALSE))}
=============================================================================
