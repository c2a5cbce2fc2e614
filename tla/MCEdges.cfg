SPECIFICATION Spec
CONSTANTS
  Locals = {1, 2}
  Mirrors = {3, 4, 5}
  Parts = {0, 1}
  Places = {0, 1, 2, 3}
  absent = absent
  PartOf <- TwoParts
  might_interact <- Both
  should_have_edge <- Near
  Casts <- StayOrMove
CHECK_DEADLOCK FALSE
INVARIANTS
  EdgesWanted
  LocalNeighborsExact
  NeverTooNear
PROPERTY
  NeighborhoodIsProcessed
