SPECIFICATION Spec
CONSTANTS
  PEs = {1, 2, 3}
  Apps <- OnlyChain
  Repeats = 1
  MaxVersion = 1
  BufferSize = 1
  MaxIters = 1
  send_neighbor_updates_for_explicit_subs = TRUE
INVARIANT SubscriptionsAreKept
