SPECIFICATION FairSpec
CONSTANTS
  PEs = {1, 2, 3}
  Apps <- MutualAndChain
  Repeats = 1
  MaxVersion = 1
  BufferSize = 1
  MaxIters = 2
  send_neighbor_updates_for_explicit_subs = TRUE
INVARIANTS AssertsHold SubscriptionsAreKept SubscribersAreCurrent EndsAgree
PROPERTY EventuallySettled
