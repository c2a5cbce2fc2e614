SPECIFICATION FairSpec
CONSTANTS
  PEs = {p1, p2, p3}
PROPERTIES
  ImplementsSharedLock
  RequestedIsGranted
  SomeoneEnters
INVARIANTS
  MutualExclusion
  WordIsExact
