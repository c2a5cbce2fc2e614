SPECIFICATION Spec
CONSTANTS
  NPes = 2
  p1 = p1
  p2 = p2
  Parts = {p1, p2}
  HVR_INVALID_PARTITION = HVR_INVALID_PARTITION
  MaxVersion = 2
  Programs <- AwayAndBack
INVARIANT
  SubscribersHaveAll
