SPECIFICATION Spec
CONSTANTS
  NPes = 3
  Programs <- Everything
CHECK_DEADLOCK FALSE
INVARIANT
  ClusterDeadIsAccurate
