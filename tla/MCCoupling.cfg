SPECIFICATION FairSpec
CONSTANTS
  NPes = 3
  Programs <- UpPairRing
INVARIANTS
  AssertsHold
  MembersAgree
  RequestsAreAnswered
  ClusterDeadIsAccurate
PROPERTIES
  ClustersOnlyGrow
  IterationsEnd
  WantedIsCoupled
