SPECIFICATION Spec
CONSTANTS
  NSlots = 3
  Parts = {p, q}
  MaxChanges = 2
SYMMETRY AnyPartition
INVARIANTS
  SlotsPartition
  PartitionListsExact
PROPERTY
  NothingIsSkipped
