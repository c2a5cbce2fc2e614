SPECIFICATION Spec
CONSTANTS
  HVR_MAP_SEG_SIZE = 3
  HVR_MAP_BUCKETS = 2
  BitsPerElement = 2
  HVR_SPARSE_ARR_SEGMENT_SIZE = 2
  unallocated = unallocated
  Keys = {0, 2, 3, 4, 6, 8}
  Data = {1, 2}
  none = none
  NSegs = 3
  NVals = 5
  Pairs <- RowAndValue
  Capacity = 4
  NRowSegs = 1
  NNodes = 3
  Changes = {1, 2}
  NReceivers = 2
  MaxArrived = 2
  MIN_CHUNK_SIZE = 2
  CHUNK_OVERHEAD = 1
  NSMALLBINS = 4
  TREEBIN_SHIFT = 2
  NTREEBINS = 6
  SIZE_T_BITSIZE = 7
  MSTATE_SIZE = 2
  TOP_FOOT_SIZE = 2
  HeapSize = 30
  Requests = {1, 7, 8, 10}
  MaxBlocks = 5
  BYTE = 2
  WIDTH = 4
  POLYNOMIAL = {0, 1}
  MaxBytes = 4
  VERTEX_BITS = 2
  Values <- ValuesOfSlots
  buffer_size_per_pe = 2
  MailboxBatches = 1
  MAX_MSGS_DRAINED = 1
  Programs <- SmallPrograms
CHECK_DEADLOCK FALSE
INVARIANTS
  ContainersAreExact
  NothingIsStranded
