SPECIFICATION Spec
CONSTANTS
  SL_INDEX_COUNT_LOG2 = 1
  FL_INDEX_MAX = 7
  Start = 4
  PoolBytes = 28
  Garbage = 3
  Requests = {24}
  Zeroed = {}
  Resizes = {128}
  AlignedRequests = {}
  Alignments = {}
  Tags = {5}
PROPERTIES
  RefusedLeavesBuffer
