SPECIFICATION Spec
CONSTANTS
  SL_INDEX_COUNT_LOG2 = 1
  FL_INDEX_MAX = 7
  Start = 4
  PoolBytes = 60
  Garbage = 3
  Requests = {0, 28, 127, 128}
  Zeroed = {0, 28, 127}
  Resizes = {8, 32, 127}
  AlignedRequests = {}
  Alignments = {}
  Tags = {5}
INVARIANTS
  TypeOK
  BlocksTile
  NeighboursAgree
  GoodFit
PROPERTIES
  KeepsPromise
