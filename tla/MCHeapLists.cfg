SPECIFICATION Spec
CONSTANTS
  SL_INDEX_COUNT_LOG2 = 1
  FL_INDEX_MAX = 7
  Start = 4
  PoolBytes = 76
  Garbage = 3
  Requests = {12}
  Zeroed = {}
  Resizes = {28}
  AlignedRequests = {4, 100}
  Alignments = {8}
  Tags = {5}
INVARIANTS
  ListsExact
  UsedAreHeld
