SPECIFICATION FairSpec
CONSTANTS
  NBits = 3
  DevAddr = 2
  ScanMin = 1
  ScanMax = 3
INVARIANTS
  InStep
  WriteHeard
  ReadTruth
  AckNakFindsSdaFree
PROPERTIES
  NoStrayCondition
  LastByteNotAcked
  StopEndsFrame
  FoundIsThere
  CommandEnds
