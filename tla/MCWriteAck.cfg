SPECIFICATION Spec
CONSTANTS
  NBits = 2
  DevAddr = 1
  ScanMin = 0
  ScanMax = 1
PROPERTY
  ReportedWasAcked
