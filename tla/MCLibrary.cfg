CONSTANTS
  Parts = {"format", "strings", "lists", "arithmetic"}
  Jobs <- MCJobs
  IntBits = 4
  MemSize = 5
  CharBits = 2
  Blanks = {1}
  Lower <- MCLower
  InvShort = 2
  InvChunk = 2
  RingHeads = {11, 12}
  HashHeads = {21}
  Entries = {1, 2, 3}
  HalfBits = 2
SPECIFICATION MCSpec
INVARIANTS
  BufferExact
  TextExact
  StringsExact
  ListsMirror
  ArithExact
PROPERTY KeepsLists
CHECK_DEADLOCK FALSE
