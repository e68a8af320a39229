SPECIFICATION FairSpec
CONSTANTS
  a = a
  sp = sp
  nul = nul
  Text <- MCText
  Space <- sp
  Nul <- nul
  BufLens <- ShortAndLong
  Width = 3
  PromptLen = 1
  HistMax = 2
INVARIANTS TypeOK BufferBounds LineIsText ScreenShowsLine NothingLeftBehind ReturnedString HistoryOK
PROPERTIES EditsALine EraseWordEnds
