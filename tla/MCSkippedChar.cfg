CONSTANTS
  Parts = {"line"}
  Nul = "nul"
  Blank = " "
  General = {"?"}
  Mode = "m"
  Boot = "$"
  X = "x"
  Others = {"]"}
  BufLen = 4
  Junk = {"nul", "8"}
  Digit <- MCDigit
  BusCommands <- MCBusCommands
  ModeNames <- MCModeNames
  ModeLines <- MCModeLines
  OutBit = 0
  NBits = 2
  WordBits = 3
  Modes = {0, 1, 4}
  CycleBits = 3
  Freqs = {2, 5}
  NsPerSec = 7
  MaxSec = 3
  MaxStep = 2
  MaxDelay = 4
  Typed <- MCTyped
  Texts <- MCTexts
  MaxTyped = 2
  RamWords = 4
  RamBits = 3
  WordBytes = 2
  Hashes = 5
  Page = 2
SPECIFICATION MCSpec
INVARIANT EveryCharacterTaken
CHECK_DEADLOCK FALSE
