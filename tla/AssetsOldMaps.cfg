INIT OldMapInit
NEXT OldMapNext
CONSTANTS
  Base = 6
  WordBytes = 1
  MaxString = 4
  Window = 3
  Threshold = 3
  MaxArray = 2
  TableSizes = {2, 4}
  MaxRatio = 3
  Align = 2
  Word32 = 4
  Methods = 3
  MaxBlocks = 3
  Reserved = 3
  SizeUnit = 2
  MaxPakEntries = 2
  BitXor <- XorOfBits
  Basis = 5
  Prime = 3
  Modulus = 16
  DefaultBlock = 8
  MaxEntries = 4
  MaxDepth = 2
  Invalid = 9
  FileSize = 3
  MaxCount = 2
  MaxTotal = 3
  Underscore = 1
  Digits = {2, 3}
INVARIANT OldMapTypesAreUsed
CHECK_DEADLOCK FALSE
