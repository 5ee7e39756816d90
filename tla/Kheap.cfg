SPECIFICATION KheapSpec
CONSTANTS
  Header = 1
  MinSplit = 0
  Sizes = {1, 2, 5}
  MaxBlocks = 3
  Page = 4
  WordBits = 4
  WordBytes = 1
  MaxFrames = 10
  Maps <- MCMaps
  Low <- MCLow
  Kernel <- MCKernel
  Info <- MCInfo
  MaxCount = 3
CHECK_DEADLOCK FALSE
INVARIANTS
  CountsExact
  BlocksApart
  NoByteLost
  HeldSafe
  KeptReserved
  PageIsFound
PROPERTY ImplementsPageAlloc
