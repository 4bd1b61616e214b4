CONSTANTS
  Page <- TextAndVectors
  Word = {0, 1}
  Value = {0, 1}
  Vectors <- VectorWords
  Vector <- VectorOf
  Pc = {0, 1}
  EntryPoint = {0, 1}
  MaxIcnt = 2
  dumpicnt = 1
  None = None
  Heads = {h1, h2}
  CodeAddr = {a1, a2}
  MaxLog = 4
  Blocks <- FourBlocks
  simPointsSlice = 2
  mips = 3
  Micro = 10
  MaxRetired = 7
SPECIFICATION Spec
INVARIANTS
  RestoredAsSaved
  LogNamesCode
  CountsRetired
  LogAccounts
PROPERTY GuestClock
CHECK_DEADLOCK FALSE
