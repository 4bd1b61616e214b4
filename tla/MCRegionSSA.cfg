CONSTANTS
  Cases <- EveryCase
  MaxRun = 4
SPECIFICATION Spec
INVARIANTS
  DominatorsAreRight
  FrontierEndsDominance
  LoopsAreNatural
  SameState
  DiesOnlyOverHi
CHECK_DEADLOCK FALSE
