CONSTANTS
  Addr <- EightWords
  Programs <- ChosenAndBranchy
  NRegionHeads = 4
  NumEntries = 3
  HotThresh = 1
  EnoughRegions = 2
  None = None
  Stale = Stale
  Aug = "none"
  EnableBoth = FALSE
SPECIFICATION Spec
INVARIANTS
  RegionsAreLoops
  CompiledOnce
PROPERTIES
  StepsAsIss
