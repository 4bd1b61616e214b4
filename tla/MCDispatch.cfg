CONSTANTS
  Addr <- EightWords
  Programs <- EveryProgram
  NRegionHeads = 3
  NumEntries = 4
  HotThresh = 1
  EnoughRegions = 1
  None = None
  Stale = Stale
  Aug = "none"
  EnableBoth = TRUE
SPECIFICATION Spec
INVARIANTS
  LoopAtBlock
  RunCoversBlock
  BlocksWellFormed
  EdgesSymmetric
  EdgesRealizable
  TraceIsPath
  RegionHeadsRecorded
  CodeIsCurrent
PROPERTIES
  BuildNeverDies
  EmitsTheEdges
  RepairsGoUnnoticed
