CONSTANTS
  Addr <- EightWords
  Programs <- Chosen
  NRegionHeads = 4
  NumEntries = 4
  HotThresh = 1
  EnoughRegions = 1
  None = None
  Stale = Stale
  Aug = "none"
  EnableBoth = TRUE
SPECIFICATION Spec
INVARIANT TwoSuccessors
