CONSTANTS
  Addr <- EightWords
  Programs <- ChosenAndTwoWays
  NRegionHeads = 4
  NumEntries = 4
  HotThresh = 1
  EnoughRegions = 1
  None = None
  Stale = Stale
  Aug = "head"
  EnableBoth = TRUE
SPECIFICATION HistorySpec
PROPERTIES
  ImplementsIss
  ImplementsRegionFinder
