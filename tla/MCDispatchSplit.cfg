CONSTANTS
  Addr <- EightWords
  Programs <- IntoSlotOnly
  NRegionHeads = 4
  NumEntries = 4
  HotThresh = 1
  EnoughRegions = 1
  None = None
  Stale = Stale
  Aug = "none"
  EnableBoth = TRUE
SPECIFICATION Spec
PROPERTY SplitNeverDies
