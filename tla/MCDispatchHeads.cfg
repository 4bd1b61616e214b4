CONSTANTS
  Addr <- TenWords
  Programs <- SecondPathOnly
  NRegionHeads = 4
  NumEntries = 4
  HotThresh = 1
  EnoughRegions = 1
  None = None
  Stale = Stale
  Aug = "head"
  EnableBoth = TRUE
SPECIFICATION Spec
INVARIANT RegionHeadsRecorded
