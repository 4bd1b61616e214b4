CONSTANTS
  Addr <- MCAddr
  NRegionHeads = 2
  NumEntries = 4
  HotThresh = 2
  None = None
  Stale = Stale
SPECIFICATION FairSpec
INVARIANTS
  TypeOK
  CollectingOwnsSlot
  TraceBeginsAtHead
  RegionWellFormed
PROPERTIES
  RegionGoesToHead
  CollectionEnds
