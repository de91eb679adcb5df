SPECIFICATION LiveSpec
CONSTANTS
  Blocks <- SmallBlocks
  Genesis = 0
  Parent <- SmallParent
  Height <- SmallHeight
  Ancestors <- SmallAncestors
  Sealed = {0, 1, 2, 3, 4}
  Valid = {0, 1, 2, 3, 4}
  NotBefore <- SmallNotBefore
  Better <- SmallBetter
  MaxOrphans = 2
  MaxOrphanAhead = 2
  OrphanTTL = 1
  RetryDelay = 1
  MaxClock = 1
  MaxFaults = 1
INVARIANTS
  DiskLoads
PROPERTIES
  TipImproves
  ImplementsFollower
  NodeReleased
