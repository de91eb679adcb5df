SPECIFICATION SyncSpec
CONSTANTS
  Blocks <- MCBlocks
  Genesis = 0
  Parent <- MCParent
  Height <- MCHeight
  Ancestors <- MCAncestors
  Sealed = {0, 1, 2, 3, 4, 5, 6, 7, 8}
  Valid = {0, 1, 2, 3, 4, 5, 6, 7, 8}
  NotBefore <- MCNotBefore
  Better <- MCBetter
  MaxOrphans = 2
  MaxOrphanAhead = 3
  OrphanTTL = 1
  RetryDelay = 1
  MaxClock = 2
  MaxFaults = 0
  PeerStart = 0
  Mineable = {1, 2, 3}
  PeerBlocks = {4, 5, 6, 7, 8}
  MaxBlocksPerSync = 2
  MaxFailures = 3
  MaxDisturbances = 1
INVARIANT
  SyncTypeOK
PROPERTIES
  CatchesUp
  MiningResumes
  StreamRecovers
  MinedBlockIsTip
