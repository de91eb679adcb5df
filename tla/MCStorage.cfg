SPECIFICATION Spec
CONSTANTS
  Blocks <- MCBlocks
  Genesis = 0
  Parent <- MCParent
  Height <- MCHeight
  Ancestors <- MCAncestors
  Sealed = {0, 1, 2, 3, 4, 5, 6}
  Valid = {0, 1, 2, 3, 4, 5, 6}
  NotBefore <- MCNotBefore
  Better <- MCBetter
  Transactions = {"t", "u", "v"}
  Addresses = {"alice", "carol"}
  Contents <- MCContents
  Sender <- MCSender
  Receiver <- MCReceiver
  SnapshotHeights = {1, 3}
  DifficultyInterval = 2
  MaxFaults = 3
INVARIANTS
  TypeOK
  StartsAgain
  IndexesExact
  ScanIsOneBranch
  DifficultyAgrees
PROPERTY
  ImplementsFollower
