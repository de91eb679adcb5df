SPECIFICATION Spec
CONSTANTS
  Blocks <- MCBlocks
  Genesis = 0
  Parent <- MCParent
  Height <- MCHeight
  Ancestors <- MCAncestors
  Sealed = {0, 1, 2, 3, 4, 5, 6}
  Valid = {0, 1, 2, 3, 4, 5}
  NotBefore <- MCNotBefore
  Better <- FirstSeen
  MaxOrphans = 2
  MaxOrphanAhead = 2
  OrphanTTL = 2
  RetryDelay = 1
  MaxClock = 1
  MaxFaults = 0
INVARIANTS
  TypeOK
  ForkChoiceSound
  LedgerIsBranch
  LedgerAtBest
  OrphanIndexExact
  BatchConnects
  NoStrandedOrphan
  OrphansBounded
  ValidBlockAccepted
PROPERTIES
  ImplementsFollower
