SPECIFICATION Spec
CONSTANTS
  Txs <- MCTxs
  Sender <- MCSender
  Nonce <- MCNonce
  Fee <- MCFee
  Cost <- MCCost
  Size <- MCSize
  Stamp <- MCStamp
  Balance <- MCBalance
  MinRelayFee = 1
  MarketFee = 2
  LowFeeTTL = 0
  FullTTL = 1
  MaxFuture = 0
  MaxAge = 2
  MaxTxs = 2
  MaxBytes = 4
  BlockLimit = 2
  MaxHeight = 2
  MaxClock = 2
INVARIANTS
  TypeOK
  UniqueNonce
  WithinLimits
  SelectionFair
  MinedBlockApplies
  WalletNonceFree
PROPERTIES
  LeavesForCause
  AdmittedSpendable
