\* Pool of 3, nonce gap 1; maturity 2 from height 2, fee market from 5, signature rule from 4.
CONSTANTS
  alice = alice
  bob = bob
  burn = burn
  Addr = {alice, bob, burn}
  Word = 64
  MaxHeight = 5
  SubsidyAt <- MCSubsidyAt
  CoinbaseMaturity = 2
  MaturityHeight = 2
  MinFeeHeight = 1
  FeeMarketHeight = 5
  FeeFloor = 1
  FullMult = 4
  FeeWindow = 2
  ChainIDHeight = 4
  MaxBlockTxs = 3
  Txs <- MCTxs
  Branches <- MCBranches
  Genesis <- MCGenesis
  Miner = alice
  MaxNonceGap = 1
  MaxPerSender = 3
  PoolLimit = 3

SPECIFICATION Spec

INVARIANTS
  PoolSound
  LedgerIsReplay
  SupplyIsSubsidies
  NoncesInOrder
  RewardsStayLocked
  
  TemplateValid

PROPERTIES
  LeavesPoolForCause
  RestartKeepsFundedRun

