\* Two crashes and two failing disk writes; batches of two blocks.
CONSTANTS
  Block <- MCBlock
  Genesis <- MCGenesis
  Parent <- MCParent
  Height <- MCHeight
  Work <- MCWork
  HashRank <- MCHashRank
  NotBefore <- MCNotBefore
  Sound <- MCSound
  Signals <- MCSignals
  Candidates <- MCBranches
  SignedCheckpoints <- MCSigned
  MaxReorgDepth = 3
  ReorgPenaltyPermille = 0
  SignalWindow = 2
  SignalRequired = 2
  MaxTime = 0
  Batch = 2
  OldChains <- MCOldChains
  MaxCrashes = 2
  MaxFailures = 2
SPECIFICATION StoreSpec
INVARIANTS StoreSound DiskHoldsChain IndexesExact CrashKeepsForkPoint
