\* Unbounded restarts, no failing disk write, batches of two blocks, no cap.
CONSTANTS
  Block <- MCBlock
  Genesis <- MCGenesis
  Parent <- MCParent
  Height <- MCHeight
  Work <- MCWork
  HashRank <- MCHashRank
  NotBefore <- MCNotBefore
  Sound <- MCSound
  Signals <- MCSignals
  Candidates <- MCNone
  SignedCheckpoints <- MCNone
  MaxReorgDepth = 0
  ReorgPenaltyPermille = 0
  SignalWindow = 2
  SignalRequired = 2
  MaxTime = 0
  Batch = 2
  OldChains <- MCOldChains
  MaxCrashes = 0
  MaxFailures = 0
  NetworkTip <- MCNetworkTip
  MaxTxns = 6
SPECIFICATION LoopSpec
PROPERTIES LeavesLosingTip
