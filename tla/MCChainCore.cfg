\* Reorg cap 1, v4 gate of 2 signals in 2 blocks, a work penalty of 10% a block;
\* the network may serve branch c at any time.
CONSTANTS
  Block <- MCBlock
  Genesis <- MCGenesis
  Parent <- MCParent
  Height <- MCHeight
  Work <- MCWork
  HashRank <- MCHashRank
  NotBefore <- MCNotBefore
  Sound <- MCSound
  Signals <- MCSignals
  Candidates <- MCCandidates
  SignedCheckpoints <- MCSigned
  MaxReorgDepth = 1
  ReorgPenaltyPermille = 100
  SignalWindow = 2
  SignalRequired = 2
  MaxTime = 1
  NetworkTip <- MCNetworkTip
SPECIFICATION RecoverySpec
INVARIANTS TypeOK ChainIsValid WorkIsSum CheckpointsHeld
PROPERTIES DeepReorgIsSigned DeepReorgPays ImplementsForkChoice StrandedNodeRecovers
