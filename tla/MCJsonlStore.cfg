\* One crash, two failing writes.  A node refuses a torn file and stays down.
CONSTANTS
  Block <- MCBlock
  Genesis <- MCGenesis
  Parent <- MCParent
  Height <- MCHeight
  Work <- MCWork
  HashRank <- MCHashRank
  NotBefore <- MCNotBefore
  Sound <- MCSound
  Signals <- MCSignals
  Candidates <- MCBranches
  SignedCheckpoints <- MCNone
  MaxReorgDepth = 3
  ReorgPenaltyPermille = 0
  SignalWindow = 2
  SignalRequired = 2
  MaxTime = 0
  torn = torn
  Torn = torn
  MaxDeaths = 1
  MaxWriteErrors = 2
SPECIFICATION JSpec
INVARIANTS JsonlSound FileHoldsChain 
CHECK_DEADLOCK FALSE
