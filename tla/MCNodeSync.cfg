\* Two peers, one of them a seed; batches and chunks of one block.
CONSTANTS
  Block <- MCBlock
  Genesis = 0
  Parent <- MCParent
  Height <- MCHeight
  Work <- MCWork
  HashRank <- MCHashRank
  NotBefore <- MCNotBefore
  Sound <- MCBlock
  Signals = {3}
  Candidates = {}
  SignedCheckpoints <- MCSigned
  MaxReorgDepth = 1
  ReorgPenaltyPermille = 0
  SignalWindow = 1
  SignalRequired = 1
  MaxTime = 0
  Peer <- MCPeer
  Seeds = {"p"}
  SavedPeers = {"q"}
  MaxPeers = 2
  BatchBlocks = 1
  AdoptChunk = 1
  EvictAfter = 2
  StartTips = {0}
  PeerStart <- MCPeerStart
  PeerTips = {5}
  NoBlock = NoBlock
  Slot = {1, 2}
  MaxErrors = 1
  MaxMoves = 1
SPECIFICATION SyncSpec
INVARIANT SyncSound
PROPERTIES FollowsSeeds
