\* Two calls in flight, one mining thread.
CONSTANTS
  Block <- MCBlock
  Genesis = 0
  Parent <- MCParent
  Height <- MCHeight
  Work <- MCWork
  HashRank <- MCHashRank
  NotBefore <- MCNotBefore
  Sound <- MCBlock
  Signals = {}
  Meets <- MCMeets
  EpochLength = 2
  EpochSeed0 = 99
  Candidates <- MCCandidates
  MaxBatch = 2
  MaxPowOK = 1
  MaxVerified = 2
  Job = {1, 2}
  Worker = {"w"}
  NoBlock = NoBlock
SPECIFICATION Spec
INVARIANTS MemosAgree HashesCount
