\* A table of two jobs, two tip moves, one change of the mempool.
CONSTANTS
  Block <- MCBlock
  Genesis = 1
  Parent <- MCParent
  Height <- MCHeight
  Caller <- MCCaller
  AddrOf <- MCAddrOf
  NoBlock = 0
  MaxTemplates = 2
  MaxMoves = 2
  MaxBodies = 1
  MaxErrors = 1
SPECIFICATION WorkSpec
INVARIANT JobsSound
PROPERTIES WorkCatchesUp
