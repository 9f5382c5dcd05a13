\* As MCDifficulty.
CONSTANTS
  BlockTargetSpacing = 4
  RetargetWindow = 2
  LWMAWindow = 2
  MedianSpan = 3
  MaxFutureDrift = 3
  MaxTarget = 15
  GenesisTarget = 7
  GenesisTime = 2
  HashSpace = 64
  SignalWindow = 2
  LWMAThreshold = 2
  MaxReorgDepth = 1
  TimeSteps <- MCTimeSteps
  MaxLength = 5
  MaxRun = 2
  MaxClock = 14
SPECIFICATION Spec
INVARIANT CachedLWMAIsFresh
