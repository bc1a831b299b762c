SPECIFICATION Spec
CONSTANTS
  Top = 3
  Duration <- Nested
  MaxCache <- Caches
  Persisted = {2, 3}
  MaxGap = 3
  Unit = 100
  AlphaNum = 1
  AlphaDen = 2
  Prices = {10, 11, 12}
  SpotPrices = {9}
  Jumps <- Seconds
  FirstTime = 1
  MaxBatch = 2
  MaxTicks = 4
  MaxFetches = 1
INVARIANTS
  BarsMatchTicks
  Continuous
  MarkWithinSeen
  StoresAgree
PROPERTIES
  StopEnds
ACTION_CONSTRAINT Calmer
CHECK_DEADLOCK FALSE
