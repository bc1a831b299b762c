\* Three orders of one or two units at two prices, or without a price.
SPECIFICATION Spec
CONSTANTS
  Prices = {10, 11}
  Quantities = {1, 2}
  MaxOrders = 3
INVARIANTS
  TypeOK
  LevelsSorted
  LevelsHoldTheirOrders
  IndexMatchesQueues
  Uncrossed
  TradesWithinLimits
PROPERTIES
  GoneForGood
  KeepsPriority
  CallsFinish
CHECK_DEADLOCK FALSE
