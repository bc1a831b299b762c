SPECIFICATION CrashSpec
CONSTANTS
  Unit = 1000000
  AlphaNum = 1
  AlphaDen = 10
INVARIANTS
  NotFalselyLiquidated
CHECK_DEADLOCK FALSE
