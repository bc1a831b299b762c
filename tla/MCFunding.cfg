SPECIFICATION Spec
CONSTANTS
  MakerPart = 24
  TakerPart = 12
  MaintPart = 10
  ForceTpROI = 5
  Users = {u1}
  MM = mm
  LIQ = liq
  InitialBalance = 36
  SystemBalance = 500
  Price = 12
  Rates <- BothSigns
  Quantities = {1, 2}
  Leverage = 2
  MaxTrades = 3
  MaxSettlements = 2
  MaxFailures = 1
INVARIANTS
  ChargedOnce
  FundingAccounted
  FundingBackedUp
  FundingBalanced
PROPERTIES
  EndsUnlessBlocked
ACTION_CONSTRAINT Roles
CHECK_DEADLOCK FALSE
