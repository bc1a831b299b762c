SPECIFICATION LSpec
CONSTANTS
  MakerPart = 24
  TakerPart = 12
  MaintPart = 10
  ForceTpROI = 1
  Users = {u1, u2}
  MM = mm
  LIQ = liq
  InitialBalance = 5000
  SystemBalance = 50000
  Threads = {t1}
  Bot = bot
  Feeder = feeder
  Feed <- Slump
  LimitPrices = {144, 36}
  Quantities = {12}
  Leverages = {2}
  Spread = 18
  QuoteQty = 12
  MaxDeviation = 50
  MaxPositions = 2
  MaxCalls = 3
  MaxTicks = 0
  InitialFund = 216
  SlipPart = 2
INVARIANTS
  UnbalancedByADLOnly
  MoneyConserved
  NoRestingIOC
SYMMETRY Symmetry
CHECK_DEADLOCK FALSE
