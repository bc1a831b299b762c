SPECIFICATION SSpec
CONSTANTS
  MakerPart = 24
  TakerPart = 12
  MaintPart = 10
  ForceTpROI = 5
  Users = {u1, u2}
  MM = mm
  LIQ = liq
  InitialBalance = 400
  SystemBalance = 5000
  Threads = {t1, t2}
  Bot = bot
  Feeder = feeder
  Feed <- OnePrice
  LimitPrices = {144}
  Quantities = {1, 2}
  Leverages = {2}
  Spread = 72
  QuoteQty = 1
  MaxDeviation = 50
  MaxPositions = 2
  MaxCalls = 4
  MaxTicks = 0
  BufferSize = 2
  MaxFailures = 1
  MaxRestarts = 1
  MaxResets = 1
INVARIANTS
  BalancesBackedUp
  PositionsBackedUp
  OrdersBackedUp
  KeysFresh
  RefusedOnlyByRace
ACTION_CONSTRAINT Roles
CHECK_DEADLOCK FALSE
