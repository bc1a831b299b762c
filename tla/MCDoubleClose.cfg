SPECIFICATION RolesSpec
CONSTANTS
  MakerPart = 24
  TakerPart = 12
  MaintPart = 10
  ForceTpROI = 5
  Users = {u1, u2}
  MM = mm
  LIQ = liq
  InitialBalance = 1000
  SystemBalance = 5000
  Threads = {t1, t2}
  Bot = bot
  Feeder = feeder
  Feed <- FeedA
  LimitPrices = {144}
  Quantities = {1, 2}
  Leverages = {2}
  Spread = 72
  QuoteQty = 2
  MaxDeviation = 50
  MaxPositions = 2
  MaxCalls = 4
  MaxTicks = 1
INVARIANTS
  OneCloseAtATime
SYMMETRY ThreadSymmetry
CHECK_DEADLOCK FALSE
