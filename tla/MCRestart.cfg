SPECIFICATION SSpec
CONSTANTS
  MakerPart = 24
  TakerPart = 12
  MaintPart = 10
  ForceTpROI = 5
  Users = {u1}
  MM = mm
  LIQ = liq
  InitialBalance = 400
  SystemBalance = 5000
  Threads = {t1}
  Bot = bot
  Feeder = feeder
  Feed <- OnePrice
  LimitPrices = {144}
  Quantities = {1}
  Leverages = {2}
  Spread = 72
  QuoteQty = 1
  MaxDeviation = 50
  MaxPositions = 2
  MaxCalls = 2
  MaxTicks = 0
  BufferSize = 2
  MaxFailures = 0
  MaxRestarts = 1
  MaxResets = 0
PROPERTY
  RestartKeepsMoney
CHECK_DEADLOCK FALSE
