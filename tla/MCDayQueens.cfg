SPECIFICATION DaySpec
CONSTANTS
  m1 = m1
  m2 = m2
  m3 = m3
  m4 = m4
  m5 = m5
  crypto = crypto
  equities = equities
  n1 = n1
  paper = paper
  Nodes = {n1}
  Biomes = {crypto, equities}
  AntTypes = {paper}
  Permits <- MCOnePermit
  Unknown = Unknown
  Issuers = {c1, c2}
  Missions = {m1, m2, m3}
  IdOf <- MCOwnId
  CapitalOf <- MCUnits
  Rivals = {m1, m2, m3}
  MaxCapital = 1
  BiomeOf <- MCOneBiome
  AntTypeOf <- MCAntTypeOf
  HomeOf <- MCHomeOf
  Total = 1
  Limits = {}
  Plans = {}
  None = None
  StartCapital = 3
  OptIns <- MCOptIns
  MaxPromoted = 2
  MaxPaperAnts = 2
  MaxRaises = 1
  Unbound = Unbound
  MaxStarts = 3
  Nobody = Nobody
  LoopNodes = {n1}
  Quotes = {0, 90, 97, 106, 115}
  Offers <- MCOffers
  Chains <- MCChains
  LoopCapital = 250
  MaxSize = 200
  MaxDrop = 5
  LossLimit = 4000
  LastDay = 1
  MaxTrades = 2
  NoOffer = NoOffer
  Series <- MCSeries
  Setups <- MCSetups
  Cost = 12
  Fast = 1
  Slow = 2
  Period = 2
  Band = 6
  Back = 1
  Regular = 2
  MinTraded = 2
  MinCandles = 8
  Wick = 1
  EveryBar = "every"
  Sessions <- MCSessions
  ClosePrices = {94, 100}
  Volumes = {1, 3}
  Openings <- MCOpenings
  Lookback = 5
  Baseline = 3
  ZWindow = 6
  MaxFilters = 2
  MaxTaken = 7
  MaxSessions = 1
  Trades = {t1}
  MaxAnts = 3
  MaxResets = 2
  PoolLines = {1, 2}
  OldLines = {1}
  Parts <- MCCallers
INVARIANTS CapitalHierarchy
CHECK_DEADLOCK FALSE
