SPECIFICATION DaySpec
CONSTANTS
  m1 = m1
  m2 = m2
  m3 = m3
  m4 = m4
  m5 = m5
  crypto = crypto
  equities = equities
  n1 = n1
  paper = paper
  Nodes = {n1}
  Biomes = {crypto, equities}
  AntTypes = {paper}
  Permits <- MCPermits
  Unknown = Unknown
  Issuers = {c1, c2}
  Missions = {m1, m2, m3, m4, m5}
  IdOf <- MCIdOf
  CapitalOf <- MCCapitalOf
  Rivals = {m4, m5}
  MaxCapital = 2
  BiomeOf <- MCBiomeOf
  AntTypeOf <- MCAntTypeOf
  HomeOf <- MCHomeOf
  Total = 2
  Limits = {1, 2}
  Plans <- MCPlans
  None = None
  StartCapital = 3
  OptIns <- MCOptIns
  MaxPromoted = 2
  MaxPaperAnts = 2
  MaxRaises = 1
  Unbound = Unbound
  MaxStarts = 3
  Nobody = Nobody
  LoopNodes = {n1}
  Quotes = {0, 90, 97, 106, 115}
  Offers <- MCOffers
  Chains <- MCChains
  LoopCapital = 250
  MaxSize = 200
  MaxDrop = 5
  LossLimit = 4000
  LastDay = 1
  MaxTrades = 2
  NoOffer = NoOffer
  Series <- MCSeries
  Setups <- MCSetups
  Cost = 12
  Fast = 1
  Slow = 2
  Period = 2
  Band = 6
  Back = 1
  Regular = 2
  MinTraded = 2
  MinCandles = 8
  Wick = 1
  EveryBar = "every"
  Sessions <- MCSessions
  ClosePrices = {94, 100}
  Volumes = {1, 3}
  Openings <- MCOpenings
  Lookback = 5
  Baseline = 3
  ZWindow = 6
  MaxFilters = 2
  MaxTaken = 7
  MaxSessions = 1
  Trades = {t1}
  MaxAnts = 3
  MaxResets = 2
  PoolLines = {1, 2}
  OldLines = {1}
  Parts <- MCParts
INVARIANTS CapitalHierarchy AcceptedIsActive BiomeHierarchy AdmissionHolds
  BootIsSound FoundOwnersAreGone ExitsAreSound BacktestIsSound SignalsAreNew ResetsAreSafe
PROPERTIES KeepsBudget
CHECK_DEADLOCK FALSE
