SPECIFICATION MillSpec
CONSTANTS
  i1 = i1
  i2 = i2
  btc = btc
  sma = sma
  w1 = w1
  w2 = w2
  None = None
  Ideas = {i1, i2}
  Exits = {i1}
  Symbols = {btc}
  OwnSignals = {sma}
  MaxLives = 2
  Repos = {i1}
  Posts = {i2}
  MaxFetches = 1
  Files = {1, 2}
  Charts = {2}
  IdeaOf <- MCIdeaOf
  Like <- MCLike
  Goods = {}
  Disabled = {}
  Banned <- MCBanned
  Workers = {w1, w2}
  Budget = 1
  MaxCost = 1
  MinResearch = 1
  TopN = 1
  Sharpe <- MCSharpe
  Variants = {i2}
  MaxMonths = 1
  MaxMissed = 1
  Mutations = {"tight"}
  Expansions = {}
  HeadSize = 1
  MaxPairs = 1
  DefaultSymbol = btc
  MaxLog = 2
  k1 = k1
  k2 = k2
  k3 = k3
  london = london
  newyork = newyork
  s1 = s1
  r1 = r1
  id1 = id1
  id2 = id2
  Candidates = {k1, k2, k3}
  Ready = {k1, k2}
  MaxRecords = 3
  PrefixOf <- MCPrefix
  MaxMissions = 1
  MaxPromoters = 2
  KzSymbols = {btc}
  Windows <- MCWindows
  MaxDays = 1
  Outside = Outside
  Spotted = {s1}
  Lines = {1, 2, 3}
  IdOfLine <- MCIdOfLine
  Accepted = {r1}
  QSymbols = {btc}
  SymbolOfItem <- MCSymbolOfItem
  Scope = {btc}
  Regimes = {"BEAR"}
  NoRegime = NoRegime
  ShortItems = {3}
  Sideways = {r1}
  Sharp = {1}
    MaxPerTick = 1
  MaxPapers = 2
  QWorkers = {w1, w2}
  MaxLeft = 1
  Company <- MCCompany
  Casts <- MCCasts
  xlk = xlk
  xle = xle
  xlv = xlv
  aapl = aapl
  ko = ko
  PerDay = 1
  MaxNow = 2
  Sectors = {xlk, xle, xlv}
  Returns <- MCReturns
  RankTop = 1
  MinShift = 1
  NoReturn = NoReturn
  Stocks = {aapl}
  Fundamentals <- MCFundamentals
  MinScore = 7
  MaxScreenLives = 2
  NoFigures = NoFigures
  Vix = {20, 30}
  Aristocrats = {ko}
  Quarter = 2
  MaxHedgeLives = 2
  MaxOrders = 3
  tech = tech
  oil = oil
  SectorRankings <- MCRankings
  SignalTop = 1
  MaxSpotted = 1
  Prices = {92, 100, 110}
  Listed <- MCListed
  MaxPositions = 1
  ExitTop = 1
  MissTicks = 2
  MinHold = 1
  Cooldown = 1
  TtlOf <- MCTtl
  MaxBooked = 2
  MaxBookLives = 3
  LivesBeside = 2
  NowBeside = 1
  PricesBeside = {100}
  CandidateLists <- MCLists
  MaxLiveOrders = 3
  MaxLiveLives = 2
  gold = gold
  Polls <- MCPolls
  WtAssets = {aapl, gold}
  WtDay = 2
  MaxAge = 0
  MaxDaily = 1
  MaxWtNow = 2
  MaxPolls = 2
  MaxLapses = 1
  ContextTtl = 2
  CallLimit = 2
  Rounds = {1, 2}
  MaxNewsDay = 1
  MaxNewsTicks = 4
  MaxNewsLives = 2
  AuditLogs = {1, 2}
  MaxSequence = 3
  MaxAuditLives = 2
  MaxUnkept = 1
  Readings <- MCReadings
  Backtested = {NoReading, "TRENDING"}
  News = {"neutral"}
  NoReading = NoReading
  MaxReadings = 2
  MaxSyncLives = 1
  Clients = {w1, w2}
  Tickers = {aapl, ko}
  MaxAttempts = 2
  MaxLosses = 3
  NoOne = NoOne
INVARIANTS InputIsTakenOnce WorkedOnOnce SpendIsBounded
  PromotionIsOrderly DoneOncePerLife
  RotationsAreShifts OrdersTrackRegime SignalledOncePerDay
  SymbolsMatchBook LostMomentumRests StopsNeverFall OneOrderInSight OneOrderSlipsThrough
  LatestContextIsWritten LimitsOutliveCrashes RegimeIsFollowed StallHasACause
CHECK_DEADLOCK FALSE
