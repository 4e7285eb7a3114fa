SPECIFICATION PaperSpec
CONSTANTS
  p1 = p1
  p2 = p2
  p3 = p3
  p4 = p4
  p5 = p5
  w1 = w1
  w2 = w2
  btc = btc
  scout = scout
  unknown = unknown
  momentum = momentum
  None = None
  Positions = {p1, p2, p3, p4, p5}
  SymbolOf <- MCSymbolOf
  StrategyOf <- MCStrategyOf
  LoggedOf <- MCLoggedOf
  Shorts = {p2, p4}
  Mortal = {p3}
  Workers = {w1, w2}
  MaxRuns = 2
  MaxOpen = 2
  MaxShort = 1
  MaxBeside = 2
INVARIANTS ClosedOnce NothingForgotten SlotsAreKept
SYMMETRY WorkersAlike
