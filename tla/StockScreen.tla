------------------------------ MODULE StockScreen ------------------------------
(***************************************************************************)
(* Setup 2: FundamentalAnt screens stocks                                  *)
(* (ant_colony/ants/equities/fundamental_ant.py), PiotroskiAnt scores its  *)
(* candidates again (piotroski_ant.py), BreakoutAnt signals those that are *)
(* near their high (breakout_ant.py).  Each remembers what it let through  *)
(* for one life, and looks at what it did not at every tick.               *)
(***************************************************************************)
EXTENDS TradingDays, FiniteSets, Bags

CONSTANTS
  Stocks,
  Fundamentals,    \* figures the adapter may give of a stock; percentages
  MinScore,        \* _MIN_PIOTROSKI_SCORE, of the screen and of the second scoring
  MaxScreenLives,  \* bounds the lives of each ant
  NoFigures        \* a fetch that failed

VARIABLES
  screened,     \* candidates in the research log: symbol, day and score
  fSeen,        \* _emitted_candidates of FundamentalAnt
  passed,       \* candidates in the log of PiotroskiAnt: symbol and day
  pioSeen,      \* its _seen_candidate_ids
  breakouts,    \* how many of each breakout signal are in the logs
  brSeen,       \* the signals BreakoutAnt has in _seen_candidate_ids
  screenLife    \* lives of the three so far

screenVars == <<screened, fSeen, passed, pioSeen, breakouts, brSeen, screenLife>>

ScreenInit ==
  /\ screened = {} /\ fSeen = {} /\ passed = {} /\ pioSeen = {}
  /\ breakouts = EmptyBag /\ brSeen = {} /\ screenLife = 1

\* A figure of zero counts as one that is not there.
OrElse(figure, default) == IF figure = 0 THEN default ELSE figure

\* piotroski_score, one criterion per name.  A missing figure fails its own
\* criterion; so does a debt of zero, which counts as a missing one.
FScore(f) ==
  LET debt == OrElse(f.debt, 99900)
      met  == [F1 |-> f.roa > 0, F2 |-> f.ocf > 0, F3 |-> f.ocf > f.income,
               F4 |-> 0 <= debt /\ debt < 100, F5 |-> f.current > 100, F6 |-> f.margin > 25,
               F7 |-> f.roe > 10, F8 |-> 0 < f.pe /\ f.pe < 30, F9 |-> f.roa > 5]
  IN Cardinality({c \in DOMAIN met : met[c]})

\* _tick and _screen_symbol of FundamentalAnt; near: the stocks that rose over
\* the year and are at their high.
FundamentalTick ==
  \E figures \in [Stocks -> Fundamentals], near \in SUBSET Stocks :
    LET found == {s \in near : <<s, Today>> \notin fSeen /\ FScore(figures[s]) >= MinScore}
    IN /\ screened' = screened \cup
            {[symbol |-> s, day |-> Today, score |-> FScore(figures[s])] : s \in found}
       /\ fSeen' = fSeen \cup (found \X {Today})
       /\ UNCHANGED <<passed, pioSeen, breakouts, brSeen, screenLife>>

\* _tick of PiotroskiAnt: new figures count, and the logged score if there are
\* none.
PiotroskiTick ==
  \E figures \in [Stocks -> Fundamentals \cup {NoFigures}] :
    LET scoreOf(c) == IF figures[c.symbol] = NoFigures THEN c.score ELSE FScore(figures[c.symbol])
        through == {<<c.symbol, c.day>> : c \in {c \in screened : scoreOf(c) >= MinScore}} \ pioSeen
    IN /\ passed' = passed \cup through /\ pioSeen' = pioSeen \cup through
       /\ UNCHANGED <<screened, fSeen, breakouts, brSeen, screenLife>>

\* Mutant: a signal is remembered by its candidate.
BreakoutTick_ByCandidate ==
  \E near \in SUBSET Stocks :
    LET broken == {c \in passed : c[1] \in near /\ c \notin brSeen}
    IN /\ breakouts' = breakouts (+)
            SetToBag({[symbol |-> c[1], day |-> Today, life |-> screenLife] : c \in broken})
       /\ brSeen' = brSeen \cup broken
       /\ UNCHANGED <<screened, fSeen, passed, pioSeen, screenLife>>

\* _tick and _check_breakout: a signal for every stock that is near its high,
\* however old the candidate, one a day.  The scan's own test, for ids of
\* candidates among ids of signals, finds none.
BreakoutTick ==
  \E near \in SUBSET Stocks :
    LET broken == {s \in near : <<s, Today>> \notin brSeen /\ \E c \in passed : c[1] = s}
    IN /\ breakouts' = breakouts (+)
            SetToBag({[symbol |-> s, day |-> Today, life |-> screenLife] : s \in broken})
       /\ brSeen' = brSeen \cup (broken \X {Today})
       /\ UNCHANGED <<screened, fSeen, passed, pioSeen, screenLife>>

\* The process starts anew; nothing is restored.
ScreenRestart ==
  /\ screenLife < MaxScreenLives /\ screenLife' = screenLife + 1
  /\ fSeen' = {} /\ pioSeen' = {} /\ brSeen' = {}
  /\ UNCHANGED <<screened, passed, breakouts>>

ScreenStep == FundamentalTick \/ PiotroskiTick \/ BreakoutTick \/ ScreenRestart

\* One life of the ants signals a stock at most once a day, however many
\* candidates for it have come through (ids by stock and day in
\* BreakoutAnt._check_breakout), and only a stock that both scorings let
\* through before, on that day or an earlier one.
SignalledOncePerDay ==
  \A b \in BagToSet(breakouts) :
    /\ breakouts[b] = 1
    /\ \E c \in screened : c.symbol = b.symbol /\ c.day <= b.day /\ <<c.symbol, c.day>> \in passed
================================================================================
