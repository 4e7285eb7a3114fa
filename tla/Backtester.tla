------------------------------- MODULE Backtester -------------------------------
(***************************************************************************)
(* The walk of a backtest over a series of bars (lab/backtester.py): where *)
(* a position is opened, at which bar and price it ends, and what is       *)
(* counted of the trades.  And what the ResearchAnt finds at the last of   *)
(* the bars (ants/research_ant.py), which is why it asks for a backtest.   *)
(*                                                                         *)
(* Prices are whole numbers, 0 that of a stale bar; percentages of them    *)
(* are compared in hundredths.  Only what decides is kept of a return: its *)
(* sign.                                                                   *)
(***************************************************************************)
EXTENDS Integers, Sequences, FiniteSets, FiniteSetsExt, Functions

CONSTANTS
  Series,      \* series of closing prices
  Setups,      \* BacktestConfigs: [direction, target, stop, hold, type], in percent
  Cost,        \* fee_pct + slippage_pct, in parts of 10000
  Fast, Slow,  \* _SMA_FAST, _SMA_SLOW
  Period,      \* _RSI_PERIOD
  Band,        \* _BB_PERIOD, _MR_PERIOD; the 20 bars of every window of the ResearchAnt
  Back,        \* _MOM_PERIOD
  Regular,     \* the 200 bars of the average a regime is told by
  MinTraded,   \* _MIN_TRADES
  MinCandles,  \* _MIN_CANDLES of the ResearchAnt
  Wick,        \* how far the high and the low of a bar are from its close
  EveryBar     \* no strategy_type

Directions == {"long", "short"}

\* BacktestConfig is not made with a distance or duration of zero, or another direction.
IsBacktestConfig(c) == {c.target, c.stop, c.hold} \subseteq Nat \ {0} /\ c.direction \in Directions

ASSUME BacktestAssumption ==
  /\ \A s \in Series : s \in Seq(Nat) /\ s # <<>>
  /\ \A c \in Setups : IsBacktestConfig(c)
  /\ {Fast, Slow, Period, Band, Back, Regular, MinCandles} \subseteq Nat \ {0}
  /\ Fast < Slow /\ Cost \in 0 .. 9999 /\ Wick \in Nat
  /\ MinCandles > Slow + 1 /\ MinCandles > Period + 1 /\ MinCandles > Band

VARIABLES
  closes,    \* the closes of the bars
  setup,     \* the config
  bar,       \* the bar the walk is at
  backtest,  \* "walking", "done" or "raised"
  traded,    \* the trades: [entry, exit, price, why], the price in hundredths
  results    \* BacktestResults: what is counted of them

btVars == <<closes, setup, bar, backtest, traded, results>>

NoResults == [won |-> 0]

Bars == DOMAIN closes
Final == Len(closes)

BacktestInit ==
  /\ closes \in Series /\ setup \in Setups
  /\ bar = 1 /\ backtest = "walking" /\ traded = <<>> /\ results = NoResults

--------------------------------------------------------------------------------
(* _has_entry_signal: no bar before its window is full gives a signal. *)

Added(first, last)   == SumFunctionOnSet(closes, first .. last)
Squares(first, last) == SumFunction([k \in first .. last |-> closes[k] * closes[k]])

Long == setup.direction = "long"

\* The fast average less the slow one, times both lengths.
Spread(b) == Slow * Added(b - Fast + 1, b) - Fast * Added(b - Slow + 1, b)

Crossed(b) ==
  /\ b > Slow
  /\ IF Long THEN Spread(b - 1) <= 0 /\ Spread(b) > 0 ELSE Spread(b - 1) >= 0 /\ Spread(b) < 0

Rise(k) == IF closes[k] > closes[k - 1] THEN closes[k] - closes[k - 1] ELSE 0
Fall(k) == IF closes[k] < closes[k - 1] THEN closes[k - 1] - closes[k] ELSE 0

Gains(b)  == SumFunction([k \in b - Period + 1 .. b |-> Rise(k)])
Losses(b) == SumFunction([k \in b - Period + 1 .. b |-> Fall(k)])

\* _rsi below 30 or above 70; it is 100 without a loss.
Stretched(b) ==
  /\ b > Period
  /\ IF Long THEN Losses(b) > 0 /\ 7 * Gains(b) < 3 * Losses(b)
             ELSE Losses(b) = 0 \/ 3 * Gains(b) > 7 * Losses(b)

\* How far the close lies from the average, and the variance, times the length.
Away(b)   == Band * closes[b] - Added(b - Band + 1, b)
Spreadness(b) == Band * Squares(b - Band + 1, b) - Added(b - Band + 1, b) * Added(b - Band + 1, b)

OnTheSide(b) == IF Long THEN Away(b) <= 0 ELSE Away(b) >= 0

AtBand(b)   == b > Band /\ OnTheSide(b) /\ Away(b) * Away(b) >= 4 * Spreadness(b)
Reverted(b) == b > Band /\ OnTheSide(b) /\ Spreadness(b) > 0 /\ Away(b) * Away(b) > 4 * Spreadness(b)

Moving(b) ==
  /\ b > Back
  /\ LET change == closes[b] - closes[b - Back]
     IN IF Long THEN 50 * change > closes[b - Back] ELSE 50 * change < -closes[b - Back]

\* A type that is not known gives a signal at every bar.
Signals(b) ==
  CASE setup.type = "sma_crossover"   -> Crossed(b)
    [] setup.type = "rsi_based"       -> Stretched(b)
    [] setup.type = "bollinger_bands" -> AtBand(b)
    [] setup.type = "momentum"        -> Moving(b)
    [] setup.type = "mean_reversion"  -> Reverted(b)
    [] OTHER                          -> TRUE

\* The change since a stale bar is a division by zero.
Divides(b) == setup.type = "momentum" /\ b > Back /\ closes[b - Back] = 0

--------------------------------------------------------------------------------
(* ResearchAnt._tick: the six patterns it looks for at the last bar.  It looks at *)
(* all the bars, and leaves out the stale ones only for the backtest.             *)

FoundCross(d) ==
  IF d = "long" THEN Spread(Final - 1) <= 0 /\ Spread(Final) > 0
  ELSE Spread(Final - 1) >= 0 /\ Spread(Final) < 0

\* Mutant: the thresholds are 20 and 80.
FoundRsi_Strict(d) ==
  IF d = "long" THEN Losses(Final) > 0 /\ 4 * Gains(Final) < Losses(Final)
  ELSE Losses(Final) = 0 \/ Gains(Final) > 4 * Losses(Final)

\* _rsi below 40 or above 60.
FoundRsi(d) ==
  IF d = "long" THEN Losses(Final) > 0 /\ 3 * Gains(Final) < 2 * Losses(Final)
  ELSE Losses(Final) = 0 \/ 2 * Gains(Final) > 3 * Losses(Final)

\* At least a number of tenths of the standard deviation to that side.  Both bands of
\* a flat market are its close, and the upper one is looked at first.
OutBy(d, tenths, b) ==
  /\ IF d = "short" THEN Away(b) >= 0 ELSE Away(b) <= 0 /\ Spreadness(b) > 0
  /\ 100 * Away(b) * Away(b) >= tenths * tenths * Spreadness(b)

FoundTouch(d) == OutBy(d, 20, Final)
FoundNear(d)  == OutBy(d, 16, Final) /\ ~FoundTouch(d)   \* 10% of the width between the bands

FoundBreakout(d) ==
  d = "long" /\ LET level == Max({closes[k] + Wick : k \in Final - Band .. Final - 1})
                IN level > 0 /\ closes[Final] > level

\* A score of -1.5.
FoundOversold(d) ==
  /\ d = "long" /\ Away(Final) < 0
  /\ Spreadness(Final) > 0 /\ 4 * Away(Final) * Away(Final) > 9 * Spreadness(Final)

\* _atr_last, times the length.
TrueRange(k) == Max({2 * Wick, closes[k] + Wick - closes[k - 1], closes[k - 1] - closes[k] + Wick})

TrueRanges(b) == SumFunction([k \in b - Period + 1 .. b |-> TrueRange(k)])

\* The bands, four deviations apart, lie within the channel of three ranges.
Squeezed(b) == 16 * Spreadness(b) * Period * Period < 9 * TrueRanges(b) * TrueRanges(b) * Band * Band

\* _ema over the bars up to b, as a fraction.
Ema[b \in 0 .. Final] ==
  IF b <= Band THEN [num |-> Added(1, Band), den |-> Band]
  ELSE LET before == Ema[b - 1]
       IN [num |-> 2 * closes[b] * before.den + (Band - 1) * before.num, den |-> (Band + 1) * before.den]

FoundRelease(d) ==
  /\ TrueRanges(Final) > 0 /\ Squeezed(Final - 1) /\ ~Squeezed(Final)
  /\ LET ema    == Ema[Final]
         scaled == closes[Final] * ema.den
     IN IF d = "long" THEN scaled > ema.num ELSE scaled < ema.num

\* The type a pattern is backtested by; for the last one the Backtester knows no entry.
TypeOf(pattern) ==
  CASE pattern = "cross"                -> "sma_crossover"
    [] pattern = "rsi"                  -> "rsi_based"
    [] pattern \in {"touch", "near"}    -> "bollinger_bands"
    [] pattern = "breakout"             -> "momentum"
    [] pattern = "oversold"             -> "mean_reversion"
    [] pattern = "release"              -> "volatility_squeeze"

Patterns == {"cross", "rsi", "touch", "near", "breakout", "oversold", "release"}

Found(pattern, d) ==
  CASE pattern = "cross"    -> FoundCross(d)
    [] pattern = "rsi"      -> FoundRsi(d)
    [] pattern = "touch"    -> FoundTouch(d)
    [] pattern = "near"     -> FoundNear(d)
    [] pattern = "breakout" -> FoundBreakout(d)
    [] pattern = "oversold" -> FoundOversold(d)
    [] pattern = "release"  -> FoundRelease(d)

\* The backtests that are asked for, as direction and type, if there are bars enough.
Sought ==
  IF Final < MinCandles THEN {}
  ELSE UNION {{<<d, TypeOf(p)>> : p \in {q \in Patterns : Found(q, d)}} : d \in Directions}

--------------------------------------------------------------------------------
(* _find_exit *)

Valid(b) == closes[b] > 0

TargetPrice(b) == closes[b] * (IF Long THEN 100 + setup.target ELSE 100 - setup.target)
StopPrice(b)   == closes[b] * (IF Long THEN 100 - setup.stop ELSE 100 + setup.stop)

HitsTarget(b, k) == Valid(k) /\ IF Long THEN 100 * closes[k] >= TargetPrice(b) ELSE 100 * closes[k] <= TargetPrice(b)
HitsStop(b, k)   == Valid(k) /\ IF Long THEN 100 * closes[k] <= StopPrice(b) ELSE 100 * closes[k] >= StopPrice(b)

\* Mutant: the window may reach past the last bar but one, and never holds it.
WindowEnd_Short(b) == Min({b + setup.hold, Final - 1})

WindowEnd(b) == Min({b + setup.hold, Final})

Hits(b) == {k \in b + 1 .. WindowEnd(b) : HitsTarget(b, k) \/ HitsStop(b, k)}

\* Mutant: of the bars that end it the last.
ExitOf_Last(b) ==
  IF Hits(b) = {} THEN [entry |-> b, exit |-> WindowEnd(b), price |-> 100 * closes[WindowEnd(b)], why |-> "ttl"]
  ELSE LET k == Max(Hits(b))
       IN IF HitsTarget(b, k) THEN [entry |-> b, exit |-> k, price |-> TargetPrice(b), why |-> "target"]
          ELSE [entry |-> b, exit |-> k, price |-> StopPrice(b), why |-> "stop"]

\* The first bar that reaches target or stop ends the trade at that price, though the
\* close may be past it; the last bar of the window ends it at its close, stale or not.
ExitOf(b) ==
  IF Hits(b) = {} THEN [entry |-> b, exit |-> WindowEnd(b), price |-> 100 * closes[WindowEnd(b)], why |-> "ttl"]
  ELSE LET k == Min(Hits(b))
       IN IF HitsTarget(b, k) THEN [entry |-> b, exit |-> k, price |-> TargetPrice(b), why |-> "target"]
          ELSE [entry |-> b, exit |-> k, price |-> StopPrice(b), why |-> "stop"]

--------------------------------------------------------------------------------
(* What is counted. *)

\* A return above zero, after costs on either side.
Won(t) ==
  LET entry == 100 * closes[t.entry]
  IN IF Long THEN t.price * (10000 - Cost) > entry * (10000 + Cost)
             ELSE t.price * (10000 + Cost) < entry * (10000 - Cost)

\* _best_streak, with the streak that goes on.
Streaks[k \in 0 .. Len(traded)] ==
  IF k = 0 THEN [best |-> 0, current |-> 0]
  ELSE LET before  == Streaks[k - 1]
           current == IF Won(traded[k]) THEN before.current + 1 ELSE 0
       IN [best |-> Max({before.best, current}), current |-> current]

\* _label_regime of the bar of an entry, by the average of the bars up to it.
RegimeOf(b) ==
  LET average == Added(b - Regular + 1, b)
      away    == Regular * closes[b] - average
  IN IF average <= 0 \/ (50 * away <= average /\ -50 * away <= average) THEN "sideways"
     ELSE IF away > 0 THEN "bull" ELSE "bear"

\* A trade whose average is not known yet is in no regime.
RegimeTrades(r) ==
  {k \in DOMAIN traded : traded[k].entry >= Regular /\ RegimeOf(traded[k].entry) = r}

Results ==
  [won     |-> Cardinality({k \in DOMAIN traded : Won(traded[k])}),
   streak  |-> Streaks[Len(traded)].best,
   sharpe  |-> Len(traded) >= 2 /\ (setup.type # EveryBar => Len(traded) >= MinTraded),
   regimes |-> [r \in {"bull", "bear", "sideways"} |-> Cardinality(RegimeTrades(r))]]

--------------------------------------------------------------------------------
(* run *)

Skip == bar' = bar + 1 /\ UNCHANGED traded

\* Mutant: the bar a trade ended at is the next to enter at.
Trade_Again == traded' = Append(traded, ExitOf(bar)) /\ bar' = ExitOf(bar).exit

Trade == traded' = Append(traded, ExitOf(bar)) /\ bar' = ExitOf(bar).exit + 1

\* The last bar is never entered at.
WalkBar ==
  /\ backtest = "walking" /\ bar < Final
  /\ IF Valid(bar) /\ Divides(bar) THEN backtest' = "raised" /\ UNCHANGED <<bar, traded>>
     ELSE /\ IF Valid(bar) /\ Signals(bar) THEN Trade ELSE Skip
          /\ UNCHANGED backtest
  /\ UNCHANGED <<closes, setup, results>>

WalkEnds ==
  /\ backtest = "walking" /\ bar >= Final
  /\ backtest' = "done" /\ results' = Results
  /\ UNCHANGED <<closes, setup, bar, traded>>

BacktestStep == WalkBar \/ WalkEnds

--------------------------------------------------------------------------------
(* Properties. *)

InTrade(b) == \E k \in DOMAIN traded : traded[k].entry <= b /\ b <= traded[k].exit

\* Trades follow one another, none ends before it began, or later than the window.
TradesAreApart ==
  /\ \A k \in DOMAIN traded :
       traded[k].entry < traded[k].exit /\ traded[k].exit <= traded[k].entry + setup.hold
  /\ \A k \in DOMAIN traded : k > 1 => traded[k - 1].exit < traded[k].entry

\* No trade looks ahead, and none is left out: a trade is open at no bar after the first
\* that reached a limit, and outside the trades no bar but the last gave a signal.
NoLookAhead ==
  /\ \A k \in DOMAIN traded :
       LET t == traded[k]
       IN /\ \A b \in t.entry + 1 .. t.exit - 1 : ~HitsTarget(t.entry, b) /\ ~HitsStop(t.entry, b)
          /\ t.why = "ttl" => t.exit \in {t.entry + setup.hold, Final}
  /\ backtest = "done" =>
       \A b \in 1 .. Final - 1 : ~InTrade(b) /\ Valid(b) => ~Signals(b)

\* A trade loses what the stop allows and no more, but one that ends with its window:
\* there the price may be that of a stale bar.  One that reached a target which is more
\* than the costs on either side has won.
LossesAreStopped ==
  \A k \in DOMAIN traded : LET t == traded[k] IN
    /\ (IF Long THEN t.price < StopPrice(t.entry) ELSE t.price > StopPrice(t.entry)) =>
         t.why = "ttl" /\ ~Valid(t.exit)
    /\ t.why = "target" /\ setup.target * (10000 - Cost) > 200 * Cost => Won(t)

\* best_streak is the length of the longest run of trades that won, and every trade
\* with bars enough before it counts for one regime.
CountsAgree ==
  backtest = "done" =>
    /\ \A first, last \in DOMAIN traded :
         (\A k \in first .. last : Won(traded[k])) => last - first < results.streak
    /\ results.streak <= results.won
    /\ results.regimes["bull"] + results.regimes["bear"] + results.regimes["sideways"] =
         Cardinality({k \in DOMAIN traded : traded[k].entry >= Regular})

\* The ant and the Backtester each have the patterns in code of their own.  Without a stale
\* bar what the Backtester would enter at the last bar the ant has found, as it is the
\* stricter of the two, but for a momentum, which the two tell differently, and the lower
\* band of a flat market; and what is found by a cross or a touch it would enter.  No
\* market is both bought and sold on one pattern.
SoughtAsTested ==
  backtest = "done" /\ Final >= MinCandles /\ (\A b \in Bars : Valid(b)) =>
    LET sought  == Sought
        entered == Signals(Final)
    IN /\ setup.type \in {"sma_crossover", "rsi_based", "bollinger_bands"} =>
            (entered /\ (Long => Spreadness(Final) > 0) => <<setup.direction, setup.type>> \in sought)
       /\ setup.type = "mean_reversion" /\ Long /\ entered => <<"long", "mean_reversion">> \in sought
       /\ \A type \in {"sma_crossover", "rsi_based", "bollinger_bands", "volatility_squeeze"} :
            ~({<<"long", type>>, <<"short", type>>} \subseteq sought)
       /\ setup.type = "sma_crossover" /\ FoundCross(setup.direction) => entered
       /\ setup.type = "bollinger_bands" /\ FoundTouch(setup.direction) => entered

TradesAreSound == TradesAreApart /\ NoLookAhead /\ LossesAreStopped

BacktestIsSound == TradesAreSound /\ CountsAgree /\ SoughtAsTested
================================================================================
