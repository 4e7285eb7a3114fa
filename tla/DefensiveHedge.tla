---------------------------- MODULE DefensiveHedge ----------------------------
(***************************************************************************)
(* Setup 3: VolatilityAnt names the regime of the day from the VIX         *)
(* (ant_colony/ants/equities/volatility_ant.py), DividendScoutAnt screens  *)
(* the aristocrats (dividend_scout_ant.py), and RebalanceAnt orders target *)
(* weights when the regime changes or a quarter has passed                 *)
(* (rebalance_ant.py).                                                     *)
(***************************************************************************)
EXTENDS TradingDays, FiniteSets, Sequences, SequencesExt, FiniteSetsExt

CONSTANTS
  Vix,            \* values the VIX may have
  Aristocrats,    \* _DIVIDEND_ARISTOCRATS
  Quarter,        \* _QUARTERLY_DAYS
  MaxHedgeLives,  \* bounds the lives of either ant
  MaxOrders       \* bounds the orders

ASSUME HedgeAssumption == Quarter \in Nat \ {0} /\ MaxHedgeLives \in Nat \ {0}

VARIABLES
  vixSignals,     \* vixSignals[d]: the regimes in the logs for day d, one per life
  vixDates,       \* _emitted_dates of the volatility ant's life
  payers,         \* symbols in the logs of the dividend scout
  orders,         \* the rebalance orders in the logs, in the order they came
  lastOrder,      \* _last_rebalance_date and _last_vix_regime
  regimeRead,     \* the regime of its last tick (_last_action)
  rbLife,         \* lives of the rebalance ant so far
  misled          \* history: this life began with an order that was not the last

hedgeVars == <<vixSignals, vixDates, payers, orders, lastOrder, regimeRead, rbLife, misled>>

NoOrder == [day |-> 0, regime |-> "none"]

HedgeInit ==
  /\ vixSignals = [d \in Days |-> {}] /\ vixDates = {} /\ payers = {}
  /\ orders = <<>> /\ lastOrder = NoOrder /\ regimeRead = "none"
  /\ rbLife = 1 /\ misled = FALSE

\* _classify_vix.
RegimeOf(vix) ==
  CASE vix > 35 -> "REDUCE_EQUITY" [] 25 < vix /\ vix <= 35 -> "HEDGE" [] OTHER -> "NORMAL"

\* _tick of VolatilityAnt: one signal per day and life.
VolatilityTick ==
  /\ Today \notin vixDates
  /\ \E vix \in Vix : vixSignals' = [vixSignals EXCEPT ![Today] = @ \cup {RegimeOf(vix)}]
  /\ vixDates' = vixDates \cup {Today}
  /\ UNCHANGED <<payers, orders, lastOrder, regimeRead, rbLife, misled>>

VolatilityRestart ==
  /\ vixDates' = {}
  /\ UNCHANGED <<vixSignals, payers, orders, lastOrder, regimeRead, rbLife, misled>>

\* _tick of DividendScoutAnt: what passes the screen is written, again every
\* time; nothing takes a symbol out.
DividendTick ==
  /\ \E found \in SUBSET Aristocrats : payers' = payers \cup found
  /\ UNCHANGED <<vixSignals, vixDates, orders, lastOrder, regimeRead, rbLife, misled>>

\* _load_latest_vix_regime: of the latest day, the first line it comes upon; no
\* line counts as normal.
LatestRegimes ==
  LET days == {d \in Days : vixSignals[d] # {}}
  IN IF days = {} THEN {"NORMAL"} ELSE vixSignals[Max(days)]

Triggers(regime) ==
  \/ lastOrder = NoOrder
  \/ Today - lastOrder.day >= Quarter
  \/ regime # lastOrder.regime

\* Mutant: the regime the order is for is not remembered.
RebalanceTick_KeepsRegime ==
  \E regime \in LatestRegimes :
    /\ regimeRead' = regime
    /\ IF Triggers(regime)
         THEN /\ Len(orders) < MaxOrders
              /\ orders' = Append(orders,
                   [day |-> Today, regime |-> regime, life |-> rbLife, blind |-> misled])
              /\ lastOrder' = [day |-> Today,
                               regime |-> IF lastOrder = NoOrder THEN regime ELSE lastOrder.regime]
         ELSE UNCHANGED <<orders, lastOrder>>
    /\ UNCHANGED <<vixSignals, vixDates, payers, rbLife, misled>>

\* _tick of RebalanceAnt.  Its first order after a restart corrects what it
\* believes.
RebalanceTick ==
  \E regime \in LatestRegimes :
    /\ regimeRead' = regime
    /\ IF Triggers(regime)
         THEN /\ Len(orders) < MaxOrders
              /\ orders' = Append(orders,
                   [day |-> Today, regime |-> regime, life |-> rbLife, blind |-> misled])
              /\ lastOrder' = [day |-> Today, regime |-> regime]
              /\ misled' = FALSE
         ELSE UNCHANGED <<orders, lastOrder, misled>>
    /\ UNCHANGED <<vixSignals, vixDates, payers, rbLife>>

\* _restore_state: of the latest date, the first order of some file.
Restorable ==
  {n \in DOMAIN orders :
     /\ \A m \in DOMAIN orders : orders[m].day <= orders[n].day
     /\ \A m \in 1 .. n - 1 : orders[m].day = orders[n].day => orders[m].life # orders[n].life}

RebalanceRestart ==
  /\ rbLife < MaxHedgeLives
  /\ rbLife' = rbLife + 1 /\ regimeRead' = "none"
  /\ IF orders = <<>>
       THEN lastOrder' = NoOrder /\ misled' = FALSE
       ELSE \E n \in Restorable :
              /\ lastOrder' = [day |-> orders[n].day, regime |-> orders[n].regime]
              /\ misled' = (orders[n].regime # Last(orders).regime)
  /\ UNCHANGED <<vixSignals, vixDates, payers, orders>>

HedgeStep ==
  \/ VolatilityTick \/ VolatilityRestart \/ DividendTick
  \/ RebalanceTick \/ RebalanceRestart

\* Unless a restart went by an order of the latest day that was not its last
\* (_restore_state keeps the first it finds, against its own docstring), an order
\* is for another regime than the one before it or comes a quarter later, and
\* after a tick the last order is for the regime that tick read.
OrdersTrackRegime ==
  /\ \A n \in 2 .. Len(orders) :
       \/ orders[n].blind
       \/ orders[n].regime # orders[n - 1].regime
       \/ orders[n].day - orders[n - 1].day >= Quarter
  /\ regimeRead # "none" /\ ~misled => Last(orders).regime = regimeRead
================================================================================
