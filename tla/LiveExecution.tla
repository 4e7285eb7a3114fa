----------------------------- MODULE LiveExecution -----------------------------
(***************************************************************************)
(* ExecutionAnt (ant_colony/ants/execution_ant.py) and the five checks of   *)
(* LiveExecutionGate (ant_colony/execution/live_gate.py) in front of the   *)
(* adapter (ant_colony/biome/adapters/bitvavo_adapter.py).                  *)
(*                                                                         *)
(* The ant knows of one open order, in memory only, and asks the exchange  *)
(* what positions there are.  Between two checks, and between the last of  *)
(* them and the order, the colony may be halted or the mission revoked.    *)
(***************************************************************************)
EXTENDS Integers, FiniteSets, Sequences

CONSTANTS
  CandidateLists,   \* symbols proven on paper, best first, that a tick may find
  MaxLiveOrders,    \* bounds the orders accepted
  MaxLiveLives      \* bounds the lives of the ant

ASSUME LiveAssumption == MaxLiveOrders \in Nat /\ MaxLiveLives \in Nat \ {0}

VARIABLES
  paperMode,     \* BITVAVO_PAPER_MODE: the adapter simulates orders
  colonyIs,      \* the scheduler's status: "running" or "halted"
  missionIs,     \* "active": one of the queen's active ones; or "over"
  openOrder,     \* _open_order, or NoLiveOrder
  trying,        \* the candidates this tick has still to try
  liveStep,      \* "idle", "pick", the number of the next check, "send", or "ended"
  holdings,      \* orders whose position the exchange has
  sent,          \* orders accepted so far, simulated ones too
  liveLife,      \* lives so far
  lostSight,     \* history: orders the ant was not told of, or not any more
  sentSince      \* history: orders taken since the colony was halted or the mission revoked

controlVars  == <<colonyIs, missionIs>>
exchangeVars == <<holdings, sent, lostSight, sentSince>>
liveVars     == <<paperMode, controlVars, openOrder, trying, liveStep, exchangeVars, liveLife>>

NoLiveOrder == [n |-> 0]

LiveInit ==
  /\ paperMode \in BOOLEAN /\ colonyIs = "running" /\ missionIs = "active"
  /\ openOrder = NoLiveOrder /\ trying = <<>> /\ liveStep = "idle"
  /\ holdings = {} /\ sent = 0 /\ liveLife = 1 /\ lostSight = {} /\ sentSince = 0

Unwelcome == colonyIs = "halted" \/ missionIs = "over"

\* A kill command of the colony, or the end of the mission; this process undoes
\* neither.
HaltOrRevoke ==
  /\ \/ colonyIs = "running" /\ colonyIs' = "halted" /\ UNCHANGED missionIs
     \/ missionIs = "active" /\ missionIs' = "over" /\ UNCHANGED colonyIs
  /\ UNCHANGED <<paperMode, openOrder, trying, liveStep, exchangeVars, liveLife>>

\* _try_open_position reads what there is to try.
FindCandidates ==
  /\ liveStep' = "pick"
  /\ \E list \in CandidateLists : trying' = list

\* get_positions: balances with a price and worth enough, or no answer.
SymbolsSeen == {{o.symbol : o \in seen} : seen \in SUBSET holdings}

\* Mutant: no answer counts as no positions.
MonitorOrder_Trusting ==
  /\ liveStep = "idle" /\ openOrder # NoLiveOrder
  /\ \/ /\ \E seen \in SymbolsSeen : openOrder.symbol \notin seen
        /\ openOrder' = NoLiveOrder
        /\ lostSight' = lostSight \cup ({openOrder} \cap holdings)
        /\ FindCandidates
     \/ openOrder' = NoLiveOrder /\ lostSight' = lostSight /\ FindCandidates
  /\ UNCHANGED <<paperMode, controlVars, holdings, sent, sentSince, liveLife>>

\* _monitor_open_order: the position is gone when its symbol is not among those
\* seen; then the tick tries to open another.  Without an answer it goes on as
\* if nothing had changed, which is no step.
MonitorOrder ==
  /\ liveStep = "idle" /\ openOrder # NoLiveOrder
  /\ \E seen \in SymbolsSeen : openOrder.symbol \notin seen
  /\ openOrder' = NoLiveOrder
  /\ lostSight' = lostSight \cup ({openOrder} \cap holdings)
  /\ FindCandidates
  /\ UNCHANGED <<paperMode, controlVars, holdings, sent, sentSince, liveLife>>

TryOpenPosition ==
  /\ liveStep = "idle" /\ openOrder = NoLiveOrder
  /\ FindCandidates
  /\ UNCHANGED <<paperMode, controlVars, openOrder, exchangeVars, liveLife>>

NoneLeft ==
  /\ liveStep = "pick" /\ trying = <<>> /\ liveStep' = "idle"
  /\ UNCHANGED <<paperMode, controlVars, openOrder, trying, exchangeVars, liveLife>>

\* A candidate without fresh data or an order that cannot be built is passed over.
PassOver ==
  /\ liveStep = "pick" /\ trying # <<>> /\ trying' = Tail(trying)
  /\ UNCHANGED <<paperMode, controlVars, openOrder, liveStep, exchangeVars, liveLife>>

Offer ==
  /\ liveStep = "pick" /\ trying # <<>> /\ liveStep' = "check 1"
  /\ UNCHANGED <<paperMode, controlVars, openOrder, trying, exchangeVars, liveLife>>

Reject == liveStep' = "pick" /\ trying' = Tail(trying)

Accept(next) == liveStep' = next /\ UNCHANGED trying

\* The checks of execute, in their order: the colony, the mission, the mission's
\* capital, the age of the data, the adapter.  Any outcome of the last two.
CheckColony ==
  /\ liveStep = "check 1"
  /\ IF colonyIs = "halted" THEN Reject ELSE Accept("check 2")
  /\ UNCHANGED <<paperMode, controlVars, openOrder, exchangeVars, liveLife>>

CheckMission ==
  /\ liveStep = "check 2"
  /\ IF missionIs = "active" THEN Accept("check 3") ELSE Reject
  /\ UNCHANGED <<paperMode, controlVars, openOrder, exchangeVars, liveLife>>

CheckDataAndAdapter ==
  /\ \/ liveStep = "check 4" /\ Accept("check 5")
     \/ liveStep = "check 5" /\ Accept("send")
     \/ liveStep \in {"check 4", "check 5"} /\ Reject
  /\ UNCHANGED <<paperMode, controlVars, openOrder, exchangeVars, liveLife>>

\* Check 3 looks the mission up a second time; gone by then, the exception ends
\* the ant.  The one mission the ant is given has capital (500, of the bootstrap), so that it
\* is not refused for having none.
ReadCapital ==
  /\ liveStep = "check 3"
  /\ liveStep' = IF missionIs = "active" THEN "check 4" ELSE "ended"
  /\ UNCHANGED <<paperMode, controlVars, openOrder, trying, exchangeVars, liveLife>>

NewOrder == [n |-> sent + 1, symbol |-> Head(trying)]

\* The exchange takes an order of the live adapter; the simulated one it never
\* sees.
Taken ==
  /\ sent < MaxLiveOrders /\ sent' = sent + 1
  /\ holdings' = IF paperMode THEN holdings ELSE holdings \cup {NewOrder}
  /\ sentSince' = IF Unwelcome THEN sentSince + 1 ELSE 0

TakesOrder ==
  /\ liveStep = "send" /\ Taken
  /\ openOrder' = NewOrder /\ liveStep' = "idle" /\ trying' = <<>>
  /\ UNCHANGED <<paperMode, controlVars, lostSight, liveLife>>

\* Mutant: the checks were made for the tick.
AdapterError_Checked ==
  /\ liveStep = "send" /\ ~paperMode /\ Taken
  /\ lostSight' = lostSight \cup {NewOrder}
  /\ trying' = Tail(trying) /\ liveStep' = IF trying' = <<>> THEN "pick" ELSE "send"
  /\ UNCHANGED <<paperMode, controlVars, openOrder, liveLife>>

\* _place_live_order fails after the exchange took the order; the ant goes on to
\* the next candidate.
AdapterError ==
  /\ liveStep = "send" /\ ~paperMode /\ Taken
  /\ lostSight' = lostSight \cup {NewOrder}
  /\ Reject
  /\ UNCHANGED <<paperMode, controlVars, openOrder, liveLife>>

\* Refused by the exchange, or an error before it had the order.
NotTaken ==
  /\ liveStep = "send" /\ Reject
  /\ UNCHANGED <<paperMode, controlVars, openOrder, exchangeVars, liveLife>>

\* Nothing in the ant sells: a position ends by other hands.
PositionEnds ==
  /\ \E o \in holdings : holdings' = holdings \ {o} /\ lostSight' = lostSight \ {o}
  /\ UNCHANGED <<paperMode, controlVars, openOrder, trying, liveStep, sent, sentSince, liveLife>>

\* The mission's time is up.
LiveEnds ==
  /\ liveStep = "idle" /\ liveStep' = "ended"
  /\ UNCHANGED <<paperMode, controlVars, openOrder, trying, exchangeVars, liveLife>>

\* The colony starts anew: no thread starts the ant again before.
LiveRestart ==
  /\ liveLife < MaxLiveLives /\ liveLife' = liveLife + 1
  /\ liveStep' = "idle" /\ trying' = <<>> /\ openOrder' = NoLiveOrder
  /\ lostSight' = lostSight \cup holdings
  /\ colonyIs' = "running" /\ missionIs' = "active" /\ sentSince' = 0
  /\ UNCHANGED <<paperMode, holdings, sent>>

LiveStep ==
  \/ HaltOrRevoke \/ MonitorOrder \/ TryOpenPosition \/ NoneLeft \/ PassOver \/ Offer
  \/ CheckColony \/ CheckMission \/ CheckDataAndAdapter \/ ReadCapital
  \/ TakesOrder \/ AdapterError \/ NotTaken \/ PositionEnds \/ LiveEnds \/ LiveRestart

LiveSpec == LiveInit /\ [][LiveStep]_liveVars

--------------------------------------------------------------------------------

\* At most one position at the exchange is of the ant's making and none it was
\* told of is unknown to it, but for orders whose answer was lost, that
\* get_positions did not show, or of an earlier life (_open_order,
\* _monitor_open_order: no answer is not "closed").
OneOrderInSight == holdings \ lostSight \subseteq {openOrder}

\* However the checks of execute are interleaved with a kill or the end of the
\* mission, and however many candidates the tick has left, no more than one order
\* is taken after it.
OneOrderSlipsThrough == sentSince <= 1

\* What the ant's description says of it (execution_ant.py:17): no more than one
\* open position at a time.
OneOpenPosition == Cardinality(holdings) <= 1
================================================================================
