-------------------------------- MODULE PaperLoop --------------------------------
(***************************************************************************)
(* A position under the exit chain, tick after tick                        *)
(* (exit_chain/position.py, exit_conditions.py, exit_evaluator.py), in the *)
(* loop that opens, watches and closes it (paper/paper_loop.py, with       *)
(* paper_broker.py and paper_ledger.py), one loop per node of a simulation *)
(* (colony/multi_node_sim.py).                                             *)
(*                                                                         *)
(* Prices are whole numbers.  A fee of 0.25% of either side is one part in *)
(* 400, so that money is counted in such parts.  The simulated hour and    *)
(* the clock on the wall are not the same: a position ages, and its close  *)
(* is dated, by the wall.                                                  *)
(***************************************************************************)
EXTENDS Integers, Sequences, FiniteSets

CONSTANTS
  LoopNodes,     \* nodes of the simulation
  Quotes,        \* prices a tick may bring; those that are not positive are stale
  Offers,        \* entry signals: [side, entry, stop, target, suggested, refused]
  Chains,        \* exit chains, as sequences of conditions, first one first
  LoopCapital,   \* capital_limit of a mission
  MaxSize,       \* max_position_size
  MaxDrop,       \* max_drawdown_pct, in percent
  LossLimit,     \* daily_loss_limit, in parts
  LastDay,       \* bounds the days
  MaxTrades,     \* bounds the trades of a loop
  NoOffer        \* no signal

Sides == {"long", "short"}

\* EntrySignal and PaperPosition are not made with a stop or target on the wrong side.
IsEntrySignal(o) ==
  /\ o.side \in Sides
  /\ IF o.side = "long" THEN o.stop < o.entry /\ o.entry < o.target
                        ELSE o.target < o.entry /\ o.entry < o.stop

Conditions == {"daily_loss", "drawdown", "stop_loss", "ttl", "take_profit"}

\* A chain has a condition at least, and none lets a drawdown of nothing end a trade.
ASSUME LoopAssumption ==
  /\ MaxTrades \in Nat /\ LastDay \in Nat /\ NoOffer \notin Offers
  /\ \A o \in Offers : IsEntrySignal(o) /\ {o.entry, o.stop, o.target, o.suggested} \subseteq Nat \ {0}
  /\ Quotes \subseteq Int /\ LoopCapital \in Nat /\ MaxSize \in Nat /\ MaxDrop \in 1 .. 100
  /\ \A c \in Chains : c \in Seq(Conditions) /\ c # <<>>

VARIABLES
  chain,      \* the exit chain of the loops
  simDay,     \* the UTC day on the wall
  open,       \* open[n]: the open positions of the loop's ledger
  lossOf,     \* lossOf[n][d]: net losses of trades dated day d, in parts
  tradeCount, \* tradeCount[n]
  lastTrade,  \* lastTrade[n]: the position closed last
  lastQuote,  \* the last price that was not stale, 0 before the first
  quotedOver  \* history: nodes whose last trade closed over the loss limit of the day

loopVars == <<chain, simDay, open, lossOf, tradeCount, lastTrade, lastQuote, quotedOver>>

NoTrade == [reason |-> "none"]
Days    == 0 .. LastDay

LoopInit ==
  /\ chain \in Chains /\ simDay = 0
  /\ open = [n \in LoopNodes |-> {}]
  /\ lossOf = [n \in LoopNodes |-> [d \in Days |-> 0]]
  /\ tradeCount = [n \in LoopNodes |-> 0]
  /\ lastTrade = [n \in LoopNodes |-> NoTrade]
  /\ lastQuote = 0 /\ quotedOver = {}

--------------------------------------------------------------------------------
(* A position. *)

Gain(p, price) == IF p.side = "long" THEN price - p.entry ELSE p.entry - price

Better(p, price, other) == Gain(p, price) > Gain(p, other)

\* _net_pnl of a closed position, in parts.
NetPnl(p) == p.quantity * (400 * Gain(p, p.price) - (p.entry + p.price))

\* drawdown_from_peak_pct
Dropped(p) == 100 * (Gain(p, p.peak) - Gain(p, p.price)) > MaxDrop * p.peak

\* Mutant: the peak is the last price.
Moved_Forgets(p, price) == [p EXCEPT !.price = price, !.peak = price, !.before = p.price]

\* evaluate, 3: the price, and the best price seen.
Moved(p, price) ==
  [p EXCEPT !.price = price, !.before = p.price,
            !.peak = IF Better(p, price, p.peak) THEN price ELSE p.peak]

--------------------------------------------------------------------------------
(* The exit chain. *)

\* Mutant: a target is a price above the entry, whichever the side.
Triggers_Long(c, p, loss) ==
  CASE c = "daily_loss"  -> loss >= LossLimit
    [] c = "drawdown"    -> Dropped(p)
    [] c = "stop_loss"   -> Gain(p, p.price) <= Gain(p, p.stop)
    [] c = "ttl"         -> p.old
    [] c = "take_profit" -> p.price >= p.target

\* The check methods of the conditions.
Triggers(c, p, loss) ==
  CASE c = "daily_loss"  -> loss >= LossLimit
    [] c = "drawdown"    -> Dropped(p)
    [] c = "stop_loss"   -> Gain(p, p.price) <= Gain(p, p.stop)
    [] c = "ttl"         -> p.old
    [] c = "take_profit" -> Gain(p, p.price) >= Gain(p, p.target)

\* evaluate, 4 and 5: the first condition that triggers closes the position.
Evaluated(p, price, loss) ==
  LET moved == Moved(p, price)
      hits  == {k \in DOMAIN chain : Triggers(chain[k], moved, loss)}
      first == CHOOSE k \in hits : \A j \in hits : k <= j
  IN [moved EXCEPT !.reason = IF hits = {} THEN "open" ELSE chain[first]]

--------------------------------------------------------------------------------
(* The broker and the ledger. *)

Least(a, b) == IF a < b THEN a ELSE b

InUseBy(held) == LET Paid(p) == p.entry * p.quantity
                 IN IF held = {} THEN 0 ELSE Paid(CHOOSE p \in held : TRUE)

\* capital_available: a loop has one position at most, and what trades lost or gained
\* does not count.
AvailableTo(held) == IF InUseBy(held) < LoopCapital THEN LoopCapital - InUseBy(held) ELSE 0

\* _calculate_quantity
Quantity(o, available) ==
  Least(o.suggested, Least(MaxSize, Least(available, LoopCapital)) \div o.entry)

\* open_position: the position is filled at the price of the signal, whatever the market's.
Filled(o, quantity) ==
  [side |-> o.side, entry |-> o.entry, stop |-> o.stop, target |-> o.target,
   quantity |-> quantity, price |-> o.entry, peak |-> o.entry, before |-> 0,
   old |-> FALSE, reason |-> "open"]

\* _validate: a signal is refused that has expired or is out of scope.
Accepts(o, held) ==
  /\ ~o.refused /\ LoopCapital > 0 /\ AvailableTo(held) > 0
  /\ Quantity(o, AvailableTo(held)) > 0

\* tick, step 4.
Entered(o, held) ==
  IF o # NoOffer /\ held = {} /\ Accepts(o, held)
  THEN {Filled(o, Quantity(o, AvailableTo(held)))}
  ELSE held

\* record_closed, of one position: it is dated when it is closed, maybe after midnight.
LossBooked(losses, p, day) ==
  [losses EXCEPT ![day] = @ + IF NetPnl(p) < 0 THEN -NetPnl(p) ELSE 0]

--------------------------------------------------------------------------------
(* A tick of the simulation: the same price to every node, to each its own signal. *)

\* Mutant: the losses the chain looks at are those of all days.
LossSeen_AllDays(n) == lossOf[n][0] + (IF simDay > 0 THEN lossOf[n][simDay] ELSE 0)

\* make_check_context, at the start of the tick.
LossSeen(n) == lossOf[n][simDay]

EvaluatedOf(n, price) == {Evaluated(p, price, LossSeen(n)) : p \in open[n]}
ClosedOf(n, price)    == {p \in EvaluatedOf(n, price) : p.reason # "open"}
StillOpen(n, price)   == EvaluatedOf(n, price) \ ClosedOf(n, price)

LoopTick(price, offer, dated) ==
  /\ price > 0
  /\ \A n \in LoopNodes : tradeCount[n] < MaxTrades
  /\ open' = [n \in LoopNodes |-> Entered(offer[n], StillOpen(n, price))]
  /\ tradeCount' = [n \in LoopNodes |-> tradeCount[n] + Cardinality(ClosedOf(n, price))]
  /\ lastTrade' = [n \in LoopNodes |->
                     IF ClosedOf(n, price) = {} THEN lastTrade[n]
                     ELSE CHOOSE p \in ClosedOf(n, price) : TRUE]
  /\ lossOf' = [n \in LoopNodes |->
                  IF ClosedOf(n, price) = {} THEN lossOf[n]
                  ELSE LossBooked(lossOf[n], CHOOSE p \in ClosedOf(n, price) : TRUE, dated)]
  /\ quotedOver' = {n \in LoopNodes : IF ClosedOf(n, price) = {} THEN n \in quotedOver
                                      ELSE lossOf[n][simDay] >= LossLimit}
  /\ simDay' = dated
  /\ lastQuote' = price
  /\ UNCHANGED chain

\* A stale price: the simulator skips the tick, for all nodes.
StaleTick(price) == price <= 0 /\ UNCHANGED loopVars

\* Midnight; and a position whose ttl has passed on the wall.
NextSimDay ==
  /\ simDay < LastDay
  /\ simDay' = simDay + 1
  /\ UNCHANGED <<chain, open, lossOf, tradeCount, lastTrade, lastQuote, quotedOver>>

Ages(n) ==
  /\ \E p \in open[n] : ~p.old
  /\ open' = [open EXCEPT ![n] = {[p EXCEPT !.old = TRUE] : p \in @}]
  /\ UNCHANGED <<chain, simDay, lossOf, tradeCount, lastTrade, lastQuote, quotedOver>>

LoopStep ==
  \/ \E price \in Quotes : StaleTick(price)
  \/ \E price \in Quotes, offer \in [LoopNodes -> Offers \cup {NoOffer}],
        dated \in {simDay, Least(simDay + 1, LastDay)} :
       LoopTick(price, offer, dated)
  \/ NextSimDay
  \/ \E n \in LoopNodes : Ages(n)

--------------------------------------------------------------------------------
(* Properties. *)

Has(c) == \E k \in DOMAIN chain : chain[k] = c

\* The reason of a close agrees with what the trade brought, long or short: a target
\* a gain, a stop a loss, a drawdown a fall from a price at least as good as the entry.
ReasonFitsOutcome(p) ==
  /\ p.reason = "take_profit" => Gain(p, p.price) > 0
  /\ p.reason = "stop_loss" => Gain(p, p.price) < 0
  /\ p.reason = "drawdown" => Gain(p, p.peak) >= 0 /\ Better(p, p.peak, p.price)

\* A loss past the stop, under a chain that has the stop, is a gap: at the price before
\* it the stop had not been reached.
LossPastStopIsGap(p) ==
  Has("stop_loss") /\ p.before # 0 /\ Gain(p, p.price) < Gain(p, p.stop) =>
    Gain(p, p.before) > Gain(p, p.stop)

\* With a loss limit in front of the chain, every position that is closed when the loss
\* of the day has reached the limit is closed for that reason, and no other one is.
LimitEndsPositions ==
  chain[1] = "daily_loss" =>
    \A n \in LoopNodes : lastTrade[n].reason # "none" =>
      (lastTrade[n].reason = "daily_loss" <=> n \in quotedOver)

\* A position that has seen a price is one that every condition but its age lets stand
\* at that price, and its peak is the best of its prices.
OpenIsSound ==
  \A n \in LoopNodes : \A p \in open[n] : p.before # 0 =>
    /\ p.price = lastQuote
    /\ \A c \in {"drawdown", "stop_loss", "take_profit"} : Has(c) => ~Triggers(c, p, 0)
    /\ ~Better(p, p.before, p.peak) /\ ~Better(p, p.entry, p.peak)

ExitsAreSound ==
  /\ \A n \in LoopNodes : lastTrade[n].reason # "none" =>
       ReasonFitsOutcome(lastTrade[n]) /\ LossPastStopIsGap(lastTrade[n])
  /\ LimitEndsPositions /\ OpenIsSound
================================================================================
