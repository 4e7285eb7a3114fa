------------------------------- MODULE ClaudeAnt -------------------------------
(***************************************************************************)
(* The ant that pays for opinions on the best candidates                   *)
(* (ant_colony/ants/claude_ant.py).  It counts what it spends in memory    *)
(* and in a log of costs, from which a new ant reads what the month has    *)
(* cost so far.  Money is in units; a unit of cost is at most MaxCost.     *)
(***************************************************************************)
EXTENDS CandidateLogs

CONSTANTS
  Budget,       \* CLAUDE_ANT_MONTHLY_BUDGET_EUR
  MaxCost,      \* the most one call can cost, what the client sends again included
  MinResearch,  \* _PIPELINE_MIN_RESEARCH
  TopN,         \* _TOP_N_CANDIDATES
  Sharpe,       \* the sharpe ratio of the candidates of a key
  Variants,     \* ids of the improved variants, fresh uuids
  MaxMonths,    \* bounds the months
  MaxMissed     \* bounds the calls and the readings a month's count can miss

ASSUME ClaudeAssumption ==
  /\ Budget \in Nat \ {0} /\ MaxCost \in Nat \ {0} /\ MinResearch \in Nat
  /\ MaxMonths \in Nat /\ MaxMissed \in Nat /\ Variants \subseteq Ideas

VARIABLES
  claudePc,     \* tick, calling, paid, writing, stopped, or dead with the process
  claudeMonth,  \* _month_cost_eur
  claudeTotal,  \* _total_cost_eur
  claudeBatch,  \* _last_candidate_ids
  claudeReady,  \* whether the rate limit lets a call through
  owed,         \* cost_eur of the call in hand
  costs,        \* costs.jsonl, the sum of the lines of this month
  total,        \* total_costs.json
  bill,         \* what the service charges for this month
  missed,       \* history: calls of this month not all of whose charge is in the log
  misread,      \* history: times in this month a new ant could not read the log
  months        \* how many months have ended

spendVars  == <<costs, total, bill, missed, misread, months>>
claudeVars == <<claudePc, claudeMonth, claudeTotal, claudeBatch, claudeReady, owed, spendVars>>

ClaudeInit ==
  /\ claudePc = "tick" /\ claudeMonth = 0 /\ claudeTotal = 0 /\ claudeBatch = {} /\ claudeReady = TRUE
  /\ owed = 0 /\ costs = 0 /\ total = 0 /\ bill = 0
  /\ missed = 0 /\ misread = 0 /\ months = 0

\* The best candidates of the log; of equals, the first (_read_top_candidates).
Ahead(m, n) ==
  LET a == Sharpe[research[m].key]
      b == Sharpe[research[n].key]
  IN a > b \/ (a = b /\ m < n)
TopCandidates == {n \in DOMAIN research : Cardinality({m \in DOMAIN research : Ahead(m, n)}) < TopN}

\* The wait since the last call, longer the more is spent, is over.
WaitIsOver ==
  /\ ~claudeReady /\ claudePc = "tick"
  /\ claudeReady' = TRUE
  /\ UNCHANGED <<claudePc, claudeMonth, claudeTotal, claudeBatch, owed, spendVars, logVars>>

\* The budget is used up, or the TTL: the ant stops itself.
ClaudeStops ==
  /\ claudePc = "tick"
  /\ claudePc' = "stopped"
  /\ UNCHANGED <<claudeMonth, claudeTotal, claudeBatch, claudeReady, owed, spendVars, logVars>>

\* Budget left, enough candidates, the wait over and another batch than before.
\* Batch and time of the call are noted before it is made.
Consult ==
  /\ claudePc = "tick" /\ claudeMonth < Budget /\ claudeReady
  /\ Len(research) >= MinResearch
  /\ TopCandidates \notin {{}, claudeBatch}
  /\ claudeBatch' = TopCandidates
  /\ claudePc' = "calling" /\ claudeReady' = FALSE
  /\ UNCHANGED <<claudeMonth, claudeTotal, owed, spendVars, logVars>>

\* The service charges c for a call, of which p can be counted.
Misses(c, p) ==
  /\ missed' = IF p < c THEN missed + 1 ELSE missed
  /\ missed' <= MaxMissed

\* The call ends in an exception, or its answer does.  The service may have charged
\* for it, or for a request the client gave up: none of it is counted.  This batch
\* is not tried again.
CallFails ==
  /\ claudePc = "calling"
  /\ \E c \in 0 .. MaxCost : bill' = bill + c /\ Misses(c, 0)
  /\ claudePc' = "tick"
  /\ UNCHANGED <<claudeMonth, claudeTotal, claudeBatch, claudeReady, owed, costs, total, misread, months,
                 logVars>>

\* The ant counts what the answer says it used, if it says; a request that was sent
\* again is not in it.
CallCosts ==
  /\ claudePc = "calling"
  /\ \E c \in 0 .. MaxCost : \E p \in 0 .. c :
       /\ bill' = bill + c /\ owed' = p /\ Misses(c, p)
       /\ claudeMonth' = claudeMonth + p /\ claudeTotal' = claudeTotal + p
  /\ claudePc' = "paid"
  /\ UNCHANGED <<claudeBatch, claudeReady, costs, total, misread, months, logVars>>

\* _append_cost_record and _save_total_costs; a line that cannot be written is left
\* out, and so is the total.
RecordCost ==
  /\ claudePc = "paid"
  /\ \/ costs' = costs + owed /\ UNCHANGED missed
     \/ UNCHANGED costs /\ Misses(owed, 0)
  /\ total' \in {total, claudeTotal}
  /\ owed' = 0
  /\ claudePc' = "writing"
  /\ UNCHANGED <<claudeMonth, claudeTotal, claudeBatch, claudeReady, bill, misread, months, logVars>>

\* A variant of the answer goes into the ingestion log, without exit indicators.
WriteVariant ==
  /\ claudePc = "writing"
  /\ \E i \in Variants \ Ingested : Ingest(i, "claude")
  /\ UNCHANGED claudeVars

VariantsDone ==
  /\ claudePc = "writing"
  /\ claudePc' = "tick"
  /\ UNCHANGED <<claudeMonth, claudeTotal, claudeBatch, claudeReady, owed, spendVars, logVars>>

\* The calendar, taken not to turn during a call.  The ant's memory goes on.
MonthEnds ==
  /\ months < MaxMonths /\ claudePc \notin {"calling", "paid"}
  /\ months' = months + 1
  /\ costs' = 0 /\ bill' = 0 /\ missed' = 0 /\ misread' = 0
  /\ UNCHANGED <<claudePc, claudeMonth, claudeTotal, claudeBatch, claudeReady, owed, total, logVars>>

\* Mutant: a new ant starts the month at zero.
ClaudeRestart_Zero ==
  /\ claudePc = "dead"
  /\ claudePc' = "tick"
  /\ claudeMonth' = 0
  /\ claudeTotal' = IF total > costs THEN total ELSE costs
  /\ claudeBatch' = {} /\ claudeReady' = TRUE /\ owed' = 0
  /\ UNCHANGED <<spendVars, logVars>>

\* A new ClaudeAnt reads what the month has cost, nothing if the log cannot be read,
\* and the total if it can and that is more.
ClaudeRestart ==
  /\ claudePc = "dead"
  /\ claudePc' = "tick"
  /\ \/ claudeMonth' = costs /\ UNCHANGED misread
     \/ misread < MaxMissed /\ claudeMonth' = 0 /\ misread' = misread + 1
  /\ claudeTotal' \in {claudeMonth', IF total > claudeMonth' THEN total ELSE claudeMonth'}
  /\ claudeBatch' = {} /\ claudeReady' = TRUE /\ owed' = 0
  /\ UNCHANGED <<costs, total, bill, missed, months, logVars>>

\* The process dies.  A call that is out may be charged for, and what was not
\* appended is in no log.
ClaudeDies ==
  /\ claudePc' = "dead"
  /\ CASE claudePc = "calling" -> \E c \in 0 .. MaxCost : bill' = bill + c /\ Misses(c, 0)
       [] claudePc = "paid"    -> Misses(owed, 0) /\ UNCHANGED bill
       [] OTHER                -> UNCHANGED <<bill, missed>>
  /\ owed' = 0
  /\ UNCHANGED <<claudeMonth, claudeTotal, claudeBatch, claudeReady, costs, total, misread, months>>

ClaudeStep ==
  \/ WaitIsOver \/ ClaudeStops \/ Consult \/ CallFails \/ CallCosts \/ RecordCost
  \/ WriteVariant \/ VariantsDone \/ MonthEnds \/ ClaudeRestart

--------------------------------------------------------------------------------
(* Properties. *)

\* A month costs less than the budget and one call, and one call more for each call
\* whose charge is not, or not all, in the log of costs; each time a new ant cannot
\* read that log lets it all be spent once more (the budget check of _tick,
\* _load_month_costs).
Allowed        == Budget - 1 + MaxCost
SpendIsBounded == bill <= Allowed + misread * Allowed + missed * MaxCost
================================================================================
