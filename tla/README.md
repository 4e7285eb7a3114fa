# ANT COLONY v2 — verification project

TLA+ modules that translate the Python code of the colony, TLC configurations
that check them on small instances, and TLAPS proofs of results that hold for
every size. Paths below are relative to the package `ant_colony/` unless they
begin with `scripts/`, `tests/` or `docs/`. `PROJECT.json` gives, for every
definition, the lines it stands for.

## 1. The system

One Python process (`scripts/start_colony.py`) holds the colony. Its parts share
memory and a directory of JSONL logs (`ANT_LOGS`), and run in threads; only a
few of them take a lock. Everything that is not in the logs is lost in a restart.

| part | state | operations | who calls it |
|---|---|---|---|
| `ColonyScheduler` (`colony/scheduler/`) | agent records, colony status, tick lock | tick (heartbeat check, TTL check), heartbeats, registration, three kill levels, liveness watchdog | tick loop, watchdog thread, ant and supervisor threads, operator |
| supervisors (`_start_supervised_ant`), ants (`ants/*.py`), `HeartbeatThread` | restart times, status, place in the tick loop | make, register, run, tick, heartbeat, stop and join, restart, give up | one thread per supervised ant |
| `main` (`scripts/start_colony.py`), dashboard thread, `scripts/watchdog.py`, nssm | processes, the port | claim the port, start ants block by block, bind; restart a colony | operator, service manager |
| `Queen`, `NodeRegistry` | active missions, limits of biomes, nodes, Watchtower context, log numbers | issue and revoke missions, set limits, apply a plan, promote, register signals | bootstrap, promoter, advisor and rs threads, dashboard |
| makers of candidates: `IngestionAnt`, `OperatorAnt`, `ResearchAnt`, `ClaudeAnt`, `StrategyAnt` | what was seen, emitted, tried, spent | read logs and files, test, append | their ticks, some in a watched worker thread |
| `StrategyPromoter`, `KillZoneAnt` | ids seen, lines emitted in a session | promote RESEARCH → PAPER → APPROVED, issue a mission, write the approved log | promoter thread; ant's tick |
| `PaperAnt`, `PaperLedger`, `PaperBroker`, `PaperLoop`, exit chain | open positions, registered symbols and keys, what was tried | exits, entries, recovery from the logs | the ant's tick, in a worker thread; the simulator |
| equities ants: rotation, screen, hedge, sector scout, `PaperAntEquities` | rankings, ids by day, book, peaks, rests | rank, signal, enter, exit, restore | their ticks |
| `ExecutionAnt`, `LiveExecutionGate`, `BitvavoAdapter` | one open order | five checks, place an order, monitor it | the ant's tick |
| `WatchtowerAnt`, `NewsAnt`, `AuditAnt`, regime sync, `IBKRAdapter` | limits and counters in files, caches, the broker's session | poll, filter, count, compare, reconnect | ticks, and threads of their own |
| `ScoutAnt`, `TimeFilterAnt`, backtester | windows of candles, verdicts in files | signal, filter, walk bars | ticks, `ResearchAnt` |
| reset scripts | none | move or rewrite logs, restore | operator |

What is hard in it: heartbeats, registrations, kills and ticks touch the same
records without a lock; `issue_mission` checks and inserts in different steps of
unlocked threads; a tick that outlasts its watchdog is abandoned, not stopped,
and goes on beside the next; ants rebuild what they know from logs that several
lives wrote, and may die between a change and its line; limits are kept in files
written last. The hazards in `PROJECT.json` are at their lines, each with the
property that watches it.

## 2. The modules

Three compositions and three single modules carry the runs.

| module | what it models |
|---|---|
| `ColonyScheduler` | the scheduler, its loop and watchdog; ants are open: any may register or report at any moment |
| `AntSupervision` | EXTENDS it and closes it: supervisors, ant threads, heartbeat threads |
| `PaperTrading` | positions, slots and logs of a paper ant over ticks, abandoned ticks, crashes and restarts |
| **`ColonyDay`** | composes the parts around the ants: |
| `NodeRegistry`, `QueenMissions` | the register; `issue_mission` check by check in several threads, revocation, limits, plans |
| `CapitalBudget` | abstract: a mission is granted if it fits into the total |
| `ColonyBootstrap` | `main` from the missions of step 8b on, a block at a time, each of which may raise |
| `ColonyService` | processes, the port, the dashboard's watchdog thread, the watchdog service and nssm |
| `PaperLoop` | a tick of `PaperLoop` under the exit chain, one loop per node of a simulation |
| `Backtester` | the walk over the bars, and the six patterns `ResearchAnt._tick` looks for at the last of them |
| `MarketScout` | `ScoutAnt` and `TimeFilterAnt`, and the files between them |
| `ResetTools` | `reset_paper_state.py` and `reset_research_pool.py` beside a running colony |
| **`CandidateMill`** | composes the ants that read and write logs: |
| `CandidateLogs` | the ingestion, research and strategy logs, and `IngestionAnt` |
| `OperatorAnt`, `ResearchAnt`, `ClaudeAnt`, `StrategyAnt` | who makes candidates |
| `StrategyPromoter`, `KillZoneAnt`, `PaperQueues` | who takes them: promotion, the approved log, the paper ant's queues |
| `TradingDays`, `SectorRotation`, `StockScreen`, `DefensiveHedge` | time, and the three setups on equities |
| `EquitiesBook` | the sector scout and the equities paper ant |
| `LiveExecution` | the execution ant, the gate's checks one by one, and the exchange |
| `WatchtowerAnt` | the Queen's Watchtower memory with its coalescing writer; the ant |
| `NewsAnt`, `AuditTrail`, `IbkrSession` | quota of calls; numbers and gaps of logs; session and reconnect thread |
| `QueenAdvisor` | two threads that carry the regime over, and a cache; what `advise` concludes, as pure operators |
| `MC…`, `…_proofs` | constants for TLC; theorems: of the mill `CandidateMill_proofs` for makers and takers, `TradingAnts_proofs`, `WatchingAnts_proofs` |

How state and actions correspond to the code, where it is not plain:

**ColonyScheduler.** `pc[t]` is the place of the loop or the watchdog in its code;
the tests of a tick that other threads can come between (status, lock, staleness
of one agent, its abort) are steps of their own. A kill takes a copy of the keys
(colony) or walks the dictionary itself (node), in which case a registration
during the walk raises. Time is kept as ages that saturate one unit past the last
threshold they are compared with, so no behaviour is cut off.

**AntSupervision.** Fresh ids come from `Agents`; restart times are ages. `Punctual`
bounds how late threads wake and deliver (`WakeSlack`, `ReportSlack`); without it
threads may be arbitrarily late.

**QueenMissions.** Each check of `issue_mission` is an action (`CheckDuplicate` …
`CheckBiomeCapital`, `Insert`), with the walk over `_active_missions` that raises when
another thread inserts or deletes. `Sum` is a fold over the set of active missions, as
is the sum of the abstract budget; that it obeys the two equations of a sum, for any
number of missions, is proved (`SumFacts`), not assumed.

**PaperTrading.** A tick is a sequence of steps in a worker: visit the positions of
a copy of the ledger, close or keep each, screen candidates, admit them past the
guards and the cap, book, log. `CloseBooks` and `CloseLogged` are two steps, as are
`Book` and `OpenLogged`: a crash or an abandoned tick can fall between. A restart
rebuilds ledger, symbols and keys from `opened` and `closed`.

**ColonyBootstrap** asks the Queen in one step and keeps supervisors to what the
ledgers need; the modules above take both apart. The list of ledgers is replaced in two
steps, as in the code: the dashboard may look between them. **PaperQueues** says what is
tried; what comes of it is `PaperTrading`'s matter. An item is looked up, waited for and
noted in different steps; each tick has a thread of its own, and one that is left behind
goes on with the memory its successor uses. **IbkrSession** ends the reconnect thread in a
step after the one that brings the session up: a loss between the two starts no other.
**LiveExecution** has kill and revocation
as moves of its environment between any two checks.

**Backtester and PaperLoop** count money and prices in whole parts, so that a fee, a
percentage and a comparison are exact; averages, deviations and the RSI are
computed on the bars with integers, as the code does with floats.

**Ants of the mill.** What an ant keeps in memory is a variable that a restart empties
or rebuilds; what it appends is a sequence or set that stays; a worker the watchdog
left behind is a process that goes on on the same memory. What data there is,
what a backtest or a page says, and which detector fires are free choices, so the
properties hold for any. Variables named *history* in the modules are read by no
action; they record what a property speaks of.

### Compositions and casts

`CandidateMill` and `ColonyDay` are started with a `cast`: the ants, or the part, that a
behaviour is about; the others stay where they began. The casts put together are
those that share a log or a clock (an ingestion and an operator ant; research
beside ingestion, Claude or strategy ant; the equities paper ant beside its scout).
Parts that share nothing could only multiply each other's states: no property
speaks of two of them. A cast is a set of flags of the bootstrap, which are what
decides in the code which ants a colony has.

## 3. The runs

| run | instance | what it shows |
|---|---|---|
| `scheduler` | 1 agent, 2 nodes, loop and watchdog, every kill | a colony kill reaches every agent it saw; ticks are serial across the watchdog's probe; ticking resumes, overdue agents are aborted, a halted colony comes to rest |
| `supervision_punctual` | 2 ants in turn, punctual threads | no false abort; the restart budget |
| `supervision_ghosts` | 1 ant, unpunctual threads, all kills | a report after the ant's last word does not keep its record alive |
| `halt_stops_agents` | 2 ants | violated: an aborted agent's next heartbeat makes it running in a halted colony |
| `node_kill_fails` | 2 ants | violated: a registration during a node kill makes it raise |
| `colony_day` | 8 parts, one at a time | below |
| `queen_overdraft` | 2 issuers, unit missions | violated: two issuers overdraw the colony |
| `paper_restarts` | 5 positions, 2 workers, 1 restart | trades are booked once, nothing is forgotten, caps hold while ticks are serial |
| `symbols_leak` | 2 positions, 1 worker, 1 restart | violated: a closed position leaves its symbol registered |
| `candidate_mill` | 18 casts | below |
| `one_position` | the live cast | violated: an order whose answer was lost is followed by another |
| `kill_needs_operator` | 2 processes | violated: the watchdog service replaces a colony the operator killed |

`colony_day`. With one issuer beside threads that revoke, set limits, apply plans and
change the register: `CapitalHierarchy`, `BiomeHierarchy`, `AdmissionHolds`, and
`KeepsBudget`, the refinement of `CapitalBudget`. With two issuers that bring two missions
under one id (part `callers`): `AcceptedIsActive`, an accepted mission loses its place only
to an issuer that had passed the duplicate check before it was inserted. That it does lose
it, `issue_mission` telling both callers that theirs is accepted, is a state of this part
(`overtaken`), and the reason the property has an exception. `BootIsSound`: however
the blocks fail, the dashboard's ledgers are those of the ants at work, only the
news ant is unknown to the scheduler, capital has an ant unless its block raised, and
the start fails only over the unbound list. `FoundOwnersAreGone`: a colony runs ants
only when every colony it found on the port is dead. `ExitsAreSound`: the reason of
a close fits its outcome, a loss past the stop is a gap in the price, the loss limit
ends positions. `BacktestIsSound`: trades do not overlap nor look ahead, counts agree,
and a pattern found at the last bar is an entry of the backtest asked for, for the
types where the two agree (section 5). `SignalsAreNew`: once the filter has
written that trading is not allowed, the tick the scout is in may still signal and
none after it, and one rise is not signalled every second. `ResetsAreSafe`: a reset that
ends beside no ant leaves nothing to recover; a position is closed once, and once more
for every close whose line was not written (the ant died between ledger and line, or
the write failed) or when files were missing; the research log loses only lines
appended between the read and the rename of a reset, and restoring all archives brings
the rest back, but what a script that died had archived without a manifest.

`candidate_mill`. `InputIsTakenOnce` (the operator's input is ingested, and once),
`WorkedOnOnce` (an idea is tested once, a key emitted once), `SpendIsBounded` (the
budget of a month, one call over it, one more for each call whose charge is not all in the
log - it failed after it was served, was sent twice, was cut off, or its line could not be
written - and all of it once more for each time the log could not be read),
`PromotionIsOrderly`,
`DoneOncePerLife` (a kill zone's pattern is written once, a signal or candidate tried once
in the life of a paper ant, and once more for each tick left behind with it),
`RotationsAreShifts`, `OrdersTrackRegime`, `SignalledOncePerDay`,
`SymbolsMatchBook`, `LostMomentumRests`, `StopsNeverFall`, `OneOrderInSight`,
`OneOrderSlipsThrough`, `LatestContextIsWritten`, `LimitsOutliveCrashes`, `RegimeIsFollowed`,
`StallHasACause`. Several of them name an exception in their statement (an abandoned
worker, a file lost, a crash between a change and its line): without it TLC shows
the behaviour described in section 5. `MCMill` also evaluates the pure operators of
`QueenAdvisor` on all lists of three candidates over small attributes: of those
chosen first no two share a symbol or a type, and none left out is better without a
reason; without the Watchtower's word no candidate is put first and last at once,
and a mission on the symbol of one put first is to get more capital; a mission is told both
more and less only if it has several symbols. Both are theorems for every list (section 4).
No property is about `StrategyAnt` of its own: it takes its sources from the research log and
what it tests is its own affair; it is there because it is one of that log's readers and
writers, beside which `WorkedOnOnce` is checked.

Bounds and why they suffice:

* *Scheduler.* One agent on a node and another node without: the kill of either, and
  a registration during it. `TTL` 2 and interval 1 let both thresholds be met in
  either order. Safety over any number of agents is proved.
* *Supervision.* `MaxLag`, the age a delayed report may have, reaches past `StaleAge`
  (twice the interval), beyond which ages are not told apart. One restart in a window fills and empties the budget; for
  `NoFalseAbort`, interval 2 and slack 0 + 2·1 is the tight case of the assumption.
  `CHECK_DEADLOCK FALSE`: a colony whose ids are used up and whose loop has left stops.
* *Queen.* Total 2 with missions of 1 and 2 lets each check refuse and accept; two
  missions share an id. One issuer has these; two others are brought by two issuers, while
  limits stay and the register changes between calls only. Of such a race the capital
  hierarchy is kept because the missions fit together: two issuers with unit missions and
  total 1 (`queen_overdraft`) are the smallest race that breaks it; the bound for more is
  proved, as is `AcceptedIsActive` for any number of issuers.
* *Paper.* Two workers are an abandoned tick and the one after it. Five positions on one
  symbol: two of the scout path, two short, and two that collide on a key, so that a slot,
  a cap of two, a short cap of one and a key can each be the one that refuses
  (`SlotsAreKept` has a mutant for each). Their log names differ from their strategy, which a
  restart turns into a different key. One position may die of age, which recovery alone
  decides. Beside an abandoned tick a position is tried only while there are fewer than
  `MaxBeside`.
* *Processes.* Three starts: an old colony, one that replaces it, and one that comes
  between the test and the bind. Any number is proved for `FoundOwnersAreGone`.
* *Loop and laboratory.* Prices below, at, between and above every stop and target, and
  0 for stale; two trades per node, one midnight. All series of five bars, and of
  eight that begin with four quiet ones, over prices on either side of each
  threshold; windows of the indicators of 1 to 6 bars instead of 10 to 200. The scout's
  window of six candles reaches a z-score on either side of -2; with fewer none could.
* *Mill.* Two ideas, one of them reached by three ways; two lives of each ant (three of
  the equities paper ant, as its restore meets the files of several lives); one or two
  places in each queue, cap and daily limit, so that all are reached. Bounds are
  constants with names (`MaxLives`, `MaxLog`, `MaxFetches`, …) and stated where declared;
  those of the composition (`LivesBeside`, `NowBeside`, `PricesBeside`) hold for the
  equities paper ant beside its scout only: it has two lives there, so that it may die between
  the close for lost momentum and the entry the restored rest forbids; alone it has the full
  ones. Items of the paper ant's queues come in the sets of `Company`, in a market
  that refuses none, with two threads and one tick left behind (`MaxLeft`): what another
  market refuses is not tried. A candidate may have
  several records (`MaxRecords`).
  `CHECK_DEADLOCK FALSE` in both compositions: ants whose inputs are used up stop.

Fairness. Threads are scheduled by the operating system, so every thread that
can step does in the end: ticks, watchdog, a kill that has begun, ants meeting
their TTL, heartbeat threads, and time itself. In `scheduler` the loop owes less:
it may oversleep for as long as the colony runs, the case the watchdog is there
for, and wakes once it is halted. Operators, exceptions and registrations owe
nothing. Weak fairness is enough: no step the code waits for is disabled again
and again. The compositions state no fairness and no liveness: their ants depend on
networks and on operators, which owe nothing.

## 4. What is proved

For every value of the constants that satisfies the stated assumptions:

* `AntSupervision_proofs`, of the scheduler: `TypeCorrect`; `TicksAreSerial`, from `LockInv` (whoever
  is in a tick owns the lock, and the watchdog in its probe too: the probe also takes and
  gives back the lock); `ColonyKillIsThorough`, from `KillInv`.
  Of the ants and supervisors: `SupervisionImplementsScheduler` (every step of ants and
  supervisors is a call the scheduler is open to, or a stutter), so its theorems
  carry over (`SupervisedKillIsThorough`); `PunctualAntsAreSafe`: with
  `WakeSlack + 2 * ReportSlack <= HeartbeatInterval` the threshold of twice the
  interval aborts no working ant. The invariant bounds the record's silence by the
  time the heartbeat thread has waited plus the delivery of the report before.
  `RestartsAreBudgeted`, from `BudgetInv`: no more restarts are remembered than the budget, those
  out of the window included until the next one drops them from the head.
* `QueenMissions_proofs`: `QueenTypeCorrect`; `CapitalRaceIsBounded`, from an invariant that
  bounds the sum of the active missions plus one mission about to be inserted by
  the total and `MaxCapital` for every other issuer past the check whose mission asks for
  capital (one that asks for none passes even when the colony is overdrawn);
  `LoneIssuerKeepsHierarchy`; `LoneIssuerKeepsBudget`, the refinement of `CapitalBudget`;
  `AcceptedStaysActive`, for any number of issuers, from `OutrunInv`: whoever is past the
  duplicate check either brings an id that is not there, or knows (`outrun`) the mission
  inserted under it since;
  `LoneIssuerKeepsBiomes`, from the sum of a biome's missions with the one under way;
  `AdmissionIsCurrent`, for any number of issuers, from what each check has asked.
* `PaperTrading_proofs`: `PaperTypeCorrect`, `TradesAreBookedOnce`, `RestartsForgetNothing`, from
  `PaperInv`: what a worker that is not waited for has in hand is torn; a position
  that was booked as closed, and is not torn, is in no ledger and in nobody's list
  of positions to visit; an id is not given out twice. `ClosedOnce` alone is not
  inductive: it says nothing of the copies of the ledger that ticks walk. `CapsAreKept`,
  from `PaperInv` and `SlotInv`: while no tick was abandoned one worker is at work, what a
  candidate was let through for still holds when it is booked, and the caps hold of
  the positions of the ledger together with those a restart would find in the logs.
* `ColonyService`: `ColoniesFoundAreStopped`, from `OwnersInv`: while owners are being
  stopped, those of them no longer to be stopped are dead, and the dead do not
  come back.

`ColonyDay_proofs` is about `DaySpec`, the composition: a step of the day is one of the part, or
leaves its state alone.

* `ResetsKeepFiles`, from `ResetInv`: which events of a position are in which file, for every
  position and life of the ant, and what the pool script has in hand; nothing else tells that an
  ant made between two moves of a reset is the only one to meet a position again.
* `SignalsStayNew`, from `ScoutInv`: no file has a line of a session to come, and the candle of the
  last breakout is in the window, as far back as were taken since, with a high no lower than its
  price.
* `ExitsStaySound`, from `LoopInv`: a position stands at the price quoted last, where no condition on
  prices ends it, and at its entry until it saw one. That a loss past the stop is a gap needs this
  of the price *before* the close.
* `BootStaysSound`, from `BootInv`: whatever is left of a block, the list of ledgers is bound before the
  PaperAnt starts, the thread of each ant asked for with capital is still to come, the register or
  the entry in the list follows the thread (`WorkSound`, which each block's work has and each
  exception keeps, as it goes on at a next ant or ends the block); the list is one of the five
  that show at most one ledger of each paper ant, with the one of an ant
  that runs; an ant that runs unknown is about to be registered. That the list is missing at the end only after an exception is `ListInv`: until it is
  bound either the crypto block still has it to do or that block has failed.
* `BacktestStaysSound`, the whole of `BacktestIsSound`, from `WalkInv`: each trade is the one
  `_find_exit` makes of its entry, what was passed without a trade gave no signal, and once
  the walk is done the results are those of its trades. Three arguments meet in it. That the
  counts agree (`CountsFit`) is about a recursive function and about cardinalities: the three
  regimes part the trades, and the longest losing streak is a streak some trades make
  (`RunsAreStreaks`). That the ant's pattern is the backtester's entry (`SoughtIsTested`)
  is about sums, squares and the exponential average over windows of the series: both sides are shown
  to be numbers, so that the comparisons made of them split every series the same way. That a
  target wins holds if it is more than the costs on either side, with the exact bound
  `target * (10000 - Cost) > 200 * Cost`: at high costs the margin of the fee on the
  target's own price counts.

The theorems on the mill are about `MillSpec`, the composition, for any cast of ants: for each
ant a lemma says that every step of the colony is one of its own, its death, or leaves its state
alone (for the log of ideas: or appends a line of another ant), and an invariant of the ant
alone is kept by each of its steps. None of the properties is inductive as it stands; the invariant
adds what the ant remembers of its logs, or of its file:

* `CandidateMill_proofs`, the ants that make and take strategies:
  * `InputStaysTakenOnce`, from `InputIsTaken`: whoever works beside the living worker is left
    behind, and what is compared to the log and found new still is when it is written.
  * `WorkStaysOnce`, from `WorkIsOnce` (and `OpTypes`): until a tick is left behind, one worker is at
    work, what was tested is among the ids the ant has seen or has read back from the log.
  * `SpendStaysBounded`, from `SpendIsCounted`: the bill is at most what is on file, in hand, and
    one call for each that was missed, and no more than the ant has in mind, what it could not read
    and what it missed.
  * `PromotionStaysOrderly`, from `PromotionIsCounted`: a candidate's approvals are at most the
    promoters so far, and one fewer while the present one has not seen it.
  * `DoneOnceInALife`, from `WindowsAreKept` and `QueuesAreNoted`: lines and tries of the present life
    are in its memory, but for one a running tick has in hand; two ticks of one ant run at once
    only if one was left behind; earlier windows do not come back.
* `TradingAnts_proofs`:
  * `RotationsStayShifts`, from `LastIsKnown`; `SignalsStayOncePerDay`, from `BreakoutsAreSeen`;
    `OrdersStayOnTrack`, from `LastOrderIsKnown`: what each ant has in memory or restores is the last
    line of its log, or it is marked as misled.
  * `SymbolsStayWithBook`, `LostMomentumKeepsResting` and `StopsStayUp`, from one invariant,
    `BookIsSound`: what the book holds is what the logs will say once the lines under way are
    written (`BookIsLogged`); lines are under way in one of five forms (`LinesInOrder`); ids are in the
    order of the opens in the log, and an id is used again only if its line was lost
    (`IdsAreOwn`); a close for lost momentum is followed by a rest (`RestsAreKnown`); a high in the
    logs is of a position there and of a life there was (`HighsAreKnown`).
  * `OrdersStayInSight`, from `SightInv` (who looks for an order has none);
    `OneOrderAtMostIsLate`, from `LateInv`: after the late order the ant is before the
    check that will refuse the next. The bound itself is not inductive: an ant
    past the check with an order sent would send another.
* `WatchingAnts_proofs`:
  * `RegimeStaysFollowed`, from `ReadingsAreCurrent`: what is cached or in hand under the fingerprint
    of the log as it is, is its last line.
  * `LimitsStay`, from a theorem for each ant: `DailyLimitsStay` (`LimitsKnow`: the limits of a tick, or
    the file between two ticks, know every candidate of the day and the last of each asset),
    `NewsCallsStayCounted` (`CallsAreCounted`), `GapsStayToldOnce` (`GapsAreKept`: how often a gap was
    told of and may still be told of).
  * `RequestsAreNotLost`, from `WriterInv`: if the memory has changed since the writer's copy, a
    request is set or on its way.
  * `StallsAreExplained`, from `SessionInv`: a session lost in a request will be taken up by the
    one client that holds the lock, unless the thread that had brought it up is done but has not
    ended.
  * `BestAreDiverse` and `AdviceStaysConsistent`, of no state but of what the advisor computes, for every
    input: the order of candidates is shown to exist (`SortExists`: each at the place that tells how many
    rank before it) and to leave nobody out; the fold over it goes one candidate at a time
    (`TopIsTaken`), and what holds of the chosen after each (`ChosenWell`) is kept by the next, who is
    no better than those before.

The lemmas they share are on numbers and sets: `LeastOf` and `MaxOf` (a finite set of integers has
a greatest member, so `Max` is one), `DivGrows` (dates do not go back), `AppendNew`; and on
what the library defines with a CHOOSE of a function: that a sum over a finite set has a value
(`SumExists`), the one its members make in any order (`SumsAgree`, `SumMeets`), and a number
(`SumType`, `SumOfAny`); and that a recursive function on `0 .. n` has the values its equation says
(`RecursionUpTo`), as has a fold that takes the greatest of a set of numbers first (`FoldExists`).
Each is an induction from a least counterexample (`LeastNat`, `InductionUpTo`), with the predicate as
a set, as the provers take no operator for a parameter.

Assumptions on constants are named and evaluated by TLC in the runs; each module declares its own.
Those the proofs asked for and the code grants: `None` and `NoReading` are no value of
the code's (`ResearchAssumption`, `OperatorAssumption`, `SyncAssumption`); variants are ideas
(`ClaudeAssumption`); the windows of a day are in a row, each once (`KillZoneAssumption`); a signal's line
and a candidate are different things (`QueueAssumption`); there are finitely many sectors
(`RotationAssumption`); a ranking and a poll are sequences (`ScoutAssumption`, `WatchtowerAssumption`);
an exit chain is of the five conditions and not empty, and a signal's prices and size are more than 0
(`LoopAssumption`: `ExitEvaluator` and `EntrySignal` refuse others); prices of the scout are more than 0, those of a
backtest at least 0, its windows positive and its direction long or short
(`BacktestAssumption`); a name not bound yet is no list of ledgers (`BootAssumption`).

Only model-checked: liveness (`TicksResume`, `OverdueIsAborted`, `HaltQuiesces`,
`GhostsAreLaid`), since TLAPS does not reason about ENABLED. Every other property of a passing
run has a theorem, and so have the two statements `MCMill` evaluates of the advisor.

## 5. Findings

Shown by a run:

* `halt_stops_agents`: `record_heartbeat` takes the status of any heartbeat, so an agent
  a colony kill aborted counts as running again; docs/COLONY_GOVERNANCE.md:198.
* `node_kill_fails`: `_kill_node` walks a live dictionary; docs/COLONY_GOVERNANCE.md:191.
* `queen_overdraft`: capital is checked and taken in different steps of unlocked
  threads; docs/COLONY_GOVERNANCE.md:222.
* `symbols_leak`: recovery registers a symbol and a key for each position, closing
  gives back one of them; the docstring of `_has_open_position`.
* `one_position`: after an order whose answer was lost the ant goes on to the next
  candidate; ants/execution_ant.py:17.
* `kill_needs_operator`: the watchdog service takes a killed colony for one that hangs;
  docs/COLONY_GOVERNANCE.md:202.

Learnt while modelling, and visible in the actions named:

* *Colony.* Missions are accepted and ants started after a colony kill
  (`SuperviseStart`); nothing revokes the mission of an ant whose supervisor gave up.
* *Bootstrap.* An exception before `_paper_ledgers` is bound ends `main` at the context
  although the log says the start goes on; the promoter's first pass comes before
  the node is registered, its mission is refused and never asked for again; the news ant
  is never registered, so no kill reaches it. Between the test of the port and its
  bind two colonies run side by side; a clean exit of the dashboard frees the port.
* *Makers and promoter.* Ideas ingested while the research ant is down are never
  tested; two operator inputs of one second and type share a file name; the strategy ant works
  on its first sources only; mission ids are a prefix of the candidate's id and a
  second, so two collide; `issue_mission` raising ends the promoter's tick; the
  records ResearchAnt and StrategyAnt write have a format the promoter skips.
* *Queues.* Stale heads use up a tick's allowance and starve what is behind them.
* *Equities.* A restart replays every historic signal; RebalanceAnt restores the first
  order of the latest date (`misled`), against its docstring; the restored peak is the
  last read among the files of several lives; several rankings are made in a day.
* *Live.* In paper mode `get_positions` reads the real account, so a simulated order
  counts as closed at the next tick; the second look-up of the mission ends the
  ant's thread when it was revoked after check 2 (`ReadCapital`).
* *Sensors.* The Watchtower's daily limits are lost with a torn file; calls that raise
  and calls past midnight are not counted; every Queen log has gaps by construction;
  a session lost between two ticks, or just after it was brought up while the thread that did it
  still runs, is never taken up (`StallHasACause`), against the docstring of
  `_reconnect_loop`. The advisor may tell a paper mission of several symbols to get more
  and less capital in one advice.
* *Paper loop and laboratory.* The paper ant's chain lacks the loss and drawdown
  conditions, so the mission's limits on them do nothing; a TTL exit on a stale
  bar closes at 0; a flat market gives Bollinger signals; RSI 30–40, band approach, mild
  z-scores, `momentum_breakout` and `squeeze` are found by other entries than they
  are backtested with.
* *Scout and filter.* The last line of a dead filter stays in force; one hourly candle
  fills a window of twenty in twenty seconds, and a change of price is signalled
  every one of them.
* *Reset tools.* Neither script looks whether a colony runs: lines appended between the
  read and the rename are lost, and a partial move of paper files brings closed
  positions back.

## 6. Not modelled

* Allocators: weights are floating-point arithmetic; that a plan may be applied half
  is in `QueenMissions`. Laboratory reports, experiment scripts and Watchtower
  backtests: offline statistics no part of a colony reads.
* The dashboard's pages: it reads logs; the mission it issues is a caller of
  `QueenMissions`, the operator files it writes are in `OperatorAnt`, its port in `ColonyService`.
* Other biome adapters and the Watchtower client: network I/O without state of their own.
* Schemas: data classes; what they refuse is in guards and assumptions.
* Partly modelled parts (`PROJECT.json`): the paper ledger's capital and profits (in
  `PaperLoop` for the simulator, not for the paper ant), quantities and prices of live
  orders, headlines and sentiment, the audit of the scheduler's heartbeat, the advisor's
  briefings, orders and quotes of IBKR (no caller in production), the
  archive of the Queen's log.
* `flush_watchtower_state` of the Queen, which only tests call; the branch of the gate for a
  mission without capital, since the ExecutionAnt's has 500 (`start_colony.py`); records of one
  candidate that differ in whether they are ready, of which the promoter takes the first.
* Torn lines and I/O errors are modelled where a part's own state depends on one
  (filter files, Watchtower limits and context, news counter, Claude's costs, the paper ant's
  closes, the regime's line, reset scripts); elsewhere logs are taken to be written.

Next, if the project is extended: the torn last line of
every log, as one operator used by all readers; `PaperAnt` and `PaperAntEquities` restoring from one directory.
