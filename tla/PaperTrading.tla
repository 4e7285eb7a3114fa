------------------------------ MODULE PaperTrading ------------------------------
(***************************************************************************)
(* The positions of a paper ant, over its ticks and restarts               *)
(* (ant_colony/ants/paper_ant.py, paper/paper_ledger.py,                   *)
(* paper/paper_broker.py).                                                 *)
(*                                                                         *)
(* A tick runs in a worker thread.  One that outlasts the watchdog's       *)
(* timeout is abandoned, not stopped: it goes on, beside the ticks after   *)
(* it, on the same ledger and without a lock.  A supervisor or a restart   *)
(* of the colony makes a new PaperAnt, which finds its positions again in  *)
(* the logs of the old one.                                                *)
(*                                                                         *)
(* Prices, sizes and the filters on regime, session and quality decide     *)
(* only whether a position is opened or closed: those choices are free.    *)
(***************************************************************************)
EXTENDS Integers, FiniteSets

CONSTANTS
  Positions,   \* position ids
  SymbolOf,    \* the symbol of a position
  StrategyOf,  \* the strategy it is registered under, None on the scout path
  LoggedOf,    \* the strategy_type of its trade_opened: never empty, never "unknown"
  Shorts,      \* positions that are short
  Mortal,      \* positions of another biome than crypto: recovery passes over old ones
  Workers,     \* threads a tick may run in
  MaxRuns,     \* how many PaperAnts are made: bounds the restarts
  MaxOpen,     \* _MAX_OPEN_POSITIONS
  MaxShort,    \* _MAX_OPEN_SHORT_POSITIONS
  MaxBeside,   \* bounds the positions there were when one is tried beside an abandoned tick
  None         \* no strategy, no position, no worker

ASSUME PaperAssumption ==
  /\ None \notin Positions /\ None \notin Workers
  /\ MaxRuns \in Nat \ {0} /\ MaxOpen \in Nat /\ MaxShort \in Nat
  /\ IsFiniteSet(Positions)
  /\ Shorts \subseteq Positions /\ Mortal \subseteq Positions

Runs       == 1 .. MaxRuns
Symbols    == {SymbolOf[p] : p \in Positions}
Strategies == {StrategyOf[p] : p \in Positions} \cup {LoggedOf[p] : p \in Positions}
Key(p, s)  == <<SymbolOf[p], s>>

VARIABLES
  run,         \* the PaperAnt the supervisor made last
  alive,       \* whether its run method goes on
  ledger,      \* ledger[r]: _ledger._open of PaperAnt r
  symbols,     \* symbols[r]: _open_symbols
  keys,        \* keys[r]: _open_research_keys
  keyed,       \* keyed[r]: _pos_id_to_research_key, as pairs of position and strategy
  opened,      \* positions with a trade_opened in the logs
  closed,      \* positions with a trade_closed in the logs
  trades,      \* trades[p]: how often p is in the log of closed trades
  zombies,     \* open positions a recovery found too old
  pc,          \* pc[w]: where the tick in thread w is
  home,        \* home[w]: the PaperAnt whose tick that is
  todo,        \* todo[w]: positions its exit phase has still to visit
  item,        \* item[w]: the position it closes or opens
  ticking,     \* the worker the ant waits for
  torn,        \* history: positions an abandoned tick or a dead process had in hand
  overlapped   \* history: whether a tick was ever abandoned

bookVars == <<ledger, symbols, keys, keyed>>
logVars  == <<opened, closed, trades, zombies>>
antVars  == <<run, alive, ticking>>
workVars == <<pc, home, todo, item>>
vars == <<bookVars, logVars, antVars, workVars, torn, overlapped>>

PaperInit ==
  /\ run = 1 /\ alive = TRUE
  /\ ledger = [r \in Runs |-> {}] /\ symbols = [r \in Runs |-> {}]
  /\ keys = [r \in Runs |-> {}] /\ keyed = [r \in Runs |-> {}]
  /\ opened = {} /\ closed = {} /\ zombies = {}
  /\ trades = [p \in Positions |-> 0]
  /\ pc = [w \in Workers |-> "idle"]
  /\ home = [w \in Workers |-> 1]
  /\ todo = [w \in Workers |-> {}]
  /\ item = [w \in Workers |-> None]
  /\ ticking = None
  /\ torn = {} /\ overlapped = FALSE

Goto(w, label, p) == pc' = [pc EXCEPT ![w] = label] /\ item' = [item EXCEPT ![w] = p]

--------------------------------------------------------------------------------
(* The exit phase of a tick. *)

StartTick(w) ==
  /\ alive /\ ticking = None /\ pc[w] = "idle"
  /\ ticking' = w
  /\ Goto(w, "exits", None)
  /\ home' = [home EXCEPT ![w] = run]
  /\ todo' = [todo EXCEPT ![w] = ledger[run]]
  /\ UNCHANGED <<bookVars, logVars, run, alive, torn, overlapped>>

\* A position of the copy of open_positions is visited: without a price, or when
\* no condition triggers, it stays ...
KeepPosition(w) ==
  /\ pc[w] = "exits"
  /\ \E p \in todo[w] : todo' = [todo EXCEPT ![w] = @ \ {p}]
  /\ UNCHANGED <<bookVars, logVars, antVars, pc, home, item, torn, overlapped>>

\* ... or the evaluator closes the copy it was given, without asking whether the
\* ledger still has it open.
TriggerExit(w) ==
  /\ pc[w] = "exits"
  /\ \E p \in todo[w] : todo' = [todo EXCEPT ![w] = @ \ {p}] /\ Goto(w, "closing", p)
  /\ UNCHANGED <<bookVars, logVars, antVars, home, torn, overlapped>>

\* Mutant: record_closed does not take the position out of the open ones.
CloseBooks_KeepsOpen(w) ==
  /\ pc[w] = "closing"
  /\ trades' = [trades EXCEPT ![item[w]] = @ + 1]
  /\ Goto(w, "closed", item[w])
  /\ UNCHANGED <<bookVars, opened, closed, zombies, antVars, home, todo, torn, overlapped>>

\* Either the key is given up or the symbol, never both; then record_closed,
\* which appends to the trades whether the position was open or not.
FreeSlot(r, p) ==
  LET its == {s \in Strategies : <<p, s>> \in keyed[r]} IN
  IF its # {}
    THEN /\ keyed' = [keyed EXCEPT ![r] = @ \ ({p} \X its)]
         /\ keys' = [keys EXCEPT ![r] = @ \ {Key(p, s) : s \in its}]
         /\ UNCHANGED symbols
    ELSE /\ symbols' = [symbols EXCEPT ![r] = @ \ {SymbolOf[p]}]
         /\ UNCHANGED <<keys, keyed>>

CloseBooks(w) ==
  /\ pc[w] = "closing"
  /\ FreeSlot(home[w], item[w])
  /\ ledger' = [ledger EXCEPT ![home[w]] = @ \ {item[w]}]
  /\ trades' = [trades EXCEPT ![item[w]] = @ + 1]
  /\ Goto(w, "closed", item[w])
  /\ UNCHANGED <<opened, closed, zombies, antVars, home, todo, torn, overlapped>>

\* _emit_trade_closed: the event the recovery looks for.
CloseLogged(w) ==
  /\ pc[w] = "closed"
  /\ closed' = closed \cup {item[w]}
  /\ Goto(w, "exits", None)
  /\ UNCHANGED <<bookVars, opened, trades, zombies, antVars, home, todo, torn, overlapped>>

ExitsDone(w) ==
  /\ pc[w] = "exits" /\ todo[w] = {}
  /\ Goto(w, "entries", None)
  /\ UNCHANGED <<bookVars, logVars, antVars, home, todo, torn, overlapped>>

--------------------------------------------------------------------------------
(* The entry phase: scout signals, approved and research candidates. *)

\* Mutant: keys are asked for on either path.
Taken_KeysOnly(r, p) == Key(p, StrategyOf[p]) \in keys[r]

\* _has_open_position on the scout path, _has_open_research_position on the other.
Taken(r, p) ==
  IF StrategyOf[p] = None
    THEN SymbolOf[p] \in symbols[r] \cup {SymbolOf[q] : q \in ledger[r]}
    ELSE Key(p, StrategyOf[p]) \in keys[r]

\* Positions, and symbols that are registered without one.
OpenCount(r) ==
  LET held == {SymbolOf[p] : p \in ledger[r]} IN
  Cardinality(ledger[r]) + Cardinality(symbols[r] \ held)
    + Cardinality({k[1] : k \in keys[r]} \ held)

\* Ids are fresh uuids.
InUse  == opened \cup (UNION {ledger[r] : r \in Runs}) \cup {item[w] : w \in Workers}
Unused == {p \in Positions \ InUse : trades[p] = 0}

\* Mutant: no cap on the shorts.
Screen_AnyShort(w) ==
  /\ pc[w] = "entries"
  /\ overlapped => Cardinality(Positions \ Unused) < MaxBeside
  /\ \E p \in Unused : ~Taken(home[w], p) /\ Goto(w, "screened", p)
  /\ UNCHANGED <<bookVars, logVars, antVars, home, todo, torn, overlapped>>

\* A candidate passes the filters before the price is fetched.
Screen(w) ==
  /\ pc[w] = "entries"
  /\ overlapped => Cardinality(Positions \ Unused) < MaxBeside
  /\ \E p \in Unused :
       /\ ~Taken(home[w], p)
       /\ p \in Shorts => Cardinality(ledger[home[w]] \cap Shorts) < MaxShort
       /\ Goto(w, "screened", p)
  /\ UNCHANGED <<bookVars, logVars, antVars, home, todo, torn, overlapped>>

\* Mutant: the cap lets one more in.
Admit_OffByOne(w) ==
  /\ pc[w] = "screened"
  /\ ~Taken(home[w], item[w])
  /\ OpenCount(home[w]) <= MaxOpen
  /\ Goto(w, "admitted", item[w])
  /\ UNCHANGED <<bookVars, logVars, antVars, home, todo, torn, overlapped>>

\* _try_open_position, with the price: the definitive guard and the cap.
Admit(w) ==
  /\ pc[w] = "screened"
  /\ ~Taken(home[w], item[w])
  /\ OpenCount(home[w]) < MaxOpen
  /\ Goto(w, "admitted", item[w])
  /\ UNCHANGED <<bookVars, logVars, antVars, home, todo, torn, overlapped>>

\* No price, a guard or the cap in the way, a veto, or the broker refuses.
Decline(w) ==
  /\ pc[w] \in {"screened", "admitted"}
  /\ Goto(w, "entries", None)
  /\ UNCHANGED <<bookVars, logVars, antVars, home, todo, torn, overlapped>>

Book(w) ==
  LET p == item[w]
      r == home[w]
  IN
  /\ pc[w] = "admitted"
  /\ IF StrategyOf[p] = None
       THEN symbols' = [symbols EXCEPT ![r] = @ \cup {SymbolOf[p]}] /\ UNCHANGED <<keys, keyed>>
       ELSE /\ keys' = [keys EXCEPT ![r] = @ \cup {Key(p, StrategyOf[p])}]
            /\ keyed' = [keyed EXCEPT ![r] = @ \cup {<<p, StrategyOf[p]>>}]
            /\ UNCHANGED symbols
  /\ ledger' = [ledger EXCEPT ![r] = @ \cup {p}]
  /\ Goto(w, "booked", p)
  /\ UNCHANGED <<logVars, antVars, home, todo, torn, overlapped>>

\* _emit_trade_opened.  A position an abandoned tick logs for an ant that is
\* no more is in nobody's hands.
OpenLogged(w) ==
  /\ pc[w] = "booked"
  /\ opened' = opened \cup {item[w]}
  /\ torn' = IF home[w] = run THEN torn ELSE torn \cup {item[w]}
  /\ Goto(w, "entries", None)
  /\ UNCHANGED <<bookVars, closed, trades, zombies, antVars, home, todo, overlapped>>

--------------------------------------------------------------------------------
(* The ends of ticks, ants and processes. *)

TickDone(w) ==
  /\ pc[w] = "entries"
  /\ Goto(w, "idle", None)
  /\ ticking' = IF ticking = w THEN None ELSE ticking
  /\ UNCHANGED <<bookVars, logVars, run, alive, home, todo, torn, overlapped>>

\* A malformed record makes the entry phase raise: the ant's run ends, unless
\* the tick was abandoned, in which case nobody learns of it.
TickRaises(w) ==
  /\ pc[w] = "entries"
  /\ Goto(w, "idle", None)
  /\ IF ticking = w THEN ticking' = None /\ alive' = FALSE ELSE UNCHANGED <<ticking, alive>>
  /\ UNCHANGED <<bookVars, logVars, run, home, todo, torn, overlapped>>

InHand(w) == todo[w] \cup (IF pc[w] \in {"closing", "closed"} THEN {item[w]} ELSE {})

\* _run_tick_with_watchdog: the worker is left behind.
Timeout ==
  /\ ticking # None
  /\ ticking' = None
  /\ torn' = torn \cup InHand(ticking)
  /\ overlapped' = TRUE
  /\ UNCHANGED <<bookVars, logVars, run, alive, workVars>>

\* The TTL of the mission.
AntEnds ==
  /\ alive /\ ticking = None
  /\ alive' = FALSE
  /\ UNCHANGED <<bookVars, logVars, run, ticking, workVars, torn, overlapped>>

\* The process of the colony dies, with every thread.
Crash ==
  /\ alive' = FALSE /\ ticking' = None
  /\ pc' = [w \in Workers |-> "idle"]
  /\ item' = [w \in Workers |-> None]
  /\ todo' = [w \in Workers |-> {}]
  /\ torn' = torn \cup {item[w] : w \in {v \in Workers : pc[v] = "closed"}}
  /\ UNCHANGED <<bookVars, logVars, run, home, overlapped>>

\* What the logs say is open, but for the positions that are too old: those of
\* an earlier recovery, and now perhaps more.
Ages(old) == old \subseteq Mortal \cap (opened \ closed) /\ zombies' = zombies \cup old
Found     == (opened \ closed) \ zombies'

\* Mutant: the map from positions to keys is built the other way round.
Restart_SwapsMap(old) ==
  /\ ~alive /\ run < MaxRuns
  /\ Ages(old)
  /\ run' = run + 1
  /\ alive' = TRUE
  /\ ledger' = [ledger EXCEPT ![run + 1] = Found]
  /\ symbols' = [symbols EXCEPT ![run + 1] = {SymbolOf[p] : p \in Found}]
  /\ keys' = [keys EXCEPT ![run + 1] = {Key(p, LoggedOf[p]) : p \in Found}]
  /\ keyed' = [keyed EXCEPT ![run + 1] = {<<LoggedOf[p], p>> : p \in Found}]
  /\ UNCHANGED <<opened, closed, trades, ticking, workVars, torn, overlapped>>

\* Mutant: the symbols are found again, the positions are not.
Restart_EmptyLedger(old) ==
  /\ ~alive /\ run < MaxRuns
  /\ Ages(old)
  /\ run' = run + 1
  /\ alive' = TRUE
  /\ symbols' = [symbols EXCEPT ![run + 1] = {SymbolOf[p] : p \in Found}]
  /\ keys' = [keys EXCEPT ![run + 1] = {Key(p, LoggedOf[p]) : p \in Found}]
  /\ keyed' = [keyed EXCEPT ![run + 1] = {<<p, LoggedOf[p]>> : p \in Found}]
  /\ UNCHANGED <<ledger, opened, closed, trades, ticking, workVars, torn, overlapped>>

\* A new PaperAnt finds its positions in the logs.  Each gives a symbol and,
\* because every trade_opened names a strategy, a key as well.
Restart(old) ==
  /\ ~alive /\ run < MaxRuns
  /\ Ages(old)
  /\ run' = run + 1
  /\ alive' = TRUE
  /\ ledger' = [ledger EXCEPT ![run + 1] = Found]
  /\ symbols' = [symbols EXCEPT ![run + 1] = {SymbolOf[p] : p \in Found}]
  /\ keys' = [keys EXCEPT ![run + 1] = {Key(p, LoggedOf[p]) : p \in Found}]
  /\ keyed' = [keyed EXCEPT ![run + 1] = {<<p, LoggedOf[p]>> : p \in Found}]
  /\ UNCHANGED <<opened, closed, trades, ticking, workVars, torn, overlapped>>

TickStep(w) ==
  \/ StartTick(w) \/ KeepPosition(w) \/ TriggerExit(w) \/ CloseBooks(w) \/ CloseLogged(w)
  \/ ExitsDone(w) \/ Screen(w) \/ Admit(w) \/ Decline(w) \/ Book(w) \/ OpenLogged(w)
  \/ TickDone(w) \/ TickRaises(w)

PaperNext ==
  \/ \E w \in Workers : TickStep(w)
  \/ Timeout \/ AntEnds \/ Crash
  \/ \E old \in SUBSET Mortal : Restart(old)

PaperSpec == PaperInit /\ [][PaperNext]_vars

--------------------------------------------------------------------------------
(* Properties. *)

PaperTypeOK ==
  /\ run \in Runs /\ alive \in BOOLEAN /\ overlapped \in BOOLEAN
  /\ ledger \in [Runs -> SUBSET Positions]
  /\ symbols \in [Runs -> SUBSET Symbols]
  /\ keyed \in [Runs -> SUBSET (Positions \X Strategies)]
  /\ keys \in [Runs -> SUBSET (Symbols \X Strategies)]
  /\ opened \subseteq Positions /\ closed \subseteq Positions /\ torn \subseteq Positions
  /\ zombies \subseteq Mortal
  /\ trades \in [Positions -> Nat]
  /\ pc \in [Workers -> {"idle", "exits", "closing", "closed", "entries", "screened",
                         "admitted", "booked"}]
  /\ home \in [Workers -> Runs]
  /\ todo \in [Workers -> SUBSET Positions]
  /\ item \in [Workers -> Positions \cup {None}]
  /\ ticking \in Workers \cup {None}

\* A trade is booked, and its profit counted, once, unless a tick was abandoned or
\* the process died with the position in hand (_process_exits, record_closed).
ClosedOnce == \A p \in Positions : trades[p] > 1 => p \in torn

\* What the logs say is open, the ant at work watches over: restarts lose
\* nothing but what is too old (_load_open_symbols_from_logs).
BeingClosed == {item[w] : w \in {v \in Workers : pc[v] = "closed"}}
NothingForgotten ==
  alive => opened \ closed \subseteq ledger[run] \cup zombies \cup BeingClosed \cup torn

\* While ticks stay serial, restarts or not, the caps hold and a symbol has one
\* position of the scout path, and before the first restart a research strategy
\* one position per symbol (_try_open_position).
OneScoutPerSymbol ==
  \A p, q \in ledger[run] :
    StrategyOf[p] = None /\ StrategyOf[q] = None /\ SymbolOf[p] = SymbolOf[q] => p = q
OnePerKey ==
  \A p, q \in ledger[run] :
    StrategyOf[p] # None /\ Key(p, StrategyOf[p]) = Key(q, StrategyOf[q]) => p = q
SlotsAreKept ==
  ~overlapped =>
    /\ Cardinality(ledger[run]) <= MaxOpen
    /\ Cardinality(ledger[run] \cap Shorts) <= MaxShort
    /\ OneScoutPerSymbol
    /\ run = 1 => OnePerKey

\* _has_open_position: "True if a scout position is open for this symbol".  While
\* ticks stay serial, a symbol is registered only if a position on it is open.
SymbolsAreOpen ==
  ~overlapped => symbols[run] \subseteq {SymbolOf[p] : p \in ledger[run]}
================================================================================
