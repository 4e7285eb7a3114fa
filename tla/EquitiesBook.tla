----------------------------- MODULE EquitiesBook -----------------------------
(***************************************************************************)
(* The sector scout (ant_colony/ants/equities/sector_scout_ant.py), which  *)
(* ranks the sectors every few minutes, writes a snapshot of the ranking   *)
(* and one signal a day for each of the first few; and the positions of    *)
(* the equities paper ant that listens to it                               *)
(* (ant_colony/ants/paper_ant_equities.py): what it holds, the stops and   *)
(* the loss of momentum that close a position, the signals that open one,  *)
(* and what a new life makes of the logs.                                  *)
(*                                                                         *)
(* A tick checks every position, then takes in the signals of each kind.   *)
(* What it changes in memory it then writes, line by line, and may die     *)
(* before a line.  A price is one the adapter has at that moment, or none. *)
(* Entering with no capital left, or held back by the news, looks like     *)
(* having no price: the signal is spent.                                   *)
(***************************************************************************)
EXTENDS TradingDays, FiniteSets, Sequences, SequencesExt, FiniteSetsExt

CONSTANTS
  SectorRankings,   \* rankings of sectors the adapter's prices may give, best first
  SignalTop,        \* _TOP_N
  MaxSpotted        \* bounds the signals

ASSUME ScoutAssumption ==
  /\ SignalTop \in Nat \ {0} /\ MaxSpotted \in Nat
  /\ \A order \in SectorRankings : order \in Seq(Range(order))

VARIABLES
  snapshot,     \* the latest sector_ranking in the logs: its date and order
  spotted       \* the signals in the logs: symbol and date, which are their ids

scoutVars == <<snapshot, spotted>>

NoSnapshot == [day |-> 0, order |-> <<>>]

SectorScoutInit == snapshot = NoSnapshot /\ spotted = {}

\* The first n of a ranking, as a set.
FirstOf(order, n) == Range(SubSeq(order, 1, Min({n, Len(order)})))

\* _tick: the snapshot, then the signals there were none of today; one whose
\* price cannot be had is left to a later tick.  The ids the ant has given out it
\* knows for one life, but one given out again is to a reader the same signal.
SectorScoutTick ==
  \E order \in SectorRankings : \E priced \in SUBSET FirstOf(order, SignalTop) :
    /\ snapshot' = [day |-> Today, order |-> order]
    /\ spotted' = spotted \cup (priced \X {Today})
    /\ Cardinality(spotted') <= MaxSpotted

--------------------------------------------------------------------------------

CONSTANTS
  Prices,         \* prices a symbol may have
  Listed,         \* signals of other kinds in the logs: <<kind, id, symbol>>
  MaxPositions,   \* _MAX_OPEN_POSITIONS
  ExitTop,        \* the first of the ranking that keep their momentum (5)
  MissTicks,      \* _MOMENTUM_EXIT_CONSECUTIVE_TICKS
  MinHold,        \* _MOMENTUM_EXIT_MIN_HOLD_SECONDS, in the units of now
  Cooldown,       \* _MOMENTUM_EXIT_COOLDOWN_SECONDS
  TtlOf,          \* the longest a position may stay open, by the kind of its signal
  MaxBooked,      \* bounds the positions opened
  MaxBookLives    \* bounds the lives of the ant

ASSUME BookAssumption ==
  /\ Prices \subseteq Nat \ {0} /\ MaxPositions \in Nat \ {0} /\ MissTicks \in Nat \ {0}
  /\ MinHold \in Nat /\ Cooldown \in Nat /\ MaxBooked \in Nat /\ MaxBookLives \in Nat \ {0}

Kinds == <<"sector", "ranking", "listed">>
Ids   == 1 .. MaxBooked

VARIABLES
  book,        \* open positions of the ledger
  held,        \* _open_symbols
  peak,        \* _peak_prices, by position
  misses,      \* _momentum_miss_counts
  pending,     \* _momentum_exit_pending
  restUntil,   \* _momentum_cooldowns, by symbol
  taken,       \* the four sets of seen signals
  toCheck,     \* positions this tick has still to check
  toTake,      \* signals of the phase it has still to take in
  eqPhase,     \* 0 between ticks, 1 in the exits, then 1 + the kind of signal
  anyNew,      \* this tick took in a signal of the sector scout
  unwritten,   \* lines not written yet
  bookLife,    \* lives so far
  openedLog,   \* trade_opened in the logs
  closedLog,   \* trade_closed in the logs
  peakLog      \* peakLog[p][l]: the last position_update of p by life l, 0 if none

memVars  == <<book, held, peak, misses, pending, restUntil, taken>>
tickVars == <<toCheck, toTake, eqPhase, anyNew>>
diskVars == <<openedLog, closedLog, peakLog>>
bookVars == <<memVars, tickVars, unwritten, bookLife, diskVars>>

EqSymbols == (UNION {Range(r) : r \in SectorRankings}) \cup {s[3] : s \in Listed}
BookLives == 1 .. MaxBookLives

BookInit ==
  /\ book = {} /\ held = {} /\ peak = [p \in Ids |-> 0] /\ misses = [p \in Ids |-> 0]
  /\ pending = {} /\ restUntil = [s \in EqSymbols |-> 0] /\ taken = {}
  /\ toCheck = {} /\ toTake = {} /\ eqPhase = 0 /\ anyNew = FALSE
  /\ unwritten = <<>> /\ bookLife = 1
  /\ openedLog = {} /\ closedLog = {} /\ peakLog = [p \in Ids |-> [l \in BookLives |-> 0]]

Working(phase) == unwritten = <<>> /\ eqPhase = phase

\* _tick: the exits come first.
BookTick ==
  /\ Working(0)
  /\ toCheck' = book /\ eqPhase' = 1 /\ anyNew' = FALSE
  /\ UNCHANGED <<memVars, toTake, unwritten, bookLife, diskVars>>

\* The signals a phase takes from: those of the ranking only if the scout gave none.
SignalsOf(phase) ==
  CASE Kinds[phase - 1] = "sector" -> {<<"sector", s[2], s[1]>> : s \in spotted}
    [] Kinds[phase - 1] = "ranking" ->
         IF anyNew THEN {}
         ELSE {<<"ranking", snapshot.day, s>> : s \in FirstOf(snapshot.order, SignalTop)}
    [] OTHER -> Listed

PhaseDone == eqPhase > 0 /\ Working(eqPhase) /\ toCheck = {} /\ toTake = {}

NextPhase ==
  /\ PhaseDone /\ eqPhase <= Len(Kinds)
  /\ eqPhase' = eqPhase + 1 /\ toTake' = SignalsOf(eqPhase + 1) \ taken
  /\ anyNew' = (anyNew /\ eqPhase < 3)
  /\ UNCHANGED <<memVars, toCheck, unwritten, bookLife, diskVars>>

\* The tick is over: after the exits if the market is closed.
TickDone ==
  /\ PhaseDone /\ (eqPhase = 1 \/ eqPhase > Len(Kinds))
  /\ eqPhase' = 0
  /\ UNCHANGED <<memVars, toCheck, toTake, anyNew, unwritten, bookLife, diskVars>>

AgeOf(p) == now - p.at

\* The first reason there is to close a position at this price, its highest being top.
ExitOf(p, price, top) ==
  CASE price * 100 < p.entry * 93 -> "hard_stop_loss"
    [] price * 100 >= p.entry * 93 /\ price * 100 < top * 95 -> "trailing_stop"
    [] OTHER ->
         IF p.id \in pending /\ AgeOf(p) >= MinHold THEN "EXIT_MOMENTUM_LOST"
         ELSE IF AgeOf(p) >= TtlOf[p.source] THEN "ttl_trading_days" ELSE "none"

Checked(p) == Working(1) /\ p \in toCheck /\ toCheck' = toCheck \ {p}

\* _process_exits passes over a position it has no price for.
PassPosition(p) ==
  /\ Checked(p)
  /\ UNCHANGED <<memVars, toTake, eqPhase, anyNew, unwritten, bookLife, diskVars>>

\* A new high is written down before anything is made of it.
RiseOf(p, price) ==
  IF price > peak[p.id] THEN <<[what |-> "peak", id |-> p.id, price |-> price]>> ELSE <<>>

\* _update_momentum_exit_state: a position of the sector scout that is not among
\* the first of the ranking so many ticks running is marked for its exit, if it
\* is old enough by then; only the ranking takes the mark away.
Momentum(p) ==
  IF p.source # "sector" \/ p.symbol \in FirstOf(snapshot.order, ExitTop)
    THEN misses' = [misses EXCEPT ![p.id] = 0] /\ pending' = pending \ {p.id}
  ELSE IF snapshot = NoSnapshot
    THEN UNCHANGED <<misses, pending>>
  ELSE /\ misses' = [misses EXCEPT ![p.id] = Min({@ + 1, MissTicks})]
       /\ pending' = IF misses'[p.id] = MissTicks /\ AgeOf(p) >= MinHold
                       THEN pending \cup {p.id} ELSE pending

HoldPosition(p) ==
  /\ Checked(p)
  /\ \E price \in Prices :
       LET top == Max({price, peak[p.id]})
       IN /\ ExitOf(p, price, top) = "none"
          /\ peak' = [peak EXCEPT ![p.id] = top] /\ unwritten' = RiseOf(p, price)
  /\ Momentum(p)
  /\ UNCHANGED <<book, held, restUntil, taken, toTake, eqPhase, anyNew, bookLife, diskVars>>

\* _close_position.
ClosePosition(p) ==
  /\ Checked(p)
  /\ \E price \in Prices :
       LET why  == ExitOf(p, price, Max({price, peak[p.id]}))
           lost == why = "EXIT_MOMENTUM_LOST"
       IN /\ why # "none"
          /\ unwritten' = RiseOf(p, price) \o
               <<[what |-> "closed", id |-> p.id, lost |-> lost, at |-> now]>>
          /\ restUntil' = IF lost THEN [restUntil EXCEPT ![p.symbol] = now + Cooldown] ELSE restUntil
  /\ book' = book \ {p} /\ held' = held \ {p.symbol}
  /\ peak' = [peak EXCEPT ![p.id] = 0] /\ misses' = [misses EXCEPT ![p.id] = 0]
  /\ pending' = pending \ {p.id}
  /\ UNCHANGED <<taken, toTake, eqPhase, anyNew, bookLife, diskVars>>

\* The guards of _try_open_position that do not depend on a price.
MayOpen(symbol) ==
  /\ symbol \notin held
  /\ restUntil[symbol] <= now
  /\ Cardinality(book) < MaxPositions

Takes(s) ==
  /\ eqPhase > 1 /\ Working(eqPhase) /\ s \in toTake
  /\ toTake' = toTake \ {s} /\ taken' = taken \cup {s}
  /\ anyNew' = (anyNew \/ s[1] = "sector")
  /\ UNCHANGED <<misses, pending, restUntil, toCheck, eqPhase, bookLife, diskVars>>

\* A signal counts as seen whatever comes of it.
SpendSignal(s) == Takes(s) /\ UNCHANGED <<book, held, peak, unwritten>>

SourceOf(kind) == IF kind = "ranking" THEN "sector" ELSE kind

OpenPosition(s) ==
  /\ Takes(s)
  /\ MayOpen(s[3]) /\ Cardinality(openedLog) < MaxBooked
  /\ \E price \in Prices :
       LET p == [id |-> Cardinality(openedLog) + 1, symbol |-> s[3], source |-> SourceOf(s[1]),
                 entry |-> price, at |-> now]
       IN /\ book' = book \cup {p} /\ held' = held \cup {p.symbol}
          /\ peak' = [peak EXCEPT ![p.id] = price]
          /\ unwritten' = <<[what |-> "opened", position |-> p]>>

\* _write_log.
WriteLine ==
  /\ unwritten # <<>> /\ unwritten' = Tail(unwritten)
  /\ LET line == Head(unwritten)
     IN CASE line.what = "opened" ->
               openedLog' = openedLog \cup {line.position} /\ UNCHANGED <<closedLog, peakLog>>
          [] line.what = "closed" ->
               /\ closedLog' = closedLog \cup {[id |-> line.id, lost |-> line.lost, at |-> line.at]}
               /\ UNCHANGED <<openedLog, peakLog>>
          [] line.what = "peak" ->
               peakLog' = [peakLog EXCEPT ![line.id][bookLife] = line.price] /\ UNCHANGED <<openedLog, closedLog>>
  /\ UNCHANGED <<memVars, tickVars, bookLife>>

StillOpen == {p \in openedLog : \A c \in closedLog : c.id # p.id}

LoggedPeaks(i) == {peakLog[i][l] : l \in BookLives} \ {0}

\* Mutant: the highest prices start again at the entry.
RestoredPeaks_AtEntry(i) ==
  LET prices == {p.entry : p \in {p \in StillOpen : p.id = i}}
  IN IF prices = {} THEN {0} ELSE prices

\* The highest price of a position is the update that was read last, of
\* whichever life's file that is, or the entry if there is none.
RestoredPeaks(i) ==
  LET prices == {p.entry : p \in {p \in StillOpen : p.id = i}}
  IN IF prices = {} THEN {0} ELSE IF LoggedPeaks(i) # {} THEN LoggedPeaks(i) ELSE prices

\* Mutant: the symbols are not taken over.
RestoredSymbols_None == {}

RestoredSymbols == {p.symbol : p \in StillOpen}

\* Mutant: the rest is counted from the opening of the position.
RestOf_Opening(s) ==
  LET lost == {p \in openedLog : p.symbol = s /\ \E c \in closedLog : c.id = p.id /\ c.lost}
  IN Max({0} \cup {u \in {p.at + Cooldown : p \in lost} : u > now})

\* _restore_momentum_cooldowns, for one symbol.
RestOf(s) ==
  LET lost == {c \in closedLog : c.lost /\ \E p \in openedLog : p.id = c.id /\ p.symbol = s}
  IN Max({0} \cup {u \in {c.at + Cooldown : c \in lost} : u > now})

\* The ant dies at any point; the next one starts from the logs
\* (_restore_from_logs).  Which signals were seen is not in them.
BookRestart ==
  /\ bookLife < MaxBookLives /\ bookLife' = bookLife + 1
  /\ book' = StillOpen /\ held' = RestoredSymbols
  /\ peak' \in {f \in [Ids -> Prices \cup {0}] : \A i \in Ids : f[i] \in RestoredPeaks(i)}
  /\ restUntil' = [s \in EqSymbols |-> RestOf(s)]
  /\ misses' = [p \in Ids |-> 0] /\ pending' = {} /\ taken' = {}
  /\ toCheck' = {} /\ toTake' = {} /\ eqPhase' = 0 /\ anyNew' = FALSE
  /\ unwritten' = <<>>
  /\ UNCHANGED diskVars

BookStep ==
  \/ BookTick \/ NextPhase \/ TickDone \/ WriteLine \/ BookRestart
  \/ \E p \in toCheck : PassPosition(p) \/ HoldPosition(p) \/ ClosePosition(p)
  \/ \E s \in toTake : SpendSignal(s) \/ OpenPosition(s)

--------------------------------------------------------------------------------

\* The symbols the ant takes for held are those of its positions, no two
\* positions have the same symbol, there are no more than the limit, and none is
\* one the logs call closed; across deaths between a change and its line
\* (_try_open_position, _close_position, _restore_from_logs).
SymbolsMatchBook ==
  /\ held = {p.symbol : p \in book}
  /\ Cardinality(book) = Cardinality(held) /\ Cardinality(book) <= MaxPositions
  /\ \A p \in book, c \in closedLog : c.id # p.id

\* A symbol whose position was closed for lost momentum is not entered again
\* before its rest is over, by the life that closed it or by a later one, as far
\* as the close reached the logs (_set_momentum_cooldown,
\* _restore_momentum_cooldowns).
LostMomentumRests ==
  \A o \in openedLog, c \in closedLog :
    c.lost /\ c.id < o.id /\ (\E p \in openedLog : p.id = c.id /\ p.symbol = o.symbol)
      => o.at >= c.at + Cooldown

\* The highest price a trailing stop hangs on does not fall below one the logs
\* have, as long as no more than one earlier life wrote one (of several, any
\* file may be the last _restore_from_logs reads).
StopsNeverFall ==
  \A p \in book :
    /\ peak[p.id] >= p.entry
    /\ Cardinality({l \in 1 .. bookLife - 1 : peakLog[p.id][l] # 0}) <= 1 =>
         \A l \in BookLives : peakLog[p.id][l] <= peak[p.id]
================================================================================
