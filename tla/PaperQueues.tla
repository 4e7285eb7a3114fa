------------------------------- MODULE PaperQueues -------------------------------
(***************************************************************************)
(* What the paper ant does with what others write for it: the signals of   *)
(* the scouts, the approved log and the research log                       *)
(* (_process_new_signals, _process_approved_candidates and                 *)
(* _process_research_candidates in ant_colony/ants/paper_ant.py).          *)
(* Each log is read from the top in every tick, and what was dealt with is *)
(* kept in memory.  What becomes of an item that is tried is the matter of *)
(* PaperTrading; here it only takes its symbol, or does not.               *)
(*                                                                         *)
(* A tick runs in a thread of its own.  One that takes too long is left    *)
(* behind (_run_tick_with_watchdog): it goes on, with the memory of its    *)
(* ant, while the next is begun.  Between looking an item up in that       *)
(* memory and noting it there a tick may wait for prices and regimes.      *)
(* A log that cannot be read is left out, and so are all of them outside   *)
(* the hours of the market.                                                *)
(***************************************************************************)
EXTENDS Integers, FiniteSets, Sequences

CONSTANTS
  Spotted,     \* ids of scout signals
  Lines,        \* lines of the approved log, numbers in the order of the files and in them
  IdOfLine,     \* the candidate a line is about
  Accepted,     \* ids of accepted research candidates
  QSymbols,     \* symbols
  SymbolOfItem, \* the symbol of a signal, a line or a candidate
  Scope,        \* the symbols of the mission
  Regimes,      \* what the Queen may say about the market
  NoRegime,     \* no word of hers
  ShortItems,   \* lines and candidates that are short
  Sideways,     \* items with a strategy for a sideways market
  Sharp,        \* items whose sharpe ratio is enough for a volatile market
  MaxPerTick,   \* _MAX_APPROVED_PER_TICK
  QWorkers,     \* threads for the ticks, no more at a time than these
  Company,      \* bounds the items that come together
  MaxLeft,      \* bounds the ticks left behind
  MaxPapers     \* bounds the paper ants

Items == Spotted \cup Lines \cup Accepted
Papers == 1 .. MaxPapers

ASSUME QueueAssumption ==
  /\ Lines \subseteq Nat /\ Lines \cap (Spotted \cup Accepted) = {} /\ SymbolOfItem \in [Items -> QSymbols]
  /\ MaxPerTick \in Nat \ {0} /\ MaxLeft \in Nat /\ MaxPapers \in Nat \ {0}

VARIABLES
  age,        \* age[i]: absent, fresh, or stale: 5 minutes old, a line 24 hours
  qSeen,      \* qSeen[p]: _processed_signals and _seen_research_ids of ant p
  qSeenIds,   \* qSeenIds[p]: _seen_approved_ids
  qSymbols,   \* qSymbols[p]: symbols with an open position in its ledger
  qTick,      \* qTick[w]: how far the tick in thread w is, and whose it is
  qEnded,     \* whether a tick that failed has ended the present ant
  papers,     \* history: paper ants made so far, the last the present one
  ticksLeft, \* history: ticks left behind
  tries       \* history: tries[i]: the tries of item i, by which ant's tick, if it is
              \* not over in which thread, and whether it was left behind

qMemory == <<qSeen, qSeenIds>>
qLife   == <<qEnded, papers, ticksLeft>>
qVars   == <<age, qMemory, qSymbols, qTick, qLife, tries>>

\* hand: the item in hand; done: its tick has tried it, or noted it; todo: the signals
\* it has read; pos: the last line it looked at; count: the lines and candidates so far.
NoTick == [phase |-> "none", ant |-> 1, left |-> FALSE, hand |-> {}, done |-> FALSE,
           todo |-> {}, pos |-> 0, count |-> 0, regime |-> NoRegime]

QueuesInit ==
  /\ age = [i \in Items |-> "absent"]
  /\ qSeen = [p \in Papers |-> {}] /\ qSeenIds = [p \in Papers |-> {}]
  /\ qSymbols = [p \in Papers |-> {}]
  /\ qTick = [w \in QWorkers |-> NoTick]
  /\ qEnded = FALSE /\ papers = 1 /\ ticksLeft = 0
  /\ tries = [i \in Items |-> <<>>]

Arrive(i) ==
  /\ age[i] = "absent"
  /\ \E S \in Company : i \in S /\ {j \in Items : age[j] # "absent"} \subseteq S
  /\ age' = [age EXCEPT ![i] = "fresh"]
  /\ UNCHANGED <<qMemory, qSymbols, qTick, qLife, tries>>

GrowStale(i) ==
  /\ age[i] = "fresh"
  /\ age' = [age EXCEPT ![i] = "stale"]
  /\ UNCHANGED <<qMemory, qSymbols, qTick, qLife, tries>>

\* No tick runs but those left behind.
OnlyLeft == \A w \in QWorkers : qTick[w].phase = "none" \/ qTick[w].left

\* The ant begins a tick when the last is over or left behind, and reads the regime.
BeginTick(w) ==
  /\ ~qEnded /\ OnlyLeft /\ qTick[w].phase = "none"
  /\ \E r \in Regimes :
       qTick' = [qTick EXCEPT ![w] = [NoTick EXCEPT !.phase = "scouts", !.ant = papers, !.regime = r]]
  /\ UNCHANGED <<age, qMemory, qSymbols, qLife, tries>>

\* The tick of w goes on as t; what it tried is marked.
Goes(w, t) == qTick' = [qTick EXCEPT ![w] = t]
MarkOver(W) ==
  tries' = [i \in Items |-> [n \in DOMAIN tries[i] |->
              [tries[i][n] EXCEPT !.by = @ \ W]]]
MarkLeft(w) ==
  tries' = [i \in Items |-> [n \in DOMAIN tries[i] |->
              [tries[i][n] EXCEPT !.left = (@ \/ w \in tries[i][n].by)]]]

\* The watchdog waits no longer for the tick.
LeaveBehind(w) ==
  /\ qTick[w].phase # "none" /\ ~qTick[w].left
  /\ ticksLeft < MaxLeft /\ ticksLeft' = ticksLeft + 1
  /\ Goes(w, [qTick[w] EXCEPT !.left = TRUE]) /\ MarkLeft(w)
  /\ UNCHANGED <<age, qMemory, qSymbols, qEnded, papers>>

\* An exception ends the tick and its ant; of a tick left behind nobody hears.
TickFails(w) ==
  /\ qTick[w].phase # "none"
  /\ qEnded' = (qEnded \/ ~qTick[w].left)
  /\ Goes(w, NoTick) /\ MarkOver({w})
  /\ UNCHANGED <<age, qMemory, qSymbols, papers, ticksLeft>>

\* The exits of a tick, which come first.
CloseSymbol(w, s) ==
  LET t == qTick[w] IN
  /\ t.phase = "scouts" /\ t.hand = {} /\ s \in qSymbols[t.ant]
  /\ qSymbols' = [qSymbols EXCEPT ![t.ant] = @ \ {s}]
  /\ UNCHANGED <<age, qMemory, qTick, qLife, tries>>

\* _is_entry_allowed_by_regime, _is_short_allowed_by_regime
RegimeAllows(r, i) ==
  IF i \in ShortItems THEN r \in {"SIDEWAYS", "BEAR", "BEARISH", "RISK_OFF"}
  ELSE CASE r = "SIDEWAYS" -> i \in Sideways
         [] r = "VOLATILE" -> i \in Sharp \cup Spotted
         [] OTHER -> TRUE

\* Found fresh, the regime willing, and, but for a candidate of the research log, its
\* symbol free.
Fresh == {i \in Items : age[i] = "fresh"}

MayTry(w, i) ==
  /\ RegimeAllows(qTick[w].regime, i)
  /\ i \notin Accepted => SymbolOfItem[i] \notin qSymbols[qTick[w].ant]

\* The tick of w tries item i, which may take its symbol.
Try(w, i) ==
  LET p == qTick[w].ant IN
  /\ MayTry(w, i)
  /\ tries' = [tries EXCEPT ![i] = Append(@, [ant |-> p, by |-> {w}, left |-> qTick[w].left])]
  /\ \E took \in SUBSET {SymbolOfItem[i]} : qSymbols' = [qSymbols EXCEPT ![p] = @ \cup took]

\* An item of S that has come and is not among the seen.
NewIn(S, seen) == {i \in S : age[i] # "absent" /\ i \notin seen}

\* Every new signal is looked up and noted; one in scope is kept for what follows.
LookSignal(w, i) ==
  LET t == qTick[w] IN
  /\ t.phase = "scouts" /\ t.hand = {} /\ i \in NewIn(Spotted, qSeen[t.ant])
  /\ Goes(w, [t EXCEPT !.hand = {i}])
  /\ UNCHANGED <<age, qMemory, qSymbols, qLife, tries>>

NoteSignal(w) ==
  LET t == qTick[w] IN
  /\ t.phase = "scouts" /\ t.hand # {}
  /\ qSeen' = [qSeen EXCEPT ![t.ant] = @ \cup t.hand]
  /\ Goes(w, [t EXCEPT !.hand = {}, !.todo = @ \cup {i \in t.hand \cap Fresh : SymbolOfItem[i] \in Scope}])
  /\ UNCHANGED <<age, qSeenIds, qSymbols, qLife, tries>>

ScoutsRead(w) ==
  LET t == qTick[w] IN
  /\ t.phase = "scouts" /\ t.hand = {}
  /\ Goes(w, [t EXCEPT !.phase = "signals"])
  /\ UNCHANGED <<age, qMemory, qSymbols, qLife, tries>>

\* Confident and not falling, it is tried.
TrySignal(w, i) ==
  LET t == qTick[w] IN
  /\ t.phase = "signals" /\ i \in t.todo /\ t.regime # "SIDEWAYS"
  /\ Try(w, i)
  /\ Goes(w, [t EXCEPT !.todo = @ \ {i}])
  /\ UNCHANGED <<age, qMemory, qLife>>

PassSignal(w, i) ==
  LET t == qTick[w] IN
  /\ t.phase = "signals" /\ i \in t.todo
  /\ Goes(w, [t EXCEPT !.todo = @ \ {i}])
  /\ UNCHANGED <<age, qMemory, qSymbols, qLife, tries>>

SignalsDone(w) ==
  LET t == qTick[w] IN
  /\ t.phase = "signals" /\ t.todo = {}
  /\ Goes(w, [t EXCEPT !.phase = "approved"])
  /\ UNCHANGED <<age, qMemory, qSymbols, qLife, tries>>

\* The approved log is read line by line, no more than MaxPerTick of those whose
\* candidate is not among the seen; a stale one counts, and no more.
NewLines(w) ==
  {i \in Lines : age[i] # "absent" /\ i > qTick[w].pos /\ IdOfLine[i] \notin qSeenIds[qTick[w].ant]}

LookLine(w, i) ==
  LET t == qTick[w] IN
  /\ t.phase = "approved" /\ t.hand = {} /\ t.count < MaxPerTick
  /\ i \in NewLines(w) /\ \A j \in NewLines(w) : i <= j
  /\ Goes(w, [t EXCEPT !.hand = {i} \cap Fresh, !.pos = i, !.count = @ + 1])
  /\ UNCHANGED <<age, qMemory, qSymbols, qLife, tries>>

\* What is tried is noted afterwards.
TryLine(w) ==
  LET t == qTick[w] IN
  /\ t.phase = "approved" /\ ~t.done
  /\ \E i \in t.hand : Try(w, i)
  /\ Goes(w, [t EXCEPT !.done = TRUE])
  /\ UNCHANGED <<age, qMemory, qLife>>

\* Mutant: a line is remembered only if it took its symbol.
NoteLine_OnlyTaken(w) ==
  LET t == qTick[w] IN
  /\ t.phase = "approved" /\ t.done
  /\ qSeenIds' = [qSeenIds EXCEPT ![t.ant] = @ \cup
                   {IdOfLine[i] : i \in {j \in t.hand : SymbolOfItem[j] \in qSymbols[t.ant]}}]
  /\ Goes(w, [t EXCEPT !.hand = {}, !.done = FALSE])
  /\ UNCHANGED <<age, qSeen, qSymbols, qLife, tries>>

NoteLine(w) ==
  LET t == qTick[w] IN
  /\ t.phase = "approved" /\ t.done
  /\ qSeenIds' = [qSeenIds EXCEPT ![t.ant] = @ \cup {IdOfLine[i] : i \in t.hand}]
  /\ Goes(w, [t EXCEPT !.hand = {}, !.done = FALSE])
  /\ UNCHANGED <<age, qSeen, qSymbols, qLife, tries>>

ApprovedRead(w) ==
  LET t == qTick[w] IN
  /\ t.phase = "approved" /\ t.hand = {}
  /\ Goes(w, [t EXCEPT !.phase = "research", !.pos = 0])
  /\ UNCHANGED <<age, qMemory, qSymbols, qLife, tries>>

\* Every new candidate of the research log is looked up and noted; a fresh one is tried.
LookCandidate(w, i) ==
  LET t == qTick[w] IN
  /\ t.phase = "research" /\ t.hand = {} /\ i \in NewIn(Accepted, qSeen[t.ant])
  /\ Goes(w, [t EXCEPT !.hand = {i}])
  /\ UNCHANGED <<age, qMemory, qSymbols, qLife, tries>>

NoteCandidate(w) ==
  LET t == qTick[w] IN
  /\ t.phase = "research" /\ t.hand # {} /\ ~t.done
  /\ qSeen' = [qSeen EXCEPT ![t.ant] = @ \cup t.hand]
  /\ Goes(w, [t EXCEPT !.hand = @ \cap Fresh, !.done = (t.hand \subseteq Fresh), !.count = @ + 1])
  /\ UNCHANGED <<age, qSeenIds, qSymbols, qLife, tries>>

TryCandidate(w) ==
  LET t == qTick[w] IN
  /\ t.phase = "research" /\ t.done
  /\ \E i \in t.hand : Try(w, i)
  /\ Goes(w, [t EXCEPT !.hand = {}, !.done = FALSE])
  /\ UNCHANGED <<age, qMemory, qLife>>

\* Its symbol taken, or kept out by the regime or for want of a price: a line stays
\* where it is.
PassItem(w) ==
  LET t == qTick[w] IN
  /\ t.hand # {} /\ t.done = (t.phase = "research") /\ t.phase # "scouts"
  /\ Goes(w, [t EXCEPT !.hand = {}, !.done = FALSE])
  /\ UNCHANGED <<age, qMemory, qSymbols, qLife, tries>>

\* The tick is over.
EndTick(w) ==
  /\ qTick[w].phase = "research" /\ qTick[w].hand = {}
  /\ Goes(w, NoTick) /\ MarkOver({w})
  /\ UNCHANGED <<age, qMemory, qSymbols, qLife>>

\* If it came upon nothing while something waits, both logs are read again
\* (_paper_candidate_watchdog).
ReadAgain(w) ==
  LET t == qTick[w] IN
  /\ t.phase = "research" /\ t.hand = {} /\ t.count = 0
  /\ \E i \in Lines \cup Accepted : age[i] = "fresh"
  /\ Goes(w, [t EXCEPT !.phase = "approved"])
  /\ UNCHANGED <<age, qMemory, qSymbols, qLife, tries>>

\* The ant ends, or the process with all its threads, and another ant is made.  It
\* counts the stale candidates of the research log as seen, and nothing else; of the
\* open positions it recovers what the logs show.
PaperRestart ==
  /\ papers < MaxPapers
  /\ papers' = papers + 1 /\ qEnded' = FALSE
  /\ \/ OnlyLeft /\ UNCHANGED <<qTick, tries>>
     \/ /\ qTick' = [w \in QWorkers |-> NoTick]
        /\ MarkOver(QWorkers)
  /\ qSeen' = [qSeen EXCEPT ![papers + 1] = {i \in Accepted : age[i] = "stale"}]
  /\ \E open \in SUBSET (UNION {qSymbols[p] : p \in Papers}) :
       qSymbols' = [qSymbols EXCEPT ![papers + 1] = open]
  /\ UNCHANGED <<age, qSeenIds, ticksLeft>>

TickStep(w) ==
  \/ BeginTick(w) \/ LeaveBehind(w) \/ TickFails(w)
  \/ \E s \in QSymbols : CloseSymbol(w, s)
  \/ \E i \in Spotted : LookSignal(w, i) \/ TrySignal(w, i) \/ PassSignal(w, i)
  \/ NoteSignal(w) \/ ScoutsRead(w) \/ SignalsDone(w)
  \/ \E i \in Lines : LookLine(w, i)
  \/ TryLine(w) \/ NoteLine(w) \/ ApprovedRead(w)
  \/ \E i \in Accepted : LookCandidate(w, i)
  \/ NoteCandidate(w) \/ TryCandidate(w) \/ PassItem(w) \/ EndTick(w) \/ ReadAgain(w)

QueuesStep ==
  \/ \E i \in Items : Arrive(i) \/ GrowStale(i)
  \/ \E w \in QWorkers : TickStep(w)
  \/ PaperRestart

--------------------------------------------------------------------------------
(* Properties. *)

\* Two lines of the approved log about one candidate go together.
SameItem(i, j) == i = j \/ (i \in Lines /\ j \in Lines /\ IdOfLine[i] = IdOfLine[j])

\* A signal, a candidate, and all lines of an approved candidate together, are tried
\* once in the life of a paper ant, and once more for each tick that was left behind
\* with them: of two tries one is by a tick left behind, and no tick tries twice
\* (_processed_signals, _seen_research_ids, _seen_approved_ids).
TriedOncePerLife ==
  \A i, j \in Items : \A m \in DOMAIN tries[i], n \in DOMAIN tries[j] :
    /\ SameItem(i, j) /\ <<i, m>> # <<j, n>> /\ tries[i][m].ant = tries[j][n].ant
    => /\ tries[i][m].left \/ tries[j][n].left
       /\ tries[i][m].by = {} \/ tries[i][m].by # tries[j][n].by
================================================================================
