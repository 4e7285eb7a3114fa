------------------------------- MODULE ResearchAnt -------------------------------
(***************************************************************************)
(* The ant that backtests its own signals and the ingested ideas           *)
(* (ant_colony/ants/research_ant.py).                                      *)
(*                                                                         *)
(* What it has emitted and which ideas it has seen is kept in memory.  A   *)
(* new ResearchAnt counts every idea in the log as seen, so an idea that   *)
(* came while there was none is never tested.  A tick that outlasts the    *)
(* watchdog is left behind in its worker, on the same memory.              *)
(*                                                                         *)
(* Which detectors trigger, what data there is and what a backtest says    *)
(* are free choices.                                                       *)
(***************************************************************************)
EXTENDS CandidateLogs

CONSTANTS
  Goods,      \* keys of the commodity signals, in a mission for that biome
  Disabled,   \* keys whose backtest has a disabled strategy type
  Banned,     \* keys that are classified as a disabled type when they are logged
  Workers     \* threads a tick may run in

ASSUME ResearchAssumption ==
  Goods \subseteq Keys /\ Disabled \cup Banned \subseteq Keys /\ None \notin Workers

VARIABLES
  resLife,    \* the ResearchAnt the supervisor made last
  resAlive,   \* whether its run method goes on
  emitted,    \* emitted[l]: _last_emitted of ResearchAnt l
  seenIdeas,  \* seenIdeas[l]: _seen_ingestion_ids
  resPc,      \* resPc[w]: where the tick in thread w is
  resHome,    \* resHome[w]: the ResearchAnt whose tick that is
  resIdeas,   \* resIdeas[w]: ideas of the log it has still to look at
  resQueue,   \* resQueue[w]: keys it has still to evaluate
  resItem,    \* resItem[w]: the key in the backtester
  resTick,    \* the worker the ant waits for
  tested,     \* history: how often an idea was taken up
  resLate     \* history: whether a tick was ever left behind

memoryVars == <<emitted, seenIdeas>>
threadVars == <<resPc, resHome, resIdeas, resQueue, resItem>>
aliveVars  == <<resLife, resAlive, resTick>>
resVars    == <<memoryVars, threadVars, aliveVars, tested, resLate>>

ResearchInit ==
  /\ resLife = 1 /\ resAlive = TRUE /\ resTick = None
  /\ emitted = [l \in Lives |-> {}] /\ seenIdeas = [l \in Lives |-> {}]
  /\ resPc = [w \in Workers |-> "idle"] /\ resHome = [w \in Workers |-> 1]
  /\ resIdeas = [w \in Workers |-> {}] /\ resQueue = [w \in Workers |-> {}]
  /\ resItem = [w \in Workers |-> None]
  /\ tested = [i \in Ideas |-> 0] /\ resLate = FALSE

ResGoto(w, label) == resPc' = [resPc EXCEPT ![w] = label]

\* The six detectors run over the symbols with enough candles; some trigger.
StartResearch(w) ==
  /\ resAlive /\ resTick = None /\ resPc[w] = "idle"
  /\ resTick' = w
  /\ ResGoto(w, "own")
  /\ resHome' = [resHome EXCEPT ![w] = resLife]
  /\ \E triggered \in SUBSET ((Symbols \X OwnSignals) \ Goods) :
       resQueue' = [resQueue EXCEPT ![w] = triggered]
  /\ UNCHANGED <<memoryVars, resIdeas, resItem, resLife, resAlive, tested, resLate, logVars>>

\* The ingestion log is read.
ReadIdeas(w) ==
  /\ resPc[w] = "own" /\ resQueue[w] = {} /\ resItem[w] = None
  /\ ResGoto(w, "ideas")
  /\ resIdeas' = [resIdeas EXCEPT ![w] = Ingested]
  /\ UNCHANGED <<memoryVars, resHome, resQueue, resItem, aliveVars, tested, resLate, logVars>>

SkipIdea(w) ==
  /\ resPc[w] = "ideas" /\ resQueue[w] = {} /\ resItem[w] = None
  /\ \E i \in resIdeas[w] \cap seenIdeas[resHome[w]] : resIdeas' = [resIdeas EXCEPT ![w] = @ \ {i}]
  /\ UNCHANGED <<memoryVars, resPc, resHome, resQueue, resItem, aliveVars, tested, resLate, logVars>>

\* Mutant: the idea counts as seen in the next tick only.
TakeIdea_Forgets(w) ==
  /\ resPc[w] = "ideas" /\ resQueue[w] = {} /\ resItem[w] = None
  /\ \E i \in resIdeas[w] \ seenIdeas[resHome[w]] : \E data \in SUBSET Symbols :
       /\ resIdeas' = [resIdeas EXCEPT ![w] = @ \ {i}]
       /\ seenIdeas' = IF data = {} THEN seenIdeas
                       ELSE [seenIdeas EXCEPT ![resHome[w]] = @ \cup {i}]
       /\ resQueue' = [resQueue EXCEPT ![w] = data \X {i}]
       /\ tested' = [tested EXCEPT ![i] = @ + 1]
  /\ UNCHANGED <<emitted, resPc, resHome, resItem, aliveVars, resLate, logVars>>

\* A new idea is noted and then tested on every symbol with enough candles.
TakeIdea(w) ==
  /\ resPc[w] = "ideas" /\ resQueue[w] = {} /\ resItem[w] = None
  /\ \E i \in resIdeas[w] \ seenIdeas[resHome[w]] : \E data \in SUBSET Symbols :
       /\ resIdeas' = [resIdeas EXCEPT ![w] = @ \ {i}]
       /\ seenIdeas' = [seenIdeas EXCEPT ![resHome[w]] = @ \cup {i}]
       /\ resQueue' = [resQueue EXCEPT ![w] = data \X {i}]
       /\ tested' = [tested EXCEPT ![i] = @ + 1]
  /\ UNCHANGED <<emitted, resPc, resHome, resItem, aliveVars, resLate, logVars>>

\* _process_commodity_watchtower_signals, for the symbols there are candles of.
TakeGoods(w) ==
  /\ resPc[w] = "ideas" /\ resIdeas[w] = {} /\ resQueue[w] = {} /\ resItem[w] = None
  /\ ResGoto(w, "goods")
  /\ \E data \in SUBSET Goods : resQueue' = [resQueue EXCEPT ![w] = data]
  /\ UNCHANGED <<memoryVars, resHome, resIdeas, resItem, aliveVars, tested, resLate, logVars>>

\* _evaluate_and_emit: the key was emitted in this life, or its type is
\* disabled, or the backtest fails or stays below the thresholds ...
RefuseKey(w) ==
  /\ resItem[w] = None
  /\ \E k \in resQueue[w] : resQueue' = [resQueue EXCEPT ![w] = @ \ {k}]
  /\ UNCHANGED <<memoryVars, resPc, resHome, resIdeas, resItem, aliveVars, tested, resLate, logVars>>

\* ... or it goes into the backtester, and comes out accepted.
TestKey(w) ==
  /\ resItem[w] = None
  /\ \E k \in resQueue[w] \ (emitted[resHome[w]] \cup Disabled) :
       /\ resQueue' = [resQueue EXCEPT ![w] = @ \ {k}]
       /\ resItem' = [resItem EXCEPT ![w] = k]
  /\ UNCHANGED <<memoryVars, resPc, resHome, resIdeas, aliveVars, tested, resLate, logVars>>

\* Mutant: the candidate is remembered under its id instead of its key.
EmitKey_Forgets(w) ==
  /\ resItem[w] # None
  /\ research' = IF resItem[w] \in Banned THEN research
                 ELSE Append(research, [key |-> resItem[w], life |-> resHome[w]])
  /\ resItem' = [resItem EXCEPT ![w] = None]
  /\ UNCHANGED <<memoryVars, resPc, resHome, resIdeas, resQueue, aliveVars, tested, resLate, ingestion>>

\* The key is remembered, Lean is asked for an opinion that decides nothing, and
\* the candidate is logged, unless its classification is a disabled type: then the
\* key stays remembered and the candidate is lost for this life.
EmitKey(w) ==
  /\ resItem[w] # None
  /\ emitted' = [emitted EXCEPT ![resHome[w]] = @ \cup {resItem[w]}]
  /\ research' = IF resItem[w] \in Banned THEN research
                 ELSE Append(research, [key |-> resItem[w], life |-> resHome[w]])
  /\ resItem' = [resItem EXCEPT ![w] = None]
  /\ UNCHANGED <<seenIdeas, resPc, resHome, resIdeas, resQueue, aliveVars, tested, resLate, ingestion>>

\* _check_strategy_diversity only warns.
ResearchDone(w) ==
  /\ resPc[w] = "goods" /\ resQueue[w] = {} /\ resItem[w] = None
  /\ ResGoto(w, "idle")
  /\ resTick' = IF resTick = w THEN None ELSE resTick
  /\ UNCHANGED <<memoryVars, resHome, resIdeas, resQueue, resItem, resLife, resAlive, tested, resLate, logVars>>

\* The watchdog leaves the worker behind and the next tick starts another.
ResearchTimeout ==
  /\ resTick # None
  /\ resTick' = None /\ resLate' = TRUE
  /\ UNCHANGED <<memoryVars, threadVars, resLife, resAlive, tested, logVars>>

\* The TTL, or an error that a tick raised.
ResearchEnds ==
  /\ resAlive
  /\ resAlive' = FALSE /\ resTick' = None
  /\ IF resTick = None THEN UNCHANGED threadVars
     ELSE /\ ResGoto(resTick, "idle")
          /\ resQueue' = [resQueue EXCEPT ![resTick] = {}]
          /\ resIdeas' = [resIdeas EXCEPT ![resTick] = {}]
          /\ resItem' = [resItem EXCEPT ![resTick] = None]
          /\ UNCHANGED resHome
  /\ UNCHANGED <<memoryVars, resLife, tested, resLate, logVars>>

\* _preload_seen_ingestion_ids
ResearchRestart ==
  /\ ~resAlive /\ resLife < MaxLives
  /\ resLife' = resLife + 1 /\ resAlive' = TRUE
  /\ seenIdeas' = [seenIdeas EXCEPT ![resLife + 1] = Ingested]
  /\ UNCHANGED <<emitted, threadVars, resTick, tested, resLate, logVars>>

\* What a crash of the process leaves of the ant.
ResearchDies ==
  /\ resAlive' = FALSE /\ resTick' = None
  /\ resPc' = [w \in Workers |-> "idle"] /\ resItem' = [w \in Workers |-> None]
  /\ resIdeas' = [w \in Workers |-> {}] /\ resQueue' = [w \in Workers |-> {}]
  /\ UNCHANGED <<memoryVars, resHome, resLife, tested, resLate>>

ResearchStep ==
  \/ \E w \in Workers : \/ StartResearch(w) \/ ReadIdeas(w) \/ SkipIdea(w) \/ TakeIdea(w)
                        \/ TakeGoods(w) \/ RefuseKey(w) \/ TestKey(w) \/ EmitKey(w) \/ ResearchDone(w)
  \/ ResearchTimeout \/ ResearchEnds \/ ResearchRestart

--------------------------------------------------------------------------------
(* Properties. *)

\* While no tick is left behind, an idea is tested at most once, over all lives of
\* the ant and however often it is ingested (_process_ingestion_candidates,
\* _preload_seen_ingestion_ids).
IdeasAreTestedOnce == ~resLate => \A i \in Ideas : tested[i] <= 1

\* While no tick is left behind, a life of the ant logs one candidate for a symbol
\* and a signal (_last_emitted).
KeysAreEmittedOnce ==
  ~resLate => \A m, n \in DOMAIN research : research[m] = research[n] => m = n

\* What the ant works on it works on once.
WorkedOnOnce == IdeasAreTestedOnce /\ KeysAreEmittedOnce
================================================================================
