------------------------------ MODULE StrategyAnt ------------------------------
(***************************************************************************)
(* The ant that makes variants of what the logs hold                       *)
(* (ant_colony/ants/strategy_ant.py).  Every tick reads both logs from the *)
(* top and works on the first few sources only; what it has tried it       *)
(* remembers for its life.                                                 *)
(***************************************************************************)
EXTENDS CandidateLogs

CONSTANTS
  Mutations,    \* labels of _MUTATION_CONFIGS that differ from a source's own
  Expansions,   \* labels of _EXPANSION_CONFIGS
  HeadSize,     \* _MAX_MUTATIONS_PER_TICK and _MAX_EXPANSIONS_PER_TICK
  MaxPairs,     \* _MAX_COMBINATIONS_PER_TICK
  DefaultSymbol \* the first symbol of the mission

VARIABLES
  tried,        \* _seen_variants
  forged        \* variants in the strategy log: variant_emitted

forgeVars == <<tried, forged>>

StrategyInit == tried = {} /\ forged = {}

\* Research candidates first, then ideas with entry and exit indicators.  An id
\* is a place in the research log or an idea.
Sources ==
  [n \in 1 .. Len(research) |-> [id |-> n, symbol |-> research[n].key[1]]] \o
  LET withExits == SelectSeq(ingestion, LAMBDA e : e.idea \in Exits /\ e.by # "claude")
  IN [n \in 1 .. Len(withExits) |-> [id |-> withExits[n].idea, symbol |-> DefaultSymbol]]

Smaller(a, b) == IF a < b THEN a ELSE b

\* Pairs of sources of one symbol, in the order of the double loop.
PairsOf(s) == {p \in (DOMAIN s) \X (DOMAIN s) : p[1] < p[2] /\ s[p[1]].symbol = s[p[2]].symbol}
Earlier(p, q) == p[1] < q[1] \/ (p[1] = q[1] /\ p[2] < q[2])
FirstPairs(s) == {p \in PairsOf(s) : Cardinality({q \in PairsOf(s) : Earlier(q, p)}) < MaxPairs}

\* _variant_key: the kind with its numbers, and the parents.
Specs(s) ==
  LET head == {s[n].id : n \in 1 .. Smaller(HeadSize, Len(s))} IN
  {<<kind, {id}>> : kind \in Mutations \cup Expansions, id \in head}
    \cup {<<"combination", {s[p[1]].id, s[p[2]].id}>> : p \in FirstPairs(s)}

\* A tick tries each variant it has not tried yet: noted first, then dropped for a
\* symbol out of scope, too few candles or a poor backtest, or else emitted.
StrategyTick ==
  LET fresh == Specs(Sources) \ tried IN
  /\ tried' = tried \cup fresh
  /\ \E passed \in SUBSET fresh : forged' = forged \cup passed
  /\ UNCHANGED logVars

\* A new StrategyAnt has tried nothing.
StrategyRestart ==
  /\ tried' = {}
  /\ UNCHANGED <<forged, logVars>>

StrategyStep == StrategyTick \/ StrategyRestart
================================================================================
