------------------------------ MODULE QueenAdvisor ------------------------------
(***************************************************************************)
(* QueenAdvisor (ant_colony/queen/queen_advisor.py), in two parts.          *)
(*                                                                         *)
(* How the regime RSRegimeAnt finds (ant_colony/ants/equities/             *)
(* rs_regime_ant.py) becomes the one the paper ants read in                *)
(* queen/regime.jsonl.  Two threads of the process carry it over, the      *)
(* advisor's every five minutes and one of its own every ten seconds       *)
(* (scripts/start_colony.py:379), by one method of one object              *)
(* (QueenAdvisor.sync_rs_regime_once, ant_colony/queen/queen_advisor.py:   *)
(* 786): look up what was read last, unless the log has changed since; else*)
(* read it; compare with the last line of the Queen's log; append.  Only   *)
(* the cache has a lock.                                                   *)
(*                                                                         *)
(* And what advise concludes from the logs, as functions of what it read:  *)
(* which candidates come first or last, and for which missions more or     *)
(* less capital is recommended.  The Queen writes all of it to             *)
(* queen/decisions.jsonl and acts on none: the plan she would apply        *)
(* (allocatie_aanpassingen) is one the advisor never makes.                *)
(*                                                                         *)
(* A candidate is a record of id, symbol, type, sharpe, age (in days since *)
(* it was accepted), regime and biome; stats maps the symbols that were    *)
(* traded on paper in the window to trades and wins, and scopes the active *)
(* missions of paper ants to their symbols; rates are in percent.          *)
(***************************************************************************)
EXTENDS Integers, Sequences, FiniteSets, SequencesExt, FiniteSetsExt, Functions

CONSTANTS
  Readings,    \* pairs of the index against its average and of the defensive basket, in percent
  Backtested,  \* what the candidates' best regimes amount to, or NoReading
  News,        \* sentiments of the latest news
  NoReading,
  MaxReadings, MaxSyncLives   \* bounds: lines of the ant, lives of the process

ASSUME SyncAssumption ==
  /\ MaxReadings \in Nat /\ MaxSyncLives \in Nat
  /\ NoReading \notin {"RISK_ON", "NEUTRAL", "RISK_OFF", "CRISIS"}

VARIABLES
  rsLog,       \* regimes in the lines of rs_regime/
  queenRegime, \* the last line of queen/regime.jsonl, NoReading before the first
  market,      \* the last line of queen/market_signal.jsonl: regime and sentiment
  rsCache,     \* _io_cache["rs_regime"]: fingerprint and value
  syncPc,      \* where each thread is in the method
  print,       \* the fingerprint it took
  found,       \* the regime it read
  since,       \* history: lines of the ant when it began
  followed,    \* history: a sync that began after the ant's last line has compared or
               \* written, and none that began before it has written since
  syncLives

syncVars ==
  <<rsLog, queenRegime, market, rsCache, syncPc, print, found, since, followed, syncLives>>

Syncers == {"advisor", "sync"}

SyncInit ==
  /\ rsLog = <<>> /\ queenRegime = NoReading /\ market = <<NoReading, "neutral">>
  /\ rsCache = <<-1, NoReading>>
  /\ syncPc = [s \in Syncers |-> "idle"] /\ print = [s \in Syncers |-> 0]
  /\ found = [s \in Syncers |-> NoReading] /\ since = [s \in Syncers |-> 0]
  /\ followed = FALSE /\ syncLives = 1

\* classify_regime.
Classified(index, basket) ==
  IF index < 100 /\ basket > 120 THEN "CRISIS"
  ELSE IF index < 100 \/ basket > 110 THEN "RISK_OFF"
  ELSE IF basket >= 100 THEN "NEUTRAL"
  ELSE "RISK_ON"

\* _RS_REGIME_TO_QUEEN_REGIME.
QueenRegimeOf(regime) ==
  CASE regime = "RISK_ON" -> "RISK_ON"
    [] regime = "NEUTRAL" -> "SIDEWAYS"
    [] regime \in {"RISK_OFF", "CRISIS"} -> "VOLATILE"
    [] OTHER -> NoReading

\* _MARKET_SIGNAL_TABLE: the factors on the size of a position and on its stop, in
\* percent; a regime it does not know, RISK_ON among them, changes nothing.
MarketFactors(regime, sentiment) ==
  CASE regime = "SIDEWAYS" /\ sentiment = "bearish" -> <<50, 125>>
    [] regime = "TRENDING" /\ sentiment = "bullish" -> <<125, 100>>
    [] regime = "TRENDING" /\ sentiment = "bearish" -> <<75, 100>>
    [] regime = "VOLATILE" -> <<50, 100>>
    [] OTHER -> <<100, 100>>

\* read_latest_rs_regime.
LatestReading == IF rsLog = <<>> THEN NoReading ELSE Last(rsLog)

SyncGoto(s, pc) == syncPc' = [syncPc EXCEPT ![s] = pc]
Fingerprint     == Len(rsLog)

\* _tick of RSRegimeAnt: too little data skips it.
ReadMarket ==
  /\ Len(rsLog) < MaxReadings
  /\ \E reading \in Readings : rsLog' = Append(rsLog, Classified(reading[1], reading[2]))
  /\ followed' = FALSE
  /\ UNCHANGED <<queenRegime, market, rsCache, syncPc, print, found, since, syncLives>>

\* _paths_fingerprint, before anything is looked up.
SyncBegins(s) ==
  /\ syncPc[s] = "idle"
  /\ SyncGoto(s, "lookup")
  /\ print' = [print EXCEPT ![s] = Fingerprint] /\ since' = [since EXCEPT ![s] = Len(rsLog)]
  /\ UNCHANGED <<rsLog, queenRegime, market, rsCache, found, followed, syncLives>>

\* _cached_log_read under its lock: what is cached goes by its fingerprint, and
\* by its age at times; a log that cannot be read reads as none (_load_rs_regime).
LookUp(s) ==
  /\ syncPc[s] = "lookup"
  /\ \/ rsCache[1] = print[s] /\ found' = [found EXCEPT ![s] = rsCache[2]] /\ SyncGoto(s, "compare")
     \/ /\ \E read \in {LatestReading, NoReading} : found' = [found EXCEPT ![s] = read]
        /\ SyncGoto(s, "store")
  /\ UNCHANGED <<rsLog, queenRegime, market, rsCache, print, since, followed, syncLives>>

\* Mutant: stored with a fingerprint taken when it is stored.
Store_PrintedLate(s) ==
  /\ syncPc[s] = "store"
  /\ rsCache' = <<Fingerprint, found[s]>> /\ SyncGoto(s, "compare")
  /\ UNCHANGED <<rsLog, queenRegime, market, print, found, since, followed, syncLives>>

\* What was read is stored with the fingerprint from before.
Store(s) ==
  /\ syncPc[s] = "store"
  /\ rsCache' = <<print[s], found[s]>> /\ SyncGoto(s, "compare")
  /\ UNCHANGED <<rsLog, queenRegime, market, print, found, since, followed, syncLives>>

Current(s) == since[s] = Len(rsLog)

\* sync_rs_regime_once: with no reading nothing is compared; the advisor then goes by
\* the backtests of the candidates.
Compare(s) ==
  /\ syncPc[s] = "compare"
  /\ LET regime == QueenRegimeOf(found[s]) IN
       IF regime = NoReading
         THEN SyncGoto(s, IF s = "advisor" THEN "fallback" ELSE "idle") /\ UNCHANGED followed
         ELSE IF regime # queenRegime
           THEN SyncGoto(s, "write") /\ UNCHANGED followed
           ELSE /\ SyncGoto(s, IF s = "advisor" THEN "signal" ELSE "idle")
                /\ followed' = (followed \/ Current(s))
  /\ UNCHANGED <<rsLog, queenRegime, market, rsCache, print, found, since, syncLives>>

\* _write_regime_signal: the line comes last whatever was appended since the comparison, if
\* it can be written; what follows does not ask.
WriteRegime(s) ==
  /\ syncPc[s] = "write"
  /\ \/ queenRegime' = QueenRegimeOf(found[s]) /\ followed' = Current(s)
     \/ UNCHANGED <<queenRegime, followed>>
  /\ SyncGoto(s, IF s = "advisor" THEN "signal" ELSE "idle")
  /\ UNCHANGED <<rsLog, market, rsCache, print, found, since, syncLives>>

\* advise: the regime most candidates did best in, written without a comparison.
Fallback ==
  /\ syncPc["advisor"] = "fallback"
  /\ \E regime \in Backtested :
       IF regime = NoReading
         THEN SyncGoto("advisor", "idle") /\ UNCHANGED <<queenRegime, market, found, followed>>
         ELSE /\ \/ queenRegime' = regime /\ followed' = FALSE
                 \/ UNCHANGED <<queenRegime, followed>>
              /\ \E news \in News : market' = <<regime, news>>
              /\ SyncGoto("advisor", "idle") /\ UNCHANGED found
  /\ UNCHANGED <<rsLog, rsCache, print, since, syncLives>>

\* _write_market_signal, after the regime is seen to.
SignalMarket ==
  /\ syncPc["advisor"] = "signal"
  /\ \E news \in News : market' = <<QueenRegimeOf(found["advisor"]), news>>
  /\ SyncGoto("advisor", "idle")
  /\ UNCHANGED <<rsLog, queenRegime, rsCache, print, found, since, followed, syncLives>>

\* The process dies; the logs stay.
SyncRestart ==
  /\ syncLives < MaxSyncLives /\ syncLives' = syncLives + 1
  /\ rsCache' = <<-1, NoReading>> /\ syncPc' = [s \in Syncers |-> "idle"]
  /\ print' = [s \in Syncers |-> 0] /\ found' = [s \in Syncers |-> NoReading]
  /\ since' = [s \in Syncers |-> 0]
  /\ UNCHANGED <<rsLog, queenRegime, market, followed>>

SyncStep ==
  \/ ReadMarket \/ Fallback \/ SignalMarket \/ SyncRestart
  \/ \E s \in Syncers : SyncBegins(s) \/ LookUp(s) \/ Store(s) \/ Compare(s) \/ WriteRegime(s)

\* Once either thread has looked since the ant's last line, and no sync under way from
\* before that line has written after it, the paper ants read the regime of that line:
\* no cached reading outlives the line it was read from.
RegimeIsFollowed == followed => queenRegime = QueenRegimeOf(Last(rsLog))

--------------------------------------------------------------------------------
(* What advise concludes. *)

\* _operator_adjusted_sharpe, in fifths of the sharpe ratio.
AdjustedSharpe(c, prefer, avoid) ==
  c.sharpe * (IF c.type \in prefer THEN 6 ELSE IF c.type \in avoid THEN 4 ELSE 5)

\* The order select_diverse_top_n goes through the candidates in: best first, the sort is
\* stable.
BestFirst(candidates, prefer, avoid) ==
  LET Rank(i, j) ==
        LET a == AdjustedSharpe(candidates[i], prefer, avoid)
            b == AdjustedSharpe(candidates[j], prefer, avoid)
        IN a > b \/ (a = b /\ i < j)
  IN CHOOSE order \in [DOMAIN candidates -> DOMAIN candidates] :
       \A i, j \in DOMAIN candidates : i < j => Rank(order[i], order[j])

\* A candidate without a symbol shares none; one without a type is of type unknown.
Clash(c, d) == (c.symbol # "" /\ c.symbol = d.symbol) \/ c.type = d.type

\* select_diverse_top_n: one per symbol and one per type.
DiverseTop(candidates, n, prefer, avoid) ==
  LET Take(chosen, i) ==
        IF Len(chosen) >= n \/ \E d \in ToSet(chosen) : Clash(candidates[i], d)
          THEN chosen ELSE Append(chosen, candidates[i])
  IN FoldLeft(Take, <<>>, BestFirst(candidates, prefer, avoid))

Trades(stats, symbol) == IF symbol \in DOMAIN stats THEN stats[symbol].trades ELSE 0
WinsOver(st, rate)    == 100 * st.wins > rate * st.trades
WinsUnder(st, rate)   == 100 * st.wins < rate * st.trades

\* _compute_stagnant_top3_adjustments: of a type among the best, known for 14 days, none
\* of whose symbols was ever traded, every candidate.
Stagnant(candidates, stats, prefer, avoid) ==
  LET OfType(t) == {c \in ToSet(candidates) : c.type = t}
      IsStagnant(t) ==
        /\ \E c \in OfType(t) : c.age >= 14
        /\ \A c \in OfType(t) : Trades(stats, c.symbol) = 0
      types == {c.type : c \in ToSet(DiverseTop(candidates, 3, prefer, avoid))}
  IN UNION {OfType(t) : t \in {u \in types : IsStagnant(u)}}

\* _apply_paper_logic: the symbols that did well or badly over ten trades.
Raised(stats)  == {s \in DOMAIN stats : stats[s].trades >= 10 /\ WinsOver(stats[s], 55)}
Lowered(stats) == {s \in DOMAIN stats : stats[s].trades >= 10 /\ WinsUnder(stats[s], 30)}

\* _apply_claude_logic: an advice counts when the paper trades bear it out.
Confirmed(candidates, stats, advices) ==
  {c \in ToSet(candidates) : \E a \in advices :
     /\ a.id = c.id /\ a.confidence >= 6 /\ a.action \in {"promote", "prioritize"}
     /\ Trades(stats, c.symbol) >= 20 /\ WinsOver(stats[c.symbol], 60)}

\* _REGIME_MAP.
BacktestRegime(regime) ==
  CASE regime = "bull" -> "TRENDING" [] regime = "sideways" -> "SIDEWAYS"
    [] regime = "bear" -> "VOLATILE" [] OTHER -> regime

\* _candidate_matches_watchtower.
WatchtowerMatches(c, wt, regime) ==
  \/ c.symbol = wt.asset
  \/ wt.class = c.biome
  \/ wt.class = "equity" /\ c.biome = "equities"
  \/ wt.regime # "" /\ wt.regime \in {BacktestRegime(c.regime), regime}

\* _apply_watchtower_context: a flag that a signal of any age carried puts all last; a
\* score that is fresh puts its matches first.
WatchedLast(candidates, wt)  == IF "high_risk" \in wt.flags THEN ToSet(candidates) ELSE {}
WatchedFirst(candidates, wt, regime) ==
  IF wt.score > 65 /\ wt.fresh
    THEN {c \in ToSet(candidates) : WatchtowerMatches(c, wt, regime)} ELSE {}

\* Of the active missions of paper ants, those with such a symbol in their scope.
MissionsOn(scopes, symbols) == {m \in DOMAIN scopes : scopes[m] \cap symbols # {}}

\* advise.
Decision(candidates, stats, scopes, advices, wt, regime, prefer, avoid) ==
  [first |-> Confirmed(candidates, stats, advices) \cup WatchedFirst(candidates, wt, regime),
   last  |-> Stagnant(candidates, stats, prefer, avoid)
               \cup {c \in ToSet(candidates) : c.symbol \in Lowered(stats)}
               \cup WatchedLast(candidates, wt),
   more  |-> MissionsOn(scopes, Raised(stats)),
   less  |-> MissionsOn(scopes, Lowered(stats))]

\* _determine_regime: what most candidates that name one did best in, the earliest of
\* equals.
DominantRegime(candidates) ==
  LET named    == SelectSeq(candidates, LAMBDA c : c.regime # "")
      Count(r) == Cardinality({n \in DOMAIN named : named[n].regime = r})
      first    == {n \in DOMAIN named : \A m \in DOMAIN named :
                     \/ Count(named[m].regime) < Count(named[n].regime)
                     \/ Count(named[m].regime) = Count(named[n].regime)
                          /\ (m >= n \/ named[m].regime = named[n].regime)}
  IN IF named = <<>> THEN "" ELSE named[Min(first)].regime

--------------------------------------------------------------------------------

\* The choice of the best is sound: no two share a symbol or a type, and whoever is
\* left out is no better than one chosen that shares one of them with it, or than n
\* others.
TopIsDiverse(candidates, n, prefer, avoid) ==
  LET top == DiverseTop(candidates, n, prefer, avoid)
      NoBetter(c, d) == AdjustedSharpe(c, prefer, avoid) <= AdjustedSharpe(d, prefer, avoid)
  IN /\ \A i, j \in DOMAIN top : i < j =>
          ~ Clash(top[i], top[j]) /\ NoBetter(top[j], top[i])
     /\ Len(top) <= n
     /\ \A c \in ToSet(candidates) \ ToSet(top) :
          \/ Len(top) = n /\ \A d \in ToSet(top) : NoBetter(c, d)
          \/ \E d \in ToSet(top) : NoBetter(c, d) /\ Clash(c, d)

\* But for the Watchtower's word, no candidate is put first and last at once: who is
\* confirmed by trades is neither stagnant nor a loser.  More capital is recommended for
\* every mission on the symbol of a candidate that is put first; more and less for one
\* only if it has several symbols, which did well and badly.
AdviceIsConsistent(candidates, stats, scopes, advices, prefer, avoid) ==
  LET silent == [asset |-> "", class |-> "", regime |-> "", flags |-> {}, score |-> 0, fresh |-> FALSE]
      d == Decision(candidates, stats, scopes, advices, silent, "SIDEWAYS", prefer, avoid)
  IN /\ d.first \cap d.last = {}
     /\ \A c \in d.first, m \in DOMAIN scopes : c.symbol \in scopes[m] => m \in d.more
     /\ \A m \in d.more \cap d.less : \E s, t \in scopes[m] : s # t
================================================================================
