--------------------------------- MODULE MCMill ---------------------------------
(* CandidateMill for TLC: an idea on a repository that the operator also hands  *)
(* in, and one in a post, in a chart and among Claude's variants; one signal of *)
(* the research ant's own.                                                      *)
EXTENDS CandidateMill, TLC

CONSTANTS i1, i2, btc, sma, w1, w2, k1, k2, k3, london, newyork, s1, r1, id1, id2,
          xlk, xle, xlv, aapl, ko, tech, oil, gold

MCIdeaOf == [f \in Files |-> IF f = 1 THEN i1 ELSE i2]
MCLike   == {<<i1, i1>>}
MCBanned == {<<btc, i2>>}
MCSharpe == [k \in Keys |-> IF k[2] = sma THEN 1 ELSE 2]

MCCasts  == {{"ingestion", "operator"}, {"ingestion", "research"}, {"research", "claude"},
             {"research", "strategy"}, {"promoter"}, {"killzone"}, {"paper"},
             {"rotation"}, {"screen"}, {"hedge"},
             {"book", "scout"}, {"book"}, {"live"},
             {"watchtower"}, {"news"}, {"audit"}, {"regime"}, {"ibkr"}}
MCLiveCast == {{"live"}}

\* Three candidates, two with the same prefix, one not ready.
MCPrefix == [c \in Candidates |-> IF c = k3 THEN k3 ELSE k1]

MCWindows == <<london, newyork>>

\* A signal, three lines of two candidates, one of them short, and a research candidate.
MCIdOfLine == [n \in Lines |-> IF n = 2 THEN id1 ELSE id2]
MCCompany == {{1, 3}, {2, 3}, {s1}, {r1}}
MCSymbolOfItem == [i \in Items |-> btc]

\* Returns by period; of xle the oldest is never known, and once nothing is.
MCReturn(a, b, c) == [m1 |-> a, m3 |-> b, m6 |-> c]
MCReturns ==
  {(xlk :> MCReturn(3, 2, 1)) @@ (xle :> MCReturn(1, 2, NoReturn)) @@ (xlv :> MCReturn(0, 0, 0)),
   (xlk :> MCReturn(-2, 1, 0)) @@ (xle :> MCReturn(2, 2, NoReturn)) @@ (xlv :> MCReturn(0, 0, 0)),
   (xlk :> MCReturn(1, 1, 1)) @@ (xlv :> MCReturn(2, 2, 2))
     @@ (xle :> MCReturn(NoReturn, NoReturn, NoReturn))}

\* Two stocks that differ in their debt only.
MCFigures(debt) ==
  [roa |-> 6, ocf |-> 10, income |-> 5, debt |-> debt, current |-> 150, margin |-> 20,
   roe |-> 12, pe |-> 40]
MCFundamentals == {MCFigures(50), MCFigures(0)}

\* Two sectors, and a signal of the Watchtower.
MCRankings == {<<tech, oil>>, <<oil, tech>>}
MCListed   == {<<"watchtower", 1, aapl>>}
MCTtl      == [sector |-> 2, breakout |-> 2, watchtower |-> 1]

\* One symbol that is proven best, or two.
MCLists == {<<btc>>, <<btc, aapl>>}

\* A poll of two signals, and one of the same risky signal twice.
MCSignal(asset, biome, score, confidence, flags) ==
  [asset |-> asset, biome |-> biome, long |-> TRUE, score |-> score, confidence |-> confidence,
   flags |-> flags, age |-> 0]
MCRisky == MCSignal(aapl, "equities", 70, 60, {"HIGH_RISK"})
MCPolls == {<<MCSignal(aapl, "equities", 70, 60, {}), MCSignal(gold, "commodity", 40, 35, {})>>,
            <<MCRisky, MCRisky>>}

\* A crisis, one cautious reading and one of calm.
MCReadings == {<<99, 130>>, <<101, 105>>, <<101, 90>>}

\* What the advisor may have read: two candidates, one an old favourite.
MCAdvised(id, type, sharpe, known) ==
  [id |-> id, symbol |-> IF id = 3 THEN aapl ELSE btc, type |-> type, sharpe |-> sharpe,
   age |-> known, regime |-> "", biome |-> "crypto"]
MCAdvisedLists ==
  {<<MCAdvised(1, "a", x, d), MCAdvised(2, t, y, 0), MCAdvised(3, u, z, d)>> :
     x, y, z \in {5, 6}, t, u \in {"a", "b"}, d \in {0, 14}}
MCStats ==
  [{btc, aapl} -> {[trades |-> 0, wins |-> 0], [trades |-> 10, wins |-> 2], [trades |-> 20, wins |-> 13]}]
MCScopes  == 1 :> {btc} @@ 2 :> {btc, aapl}
MCAdvices == {{}, {[id |-> 1, action |-> "promote", confidence |-> 6]}}

ASSUME \A list \in MCAdvisedLists, n \in 0 .. 3 : TopIsDiverse(list, n, {"b"}, {"a"})
ASSUME \A list \in MCAdvisedLists, stats \in MCStats, advices \in MCAdvices :
         AdviceIsConsistent(list, stats, MCScopes, advices, {"b"}, {})
================================================================================
