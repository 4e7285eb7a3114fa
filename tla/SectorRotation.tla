---------------------------- MODULE SectorRotation ----------------------------
(***************************************************************************)
(* Setup 1: MomentumRankAnt ranks the sectors once a day                   *)
(* (ant_colony/ants/equities/momentum_rank_ant.py), and RotationAnt signals *)
(* a rotation when the first or last of the ranking differ enough from     *)
(* those of its last signal (rotation_ant.py).                             *)
(*                                                                         *)
(* Each ant has one life at a time.  It writes to a file of that life's    *)
(* own, and readers go through the files in no order they chose.           *)
(***************************************************************************)
EXTENDS TradingDays, FiniteSets, Sequences, SequencesExt, FiniteSetsExt

CONSTANTS
  Sectors,      \* symbols that can be ranked
  Returns,      \* sets of returns the adapter may give: symbol -> period -> return or NoReturn
  RankTop,      \* _TOP_N and _BOTTOM_N: how many of either end are bought and sold
  MinShift,     \* _MIN_SHIFT
  NoReturn

ASSUME RotationAssumption ==
  RankTop \in Nat \ {0} /\ MinShift \in Nat /\ IsFiniteSet(Sectors)

VARIABLES
  ranked,        \* ranked[d]: the rankings in the logs for day d
  rankDates,     \* _emitted_ranking_dates of the ranking ant's life
  rotations,     \* the rotation signals in the logs, in the order they came
  lastRotation,  \* the last signal the rotation ant knows of: _last_top3 and _last_bot3
  rotDates       \* its _emitted_signal_dates

rotationVars == <<ranked, rankDates, rotations, lastRotation, rotDates>>

NoRotation == [day |-> 0, buys |-> {}, sells |-> {}]

RotationInit ==
  /\ ranked = [d \in Days |-> {}] /\ rankDates = {}
  /\ rotations = <<>> /\ lastRotation = NoRotation /\ rotDates = {}

Weight == [m1 |-> 4, m3 |-> 4, m6 |-> 2]

Given(r) == {p \in DOMAIN Weight : r[p] # NoReturn}

\* The mean of the returns there are, by their weights; as a fraction, since
\* weights that are left out count for nothing.
ScoreOf(r) ==
  [num |-> MapThenSumSet(LAMBDA p : Weight[p] * r[p], Given(r)),
   den |-> MapThenSumSet(LAMBDA p : Weight[p], Given(r))]

NotBelow(a, b) == a.num * b.den >= b.num * a.den

\* Rankings of the symbols that have a return, best first; equal ones in any order.
RankingsOf(returns) ==
  LET scored == {s \in Sectors : Given(returns[s]) # {}}
  IN {q \in SetToSeqs(scored) :
        \A i, j \in DOMAIN q : i < j => NotBelow(ScoreOf(returns[q[i]]), ScoreOf(returns[q[j]]))}

\* _tick of MomentumRankAnt: one ranking per day, remembered by this life only.
MomentumRankTick ==
  /\ Today \notin rankDates
  /\ \E returns \in Returns : \E q \in RankingsOf(returns) :
       q # <<>> /\ ranked' = [ranked EXCEPT ![Today] = @ \cup {q}]
  /\ rankDates' = rankDates \cup {Today}
  /\ UNCHANGED <<rotations, lastRotation, rotDates>>

\* Every tick but the first of a life sees what the log says of an earlier one.
MomentumRankRestart ==
  /\ rankDates' = {}
  /\ UNCHANGED <<ranked, rotations, lastRotation, rotDates>>

TopOf(q)    == Range(SubSeq(q, 1, Min({RankTop, Len(q)})))
BottomOf(q) == Range(SubSeq(q, Max({1, Len(q) - RankTop + 1}), Len(q)))

\* _load_latest_ranking: of the latest day there is a ranking for, the first it
\* comes upon.
LatestRankings ==
  LET days == {d \in Days : ranked[d] # {}}
  IN IF days = {} THEN {} ELSE ranked[Max(days)]

\* _count_shift: the newcomers at either end.
Shift(old, new) == Cardinality(new.buys \ old.buys) + Cardinality(new.sells \ old.sells)

\* _tick of RotationAnt.
RotationTick ==
  /\ Today \notin rotDates
  /\ \E q \in LatestRankings :
       LET signal == [day |-> Today, buys |-> TopOf(q), sells |-> BottomOf(q)]
       IN /\ lastRotation.buys = {} \/ Shift(lastRotation, signal) > MinShift
          /\ rotations' = Append(rotations, signal) /\ lastRotation' = signal
  /\ rotDates' = rotDates \cup {Today}
  /\ UNCHANGED <<ranked, rankDates>>

\* Mutant: a new life knows nothing of the signals there are.
RotationRestart_Forgets ==
  /\ rotDates' = {} /\ lastRotation' = NoRotation
  /\ UNCHANGED <<ranked, rankDates, rotations>>

\* _restore_last_rotation: the dates of all signals, and the latest of them.
RotationRestart ==
  /\ rotDates' = {signal.day : signal \in Range(rotations)}
  /\ lastRotation' =
       IF rotations = <<>> THEN NoRotation
       ELSE CHOOSE signal \in Range(rotations) : \A o \in Range(rotations) : o.day <= signal.day
  /\ UNCHANGED <<ranked, rankDates, rotations>>

RotationStep == MomentumRankTick \/ MomentumRankRestart \/ RotationTick \/ RotationRestart

\* Of the signals in the logs no two have the same date, and each differs from
\* the one before by more than the threshold, whatever lives of either ant wrote
\* or ranked in between: the date and the last signal are restored
\* (RotationAnt._restore_last_rotation), the rankings of a day may be several.
RotationsAreShifts ==
  \A n \in 2 .. Len(rotations) :
    /\ rotations[n - 1].day < rotations[n].day
    /\ Shift(rotations[n - 1], rotations[n]) > MinShift
================================================================================
