-------------------------- MODULE TradingAnts_proofs --------------------------
(***************************************************************************)
(* What the provers show of the ants that trade: the setups on equities    *)
(* (rotation, screen, hedge), the equities paper ant with its book, and    *)
(* live execution.                                                         *)
(***************************************************************************)
EXTENDS CandidateMill_proofs

--------------------------------------------------------------------------------
(* The rotation of sectors. *)

\* A step of the colony is one of the setups on equities, or none of theirs.
LEMMA SetupFrame ==
  ASSUME [MillNext]_vars
  PROVE  SetupStep \/ UNCHANGED setupVars
  BY Zenon DEF MillNext, vars

\* The day is one of the days there are, and none comes before it.
LEMMA TodayIsADay ==
  ASSUME now \in 0 .. MaxNow
  PROVE  Today \in Days /\ Today \in Nat /\ Days \subseteq Nat /\ IsFiniteSet(Days)
<1>1. /\ PerDay \in Nat \ {0} /\ MaxNow \in Nat /\ now \in Nat /\ now <= MaxNow
  BY TimeAssumption
<1>2. Today \in Nat /\ Today <= MaxNow \div PerDay /\ MaxNow \div PerDay \in Nat
  BY <1>1, DivGrows DEF Today
<1> QED BY <1>2, FS_Interval DEF Days

\* The date never goes back.
LEMMA TodayComes ==
  ASSUME now \in 0 .. MaxNow, now' = now \/ TimePasses
  PROVE  now' \in 0 .. MaxNow /\ Today \in Nat /\ Today' \in Nat /\ Today <= Today'
<1>1. /\ PerDay \in Nat \ {0} /\ MaxNow \in Nat /\ now \in Nat /\ now' \in Nat /\ now <= now'
      /\ now' <= MaxNow
  BY TimeAssumption DEF TimePasses
<1>2. PICK a \in Nat, b \in Nat : a = now /\ b = now'
  BY <1>1
<1>3. a \div PerDay \in Nat /\ b \div PerDay \in Nat /\ a \div PerDay <= b \div PerDay
  BY <1>1, <1>2, DivGrows
<1>4. Today = a \div PerDay /\ Today' = b \div PerDay
  BY <1>2 DEF Today
<1>5. now' \in 0 .. MaxNow
  BY <1>1
<1> QED BY <1>3, <1>4, <1>5

\* Of the days something was written for, the latest is one of them.
LEMMA LatestDay ==
  ASSUME NEW D, D \subseteq Days, D # {}, now \in 0 .. MaxNow
  PROVE  Max(D) \in D
<1>1. D \subseteq Int /\ IsFiniteSet(D)
  BY TodayIsADay, FS_Subset
<1> QED BY <1>1, MaxOf

\* Time stands still or goes on by one.
LEMMA NowFrame ==
  ASSUME [MillNext]_vars
  PROVE  now' = now \/ TimePasses
<1>1. CASE SetupStep
  BY <1>1, Zenon DEF SetupStep
<1>2. CASE UNCHANGED setupVars
  BY <1>2, Zenon DEF setupVars
<1> QED BY <1>1, <1>2, SetupFrame, Zenon

\* To the rotation ant a step is its own or none of its.
LEMMA RotationFrame ==
  ASSUME [MillNext]_vars
  PROVE  RotationStep \/ UNCHANGED rotationVars
<1>1. CASE SetupStep
  BY <1>1, Zenon DEF SetupStep
<1>2. CASE UNCHANGED setupVars
  BY <1>2, Zenon DEF setupVars
<1> QED BY <1>1, <1>2, SetupFrame, Zenon

RotationSignals == [day : Nat, buys : (SUBSET Sectors) \ {{}}, sells : SUBSET Sectors]

RotationTypes ==
  /\ now \in 0 .. MaxNow
  /\ ranked \in [Days -> SUBSET (Seq(Sectors) \ {<<>>})]
  /\ rotations \in Seq(RotationSignals)

\* The rotation ant knows of every signal there is, and of the last one that it was the last.
LastIsKnown ==
  /\ RotationTypes
  /\ \A n \in DOMAIN rotations : rotations[n].day \in rotDates /\ rotations[n].day <= Today
  /\ \A m, n \in DOMAIN rotations : m < n => rotations[m].day < rotations[n].day
  /\ lastRotation = IF rotations = <<>> THEN NoRotation ELSE rotations[Len(rotations)]
  /\ RotationsAreShifts

\* A ranking is a sequence of sectors.
LEMMA RankingsAreTyped ==
  ASSUME NEW returns, NEW q \in RankingsOf(returns)
  PROVE  q \in Seq(Sectors)
<1> DEFINE scored == {s \in Sectors : Given(returns[s]) # {}}
<1>1. Cardinality(scored) \in Nat /\ scored \subseteq Sectors
  BY RotationAssumption, FS_Subset, FS_CardinalityType
<1>2. q \in SetToSeqs(scored)
  BY DEF RankingsOf
<1> HIDE DEF scored
<1>3. q \in [1 .. Cardinality(scored) -> scored]
  BY <1>2, Zenon DEF SetToSeqs
<1> QED BY <1>1, <1>3

\* Its top is not empty, its bottom may be.
LEMMA EndsAreTyped ==
  ASSUME NEW q \in Seq(Sectors), q # <<>>
  PROVE  TopOf(q) \in (SUBSET Sectors) \ {{}} /\ BottomOf(q) \in SUBSET Sectors
<1>1. Len(q) \in Nat \ {0} /\ DOMAIN q = 1 .. Len(q) /\ RankTop \in Nat \ {0}
  BY RotationAssumption
<1>2. PICK m : m = Min({RankTop, Len(q)})
  OBVIOUS
<1>3. m \in 1 .. Len(q)
  <2>1. \E x \in {RankTop, Len(q)} : \A y \in {RankTop, Len(q)} : x <= y
    BY <1>1
  <2>2. m \in {RankTop, Len(q)} /\ \A y \in {RankTop, Len(q)} : m <= y
    BY <1>2, <2>1, Zenon DEF Min
  <2>3. m \in Nat \ {0} /\ m <= Len(q)
    BY <1>1, <2>2
  <2> QED BY <1>1, <2>3
<1>4. PICK k : k = Max({1, Len(q) - RankTop + 1})
  OBVIOUS
<1>5. k \in Nat \ {0} /\ k <= Len(q)
  <2>1. \E x \in {1, Len(q) - RankTop + 1} : \A y \in {1, Len(q) - RankTop + 1} : x >= y
    BY <1>1
  <2>2. k \in {1, Len(q) - RankTop + 1} /\ \A y \in {1, Len(q) - RankTop + 1} : k >= y
    BY <1>4, <2>1, Zenon DEF Max
  <2> QED BY <1>1, <2>2
<1>6. SubSeq(q, 1, m) \in Seq(Sectors) /\ Len(SubSeq(q, 1, m)) = m
  BY <1>1, <1>3
<1>7. SubSeq(q, k, Len(q)) \in Seq(Sectors)
  BY <1>1, <1>5
<1>8. \A r \in Seq(Sectors) : Range(r) \subseteq Sectors /\ (Len(r) # 0 => Range(r) # {})
  <2>1. SUFFICES ASSUME NEW r \in Seq(Sectors)
                 PROVE  Range(r) \subseteq Sectors /\ (Len(r) # 0 => Range(r) # {})
    OBVIOUS
  <2>2. DOMAIN r = 1 .. Len(r) /\ Len(r) \in Nat /\ \A n \in 1 .. Len(r) : r[n] \in Sectors
    OBVIOUS
  <2>3. Len(r) # 0 => 1 \in 1 .. Len(r)
    BY <2>2
  <2> QED BY <2>2, <2>3 DEF Range
<1>9. m # 0
  BY <1>3
<1> QED BY <1>2, <1>4, <1>6, <1>7, <1>8, <1>9 DEF TopOf, BottomOf

\* Nothing is ranked at first.
LEMMA RotationInitHolds == MillInit => LastIsKnown
<1> SUFFICES ASSUME MillInit PROVE LastIsKnown
  OBVIOUS
<1>1. /\ now = 0 /\ ranked = [d \in Days |-> {}] /\ rotations = <<>> /\ lastRotation = NoRotation
  BY DEF MillInit, RotationInit
<1> QED BY <1>1, TimeAssumption DEF LastIsKnown, RotationTypes, RotationsAreShifts

\* The rotation ant knows the dates of the signals in the logs, and which was the last.
LEMMA RotationStepHolds == LastIsKnown /\ [MillNext]_vars => LastIsKnown'
<1> SUFFICES ASSUME LastIsKnown, [MillNext]_vars PROVE LastIsKnown'
  OBVIOUS
<1>0. /\ RotationTypes /\ now' \in 0 .. MaxNow /\ Today \in Nat /\ Today' \in Nat /\ Today <= Today'
      /\ Today \in Days /\ Days \subseteq Nat
      /\ rotations \in Seq(RotationSignals)
      /\ ranked \in [Days -> SUBSET (Seq(Sectors) \ {<<>>})]
  BY NowFrame, TodayComes, TodayIsADay DEF LastIsKnown, RotationTypes
<1>2. \A n \in DOMAIN rotations :
        rotations[n].day \in Nat /\ rotations[n].day <= Today /\ rotations[n].day \in rotDates
        /\ rotations[n].buys # {} /\ rotations[n] \in RotationSignals
  <2>1. \A n \in DOMAIN rotations : rotations[n] \in RotationSignals
    BY <1>0
  <2> QED BY <2>1 DEF RotationSignals, LastIsKnown
<1>3. CASE /\ UNCHANGED <<rotations, lastRotation>> /\ rotDates \subseteq rotDates'
           /\ ranked' \in [Days -> SUBSET (Seq(Sectors) \ {<<>>})]
  <2>1. \A n \in DOMAIN rotations : rotations[n].day \in rotDates' /\ rotations[n].day <= Today'
    BY <1>0, <1>2, <1>3
  <2> QED BY <1>0, <1>3, <2>1 DEF LastIsKnown, RotationTypes, RotationsAreShifts
<1>4. CASE UNCHANGED rotationVars
  BY <1>0, <1>3, <1>4 DEF rotationVars
<1>5. CASE MomentumRankTick
  <2>1. PICK returns \in Returns : \E q \in RankingsOf(returns) :
          q # <<>> /\ ranked' = [ranked EXCEPT ![Today] = @ \cup {q}]
    BY <1>5 DEF MomentumRankTick
  <2>2. PICK q \in RankingsOf(returns) :
          q # <<>> /\ ranked' = [ranked EXCEPT ![Today] = @ \cup {q}]
    BY <2>1
  <2>3. q \in Seq(Sectors) \ {<<>>}
    BY <2>2, RankingsAreTyped
  <2>4. ranked' \in [Days -> SUBSET (Seq(Sectors) \ {<<>>})]
    BY <1>0, <2>2, <2>3
  <2> QED BY <1>3, <1>5, <2>4 DEF MomentumRankTick
<1>6. CASE MomentumRankRestart
  BY <1>0, <1>3, <1>6 DEF MomentumRankRestart
<1>7. CASE RotationTick
  <2>1. PICK q \in LatestRankings :
          LET signal == [day |-> Today, buys |-> TopOf(q), sells |-> BottomOf(q)]
          IN /\ lastRotation.buys = {} \/ Shift(lastRotation, signal) > MinShift
             /\ rotations' = Append(rotations, signal) /\ lastRotation' = signal
    BY <1>7 DEF RotationTick
  <2>2. Today \notin rotDates /\ rotDates' = rotDates \cup {Today} /\ ranked' = ranked
    BY <1>7 DEF RotationTick
  <2>3. q \in Seq(Sectors) /\ q # <<>>
    <3> DEFINE dated == {d \in Days : ranked[d] # {}}
    <3>1. dated # {} /\ q \in ranked[Max(dated)]
      BY <2>1 DEF LatestRankings
    <3>2. Max(dated) \in Days
      <4>1. PICK D : D = dated
        OBVIOUS
      <4>2. D \subseteq Days /\ D # {}
        BY <3>1, <4>1
      <4>3. Max(D) \in D
        BY <1>0, <4>2, LatestDay DEF RotationTypes
      <4> QED BY <4>1, <4>2, <4>3
    <3> HIDE DEF dated
    <3> QED BY <1>0, <3>1, <3>2
  <2>4. PICK signal \in RotationSignals :
          /\ lastRotation.buys = {} \/ Shift(lastRotation, signal) > MinShift
          /\ rotations' = Append(rotations, signal) /\ lastRotation' = signal
          /\ signal.day = Today
    <3>1. TopOf(q) \in (SUBSET Sectors) \ {{}} /\ BottomOf(q) \in SUBSET Sectors
      BY <2>3, EndsAreTyped
    <3>2. [day |-> Today, buys |-> TopOf(q), sells |-> BottomOf(q)] \in RotationSignals
      BY <1>0, <3>1 DEF RotationSignals
    <3> QED BY <2>1, <3>2
  <2>5. PICK k \in Nat : /\ k = Len(rotations) /\ DOMAIN rotations = 1 .. k
                         /\ DOMAIN rotations' = 1 .. k + 1 /\ Len(rotations') = k + 1
                         /\ rotations' \in Seq(RotationSignals)
                         /\ \A n \in 1 .. k : rotations'[n] = rotations[n]
                         /\ rotations'[k + 1] = signal
    BY <1>0, <2>4
  <2>6. \A n \in 1 .. k : rotations[n].day < Today
    <3>1. \A n \in 1 .. k : rotations[n].day # Today
      BY <1>2, <2>2, <2>5
    <3> QED BY <1>0, <1>2, <2>5, <3>1
  <2>7. \A n \in DOMAIN rotations' : rotations'[n].day \in rotDates' /\ rotations'[n].day <= Today'
    <3>1. \A n \in 1 .. k : rotations[n].day <= Today' /\ rotations[n].day \in rotDates'
      BY <1>0, <1>2, <2>2, <2>5
    <3>2. signal.day \in rotDates' /\ signal.day <= Today'
      BY <1>0, <2>2, <2>4
    <3>3. \A n \in 1 .. k + 1 : n \in 1 .. k \/ n = k + 1
      OBVIOUS
    <3> QED BY <2>5, <3>1, <3>2, <3>3
  <2>8. \A m, n \in DOMAIN rotations' : m < n => rotations'[m].day < rotations'[n].day
    <3>1. SUFFICES ASSUME NEW m \in 1 .. k + 1, NEW n \in 1 .. k + 1, m < n
                   PROVE  rotations'[m].day < rotations'[n].day
      BY <2>5
    <3>2. CASE n \in 1 .. k
      BY <2>5, <3>1, <3>2 DEF LastIsKnown
    <3>3. CASE n = k + 1
      <4>1. m \in 1 .. k
        BY <3>1, <3>3
      <4> QED BY <2>4, <2>5, <2>6, <3>3, <4>1
    <3> QED BY <3>2, <3>3
  <2>9. RotationsAreShifts'
    <3>1. SUFFICES ASSUME NEW n \in 2 .. k + 1
                   PROVE  /\ rotations'[n - 1].day < rotations'[n].day
                          /\ Shift(rotations'[n - 1], rotations'[n]) > MinShift
      BY <2>5 DEF RotationsAreShifts
    <3>2. rotations'[n - 1].day < rotations'[n].day
      BY <2>5, <2>8
    <3>3. CASE n \in 2 .. k
      BY <2>5, <3>3 DEF LastIsKnown, RotationsAreShifts
    <3>4. CASE n = k + 1
      <4>1. k \in 1 .. k /\ rotations # <<>>
        BY <2>5, <3>4
      <4>2. lastRotation = rotations[k] /\ rotations[k].buys # {}
        BY <1>2, <2>5, <4>1 DEF LastIsKnown
      <4>3. rotations'[n - 1] = rotations[k] /\ rotations'[n] = signal
        BY <2>5, <3>4, <4>1
      <4>4. Shift(lastRotation, signal) > MinShift
        BY <2>4, <4>2
      <4> QED BY <3>2, <4>2, <4>3, <4>4
    <3> QED BY <3>2, <3>3, <3>4
  <2>10. rotations' # <<>> /\ lastRotation' = rotations'[Len(rotations')]
    BY <2>4, <2>5
  <2> QED BY <1>0, <2>2, <2>5, <2>7, <2>8, <2>9, <2>10 DEF LastIsKnown, RotationTypes
<1>8. CASE RotationRestart
  <2>1. /\ UNCHANGED <<ranked, rotations>> /\ rotDates' = {signal.day : signal \in Range(rotations)}
        /\ lastRotation' = IF rotations = <<>> THEN NoRotation
             ELSE CHOOSE signal \in Range(rotations) : \A o \in Range(rotations) : o.day <= signal.day
    BY <1>8 DEF RotationRestart
  <2>2. \A n \in DOMAIN rotations : rotations[n].day \in rotDates' /\ rotations[n].day <= Today'
    <3>1. \A n \in DOMAIN rotations : rotations[n] \in Range(rotations)
      BY DEF Range
    <3>2. \A n \in DOMAIN rotations : rotations[n].day <= Today'
      BY <1>0, <1>2
    <3> QED BY <2>1, <3>1, <3>2
  <2>3. lastRotation' = IF rotations = <<>> THEN NoRotation ELSE rotations[Len(rotations)]
    <3>1. CASE rotations # <<>>
      <4>1. PICK k \in Nat : k = Len(rotations) /\ k \in 1 .. k /\ DOMAIN rotations = 1 .. k
        BY <1>0, <3>1
      <4>2. PICK signal : signal = rotations[k]
        OBVIOUS
      <4>3. \A n \in 1 .. k : n # k => rotations[n].day < signal.day
        BY <4>1, <4>2 DEF LastIsKnown
      <4>4. \A o \in Range(rotations) : o.day \in Nat /\ (o # signal => o.day < signal.day)
        BY <1>2, <4>1, <4>2, <4>3 DEF Range
      <4>5. signal \in Range(rotations) /\ signal.day \in Nat
        BY <1>2, <4>1, <4>2 DEF Range
      <4>6. \A o \in Range(rotations) : o.day <= signal.day
        BY <4>4, <4>5
      <4>7. PICK chosen : chosen = CHOOSE s \in Range(rotations) : \A o \in Range(rotations) : o.day <= s.day
        OBVIOUS
      <4>8. chosen \in Range(rotations) /\ \A o \in Range(rotations) : o.day <= chosen.day
        BY <4>5, <4>6, <4>7, Zenon
      <4>9. chosen = signal
        BY <4>4, <4>5, <4>8
      <4> QED BY <2>1, <3>1, <4>1, <4>2, <4>7, <4>9
    <3> QED BY <2>1, <3>1
  <2> QED BY <1>0, <2>1, <2>2, <2>3 DEF LastIsKnown, RotationTypes, RotationsAreShifts
<1> QED BY <1>4, <1>5, <1>6, <1>7, <1>8, RotationFrame, Zenon DEF RotationStep

\* Of the signals in the logs no two have one date, and each differs from the one before by
\* more than the threshold, whatever lives of either ant wrote or ranked in between
\* (RotationAnt._restore_last_rotation).
THEOREM RotationsStayShifts == MillSpec => []RotationsAreShifts
<1>1. LastIsKnown => RotationsAreShifts
  BY DEF LastIsKnown
<1> QED BY <1>1, RotationInitHolds, RotationStepHolds, PTL DEF MillSpec

--------------------------------------------------------------------------------
(* The screen for breakouts. *)

\* To the screen a step is its own or none of its.
LEMMA ScreenFrame ==
  ASSUME [MillNext]_vars
  PROVE  ScreenStep \/ UNCHANGED screenVars
<1>1. CASE SetupStep
  BY <1>1, Zenon DEF SetupStep
<1>2. CASE UNCHANGED setupVars
  BY <1>2, Zenon DEF setupVars
<1> QED BY <1>1, <1>2, SetupFrame, Zenon

\* A stock came through both scorings, by that day.
CameThrough(s, d) ==
  \E c \in screened : c.symbol = s /\ c.day <= d /\ <<c.symbol, c.day>> \in passed

\* The breakout ant remembers every signal of its life.
BreakoutsAreSeen ==
  /\ now \in 0 .. MaxNow /\ screenLife \in Nat
  /\ \A c \in screened : c.day \in Nat /\ c.day <= Today
  /\ \A t \in passed : \E c \in screened : t = <<c.symbol, c.day>>
  /\ \A b \in DOMAIN breakouts :
       /\ breakouts[b] = 1 /\ CameThrough(b.symbol, b.day)
       /\ b.life \in Nat /\ b.life <= screenLife
       /\ b.life = screenLife => <<b.symbol, b.day>> \in brSeen

\* No breakout is known at first.
LEMMA ScreenInitHolds == MillInit => BreakoutsAreSeen
<1> SUFFICES ASSUME MillInit PROVE BreakoutsAreSeen
  OBVIOUS
<1>1. now = 0 /\ screened = {} /\ passed = {} /\ breakouts = EmptyBag /\ screenLife = 1
  BY DEF MillInit, ScreenInit
<1>2. DOMAIN breakouts = {}
  BY <1>1 DEF EmptyBag, SetToBag
<1> QED BY <1>1, <1>2, TimeAssumption DEF BreakoutsAreSeen

\* The breakout ant remembers every signal of its life, and what it signals has come through.
LEMMA ScreenStepHolds == BreakoutsAreSeen /\ [MillNext]_vars => BreakoutsAreSeen'
<1> SUFFICES ASSUME BreakoutsAreSeen, [MillNext]_vars PROVE BreakoutsAreSeen'
  OBVIOUS
<1>0. /\ now \in 0 .. MaxNow /\ now' \in 0 .. MaxNow /\ screenLife \in Nat
      /\ Today \in Nat /\ Today' \in Nat /\ Today <= Today'
  BY NowFrame, TodayComes DEF BreakoutsAreSeen
<1>1. \A c \in screened : c.day \in Nat /\ c.day <= Today'
  BY <1>0 DEF BreakoutsAreSeen
<1>2. CASE /\ screened \subseteq screened' /\ passed \subseteq passed'
           /\ \A c \in screened' : c.day \in Nat /\ c.day <= Today'
           /\ \A t \in passed' : \E c \in screened' : t = <<c.symbol, c.day>>
           /\ UNCHANGED breakouts /\ screenLife' \in Nat /\ screenLife <= screenLife'
           /\ screenLife' = screenLife => brSeen' = brSeen
  <2>1. ASSUME NEW b \in DOMAIN breakouts
        PROVE  /\ breakouts[b] = 1 /\ CameThrough(b.symbol, b.day)'
               /\ b.life \in Nat /\ b.life <= screenLife'
               /\ b.life = screenLife' => <<b.symbol, b.day>> \in brSeen'
    <3>1. /\ breakouts[b] = 1 /\ CameThrough(b.symbol, b.day)
          /\ b.life \in Nat /\ b.life <= screenLife
          /\ b.life = screenLife => <<b.symbol, b.day>> \in brSeen
      BY <2>1 DEF BreakoutsAreSeen
    <3>2. CameThrough(b.symbol, b.day)'
      BY <1>2, <3>1 DEF CameThrough
    <3>3. b.life <= screenLife' /\ (b.life = screenLife' => screenLife' = screenLife)
      BY <1>0, <1>2, <3>1
    <3> QED BY <1>2, <3>1, <3>2, <3>3
  <2> QED BY <1>0, <1>2, <2>1 DEF BreakoutsAreSeen
<1>3. CASE UNCHANGED screenVars
  BY <1>0, <1>1, <1>2, <1>3 DEF screenVars, BreakoutsAreSeen
<1>4. CASE FundamentalTick
  <2>1. /\ \A c \in screened' : c \in screened \/ c.day = Today
        /\ screened \subseteq screened'
        /\ UNCHANGED <<passed, breakouts, brSeen, screenLife>>
    <3>1. PICK figures \in [Stocks -> Fundamentals], risen \in SUBSET Stocks :
            /\ screened' = screened \cup
                 {[symbol |-> s, day |-> Today, score |-> FScore(figures[s])] : s \in risen}
            /\ UNCHANGED <<passed, breakouts, brSeen, screenLife>>
      <4>1. PICK figures \in [Stocks -> Fundamentals], near \in SUBSET Stocks :
              LET risen == {s \in near : <<s, Today>> \notin fSeen /\ FScore(figures[s]) >= MinScore}
              IN /\ screened' = screened \cup
                      {[symbol |-> s, day |-> Today, score |-> FScore(figures[s])] : s \in risen}
                 /\ fSeen' = fSeen \cup (risen \X {Today})
                 /\ UNCHANGED <<passed, pioSeen, breakouts, brSeen, screenLife>>
        BY <1>4 DEF FundamentalTick
      <4>2. {s \in near : <<s, Today>> \notin fSeen /\ FScore(figures[s]) >= MinScore} \in SUBSET Stocks
        BY <4>1
      <4> QED BY <4>1, <4>2
    <3> QED BY <3>1
  <2>2. \A c \in screened' : c.day \in Nat /\ c.day <= Today'
    BY <1>0, <1>1, <2>1
  <2> QED BY <1>0, <1>2, <2>1, <2>2 DEF BreakoutsAreSeen
<1>5. CASE PiotroskiTick
  <2>1. /\ passed \subseteq passed'
        /\ \A t \in passed' : t \in passed \/ \E c \in screened : t = <<c.symbol, c.day>>
        /\ UNCHANGED <<screened, breakouts, brSeen, screenLife>>
    BY <1>5, Zenon DEF PiotroskiTick
  <2> QED BY <1>0, <1>1, <1>2, <2>1 DEF BreakoutsAreSeen
<1>6. CASE BreakoutTick
  <2>1. PICK broken \in SUBSET Stocks :
          /\ \A s \in broken : <<s, Today>> \notin brSeen /\ \E c \in passed : c[1] = s
          /\ breakouts' = breakouts (+)
               SetToBag({[symbol |-> s, day |-> Today, life |-> screenLife] : s \in broken})
          /\ brSeen' = brSeen \cup (broken \X {Today})
          /\ UNCHANGED <<screened, passed, screenLife>>
    <3>1. PICK near \in SUBSET Stocks :
            LET broken == {s \in near : <<s, Today>> \notin brSeen /\ \E c \in passed : c[1] = s}
            IN /\ breakouts' = breakouts (+)
                    SetToBag({[symbol |-> s, day |-> Today, life |-> screenLife] : s \in broken})
               /\ brSeen' = brSeen \cup (broken \X {Today})
               /\ UNCHANGED <<screened, fSeen, passed, pioSeen, screenLife>>
      BY <1>6 DEF BreakoutTick
    <3>2. {s \in near : <<s, Today>> \notin brSeen /\ \E c \in passed : c[1] = s} \in SUBSET Stocks
      BY <3>1
    <3> QED BY <3>1, <3>2
  <2>2. PICK N : N = {[symbol |-> s, day |-> Today, life |-> screenLife] : s \in broken}
    OBVIOUS
  <2>3. \A b \in N : /\ b.symbol \in broken /\ b.day = Today /\ b.life = screenLife
                     /\ <<b.symbol, b.day>> \in brSeen' /\ <<b.symbol, b.day>> \notin brSeen
    BY <2>1, <2>2
  <2>4. \A b \in N : b \notin DOMAIN breakouts
    BY <2>3 DEF BreakoutsAreSeen
  <2>5. /\ DOMAIN breakouts' = DOMAIN breakouts \cup N
        /\ \A b \in N : breakouts'[b] = 1
        /\ \A b \in DOMAIN breakouts : breakouts'[b] = breakouts[b]
    <3>1. DOMAIN SetToBag(N) = N /\ \A b \in N : SetToBag(N)[b] = 1
      BY DEF SetToBag
    <3>2. \A b \in DOMAIN breakouts : breakouts[b] = 1
      BY DEF BreakoutsAreSeen
    <3>3. breakouts' = breakouts (+) SetToBag(N)
      BY <2>1, <2>2
    <3>4. PICK M : M = SetToBag(N)
      OBVIOUS
    <3>5. breakouts' = [e \in (DOMAIN breakouts) \cup (DOMAIN M) |->
                          (IF e \in DOMAIN breakouts THEN breakouts[e] ELSE 0)
                        + (IF e \in DOMAIN M THEN M[e] ELSE 0)]
      BY <3>3, <3>4 DEF (+)
    <3> QED BY <2>4, <3>1, <3>2, <3>4, <3>5
  <2>6. \A s \in broken : CameThrough(s, Today)
    <3>1. SUFFICES ASSUME NEW s \in broken PROVE CameThrough(s, Today)
      OBVIOUS
    <3>2. PICK t \in passed : t[1] = s
      BY <2>1
    <3>3. PICK c \in screened : t = <<c.symbol, c.day>>
      BY <3>2 DEF BreakoutsAreSeen
    <3>4. c.symbol = s /\ c.day <= Today
      BY <3>2, <3>3 DEF BreakoutsAreSeen
    <3> QED BY <3>2, <3>3, <3>4 DEF CameThrough
  <2>7. \A s, d : CameThrough(s, d)' = CameThrough(s, d)
    BY <2>1 DEF CameThrough
  <2>8. ASSUME NEW b \in DOMAIN breakouts'
        PROVE  /\ breakouts'[b] = 1 /\ CameThrough(b.symbol, b.day)'
               /\ b.life \in Nat /\ b.life <= screenLife'
               /\ b.life = screenLife' => <<b.symbol, b.day>> \in brSeen'
    <3>1. CASE b \in N
      BY <1>0, <2>1, <2>3, <2>5, <2>6, <2>7, <3>1
    <3>2. CASE b \in DOMAIN breakouts
      BY <2>1, <2>5, <2>7, <3>2 DEF BreakoutsAreSeen
    <3> QED BY <2>5, <2>8, <3>1, <3>2
  <2> QED BY <1>0, <1>1, <2>1, <2>8 DEF BreakoutsAreSeen
<1>7. CASE ScreenRestart
  BY <1>0, <1>1, <1>2, <1>7 DEF ScreenRestart, BreakoutsAreSeen
<1> QED BY <1>3, <1>4, <1>5, <1>6, <1>7, ScreenFrame, Zenon DEF ScreenStep

\* One life of the ants signals a stock once a day at most, and only one that both scorings let
\* through (BreakoutAnt._check_breakout).
THEOREM SignalsStayOncePerDay == MillSpec => []SignalledOncePerDay
<1>1. BreakoutsAreSeen => SignalledOncePerDay
  BY DEF BreakoutsAreSeen, SignalledOncePerDay, CameThrough, BagToSet
<1> QED BY <1>1, ScreenInitHolds, ScreenStepHolds, PTL DEF MillSpec

--------------------------------------------------------------------------------
(* The hedge. *)

\* To the hedge a step is its own or none of its.
LEMMA HedgeFrame ==
  ASSUME [MillNext]_vars
  PROVE  HedgeStep \/ UNCHANGED hedgeVars
<1>1. CASE SetupStep
  BY <1>1, Zenon DEF SetupStep
<1>2. CASE UNCHANGED setupVars
  BY <1>2, Zenon DEF setupVars
<1> QED BY <1>1, <1>2, SetupFrame, Zenon

HedgeRegimes == {"REDUCE_EQUITY", "HEDGE", "NORMAL"}
OrderLines   == [day : Nat, regime : HedgeRegimes, life : Nat, blind : BOOLEAN]

HedgeTypes ==
  /\ now \in 0 .. MaxNow /\ rbLife \in Nat /\ misled \in BOOLEAN
  /\ vixSignals \in [Days -> SUBSET HedgeRegimes]
  /\ orders \in Seq(OrderLines)

\* The rebalance ant knows when the last order was, and what for unless it was misled.
LastOrderIsKnown ==
  /\ HedgeTypes
  /\ \A n \in DOMAIN orders : orders[n].day <= Today
  /\ \A m, n \in DOMAIN orders : m < n => orders[m].day <= orders[n].day
  /\ orders = <<>> => lastOrder = NoOrder /\ ~misled
  /\ orders # <<>> => /\ lastOrder.day = orders[Len(orders)].day
                      /\ lastOrder.regime \in HedgeRegimes
                      /\ ~misled => lastOrder.regime = orders[Len(orders)].regime
  /\ orders = <<>> => regimeRead = "none"
  /\ OrdersTrackRegime

\* What is read of the regime is one, of those there are.
LEMMA LatestRegimesAreTyped ==
  ASSUME HedgeTypes
  PROVE  LatestRegimes \subseteq HedgeRegimes
<1>1. PICK D : D = {d \in Days : vixSignals[d] # {}}
  OBVIOUS
<1>2. CASE D = {}
  BY <1>1, <1>2 DEF LatestRegimes, HedgeRegimes
<1>3. CASE D # {}
  <2>1. Max(D) \in D
    BY <1>1, <1>3, LatestDay DEF HedgeTypes
  <2>2. LatestRegimes = vixSignals[Max(D)]
    BY <1>1, <1>3 DEF LatestRegimes
  <2> QED BY <1>1, <2>1, <2>2 DEF HedgeTypes
<1> QED BY <1>2, <1>3

\* Nothing is ordered at first.
LEMMA HedgeInitHolds == MillInit => LastOrderIsKnown
<1> SUFFICES ASSUME MillInit PROVE LastOrderIsKnown
  OBVIOUS
<1>1. /\ now = 0 /\ rbLife = 1 /\ misled = FALSE /\ vixSignals = [d \in Days |-> {}]
      /\ orders = <<>> /\ lastOrder = NoOrder /\ regimeRead = "none"
  BY DEF MillInit, HedgeInit
<1>2. HedgeTypes
  <2>1. now \in 0 .. MaxNow /\ rbLife \in Nat /\ orders \in Seq(OrderLines)
    <3>1. now = 0 /\ rbLife = 1 /\ orders = <<>>
      BY <1>1
    <3> QED BY <3>1, TimeAssumption
  <2>3. misled \in BOOLEAN
    BY <1>1, Zenon
  <2>2. vixSignals \in [Days -> SUBSET HedgeRegimes]
    BY <1>1
  <2> QED BY <2>1, <2>2, <2>3 DEF HedgeTypes
<1>3. OrdersTrackRegime
  BY <1>1 DEF OrdersTrackRegime
<1> QED BY <1>1, <1>2, <1>3 DEF LastOrderIsKnown

\* The rebalance ant knows when the last order was, and what for unless it was misled.
LEMMA HedgeStepHolds == LastOrderIsKnown /\ [MillNext]_vars => LastOrderIsKnown'
<1> SUFFICES ASSUME LastOrderIsKnown, [MillNext]_vars PROVE LastOrderIsKnown'
  OBVIOUS
<1>0. /\ HedgeTypes /\ now' \in 0 .. MaxNow /\ Today \in Nat /\ Today' \in Nat /\ Today <= Today'
      /\ Today \in Days /\ orders \in Seq(OrderLines) /\ rbLife \in Nat /\ misled \in BOOLEAN
      /\ vixSignals \in [Days -> SUBSET HedgeRegimes]
  BY NowFrame, TodayComes, TodayIsADay DEF LastOrderIsKnown, HedgeTypes
<1>1. \A n \in DOMAIN orders :
        /\ orders[n].day \in Nat /\ orders[n].day <= Today /\ orders[n].day <= Today'
        /\ orders[n].regime \in HedgeRegimes /\ orders[n].blind \in BOOLEAN
  <2>1. \A n \in DOMAIN orders : orders[n] \in OrderLines
    BY <1>0
  <2>2. \A n \in DOMAIN orders : orders[n].day \in Nat /\ orders[n].day <= Today
    BY <2>1 DEF OrderLines, LastOrderIsKnown
  <2> QED BY <1>0, <2>1, <2>2 DEF OrderLines
<1>2. CASE /\ UNCHANGED <<orders, lastOrder, regimeRead, rbLife, misled>>
           /\ vixSignals' \in [Days -> SUBSET HedgeRegimes]
  BY <1>0, <1>1, <1>2 DEF LastOrderIsKnown, HedgeTypes, OrdersTrackRegime
<1>3. CASE UNCHANGED hedgeVars
  BY <1>0, <1>2, <1>3 DEF hedgeVars
<1>4. CASE VolatilityTick
  <2>1. PICK vix \in Vix : vixSignals' = [vixSignals EXCEPT ![Today] = @ \cup {RegimeOf(vix)}]
    BY <1>4 DEF VolatilityTick
  <2>2. RegimeOf(vix) \in HedgeRegimes
    BY DEF RegimeOf, HedgeRegimes
  <2>3. vixSignals' \in [Days -> SUBSET HedgeRegimes]
    BY <1>0, <2>1, <2>2
  <2> QED BY <1>2, <1>4, <2>3 DEF VolatilityTick
<1>5. CASE VolatilityRestart \/ DividendTick
  BY <1>0, <1>2, <1>5 DEF VolatilityRestart, DividendTick
<1>6. CASE RebalanceTick
  <2>1. PICK regime \in HedgeRegimes :
          /\ regimeRead' = regime
          /\ IF Triggers(regime)
               THEN /\ orders' = Append(orders,
                         [day |-> Today, regime |-> regime, life |-> rbLife, blind |-> misled])
                    /\ lastOrder' = [day |-> Today, regime |-> regime]
                    /\ misled' = FALSE
               ELSE UNCHANGED <<orders, lastOrder, misled>>
          /\ UNCHANGED <<vixSignals, vixDates, payers, rbLife>>
    BY <1>0, <1>6, LatestRegimesAreTyped DEF RebalanceTick
  <2>2. CASE ~ Triggers(regime)
    <3>1. UNCHANGED <<orders, lastOrder, misled, vixSignals, rbLife>> /\ regimeRead' = regime
      BY <2>1, <2>2
    <3>2. lastOrder # NoOrder /\ regime = lastOrder.regime
      BY <2>2 DEF Triggers
    <3>3. orders # <<>>
      BY <3>2 DEF LastOrderIsKnown
    <3>4. ~misled => Last(orders).regime = regime
      BY <3>2, <3>3 DEF LastOrderIsKnown, Last
    <3> QED BY <1>0, <1>1, <3>1, <3>3, <3>4 DEF LastOrderIsKnown, HedgeTypes, OrdersTrackRegime
  <2>3. CASE Triggers(regime)
    <3>1. PICK line \in OrderLines :
            /\ orders' = Append(orders, line) /\ line.day = Today /\ line.regime = regime
            /\ line.blind = misled
      <4>1. [day |-> Today, regime |-> regime, life |-> rbLife, blind |-> misled] \in OrderLines
        BY <1>0, <2>1 DEF OrderLines
      <4> QED BY <2>1, <2>3, <4>1
    <3>2. /\ lastOrder' = [day |-> Today, regime |-> regime] /\ misled' = FALSE
          /\ regimeRead' = regime /\ UNCHANGED <<vixSignals, rbLife>>
      BY <2>1, <2>3
    <3> HIDE DEF OrderLines
    <3>3. PICK k \in Nat : /\ k = Len(orders) /\ DOMAIN orders = 1 .. k
                           /\ DOMAIN orders' = 1 .. k + 1 /\ Len(orders') = k + 1
                           /\ orders' \in Seq(OrderLines)
                           /\ \A n \in 1 .. k : orders'[n] = orders[n]
                           /\ orders'[k + 1] = line
      <4>1. orders \in Seq(OrderLines) /\ line \in OrderLines /\ orders' = Append(orders, line)
        BY <1>0, <3>1
      <4>2. Len(orders) \in Nat /\ DOMAIN orders = 1 .. Len(orders)
        BY <4>1
      <4>3. /\ Append(orders, line) \in Seq(OrderLines)
            /\ Len(Append(orders, line)) = Len(orders) + 1
            /\ DOMAIN Append(orders, line) = 1 .. Len(orders) + 1
            /\ \A n \in 1 .. Len(orders) : Append(orders, line)[n] = orders[n]
            /\ Append(orders, line)[Len(orders) + 1] = line
        BY <4>1, <4>2, AppendProperties
      <4> QED BY <4>1, <4>2, <4>3, Zenon
    <3>4. \A n \in 1 .. k + 1 : n \in 1 .. k \/ n = k + 1
      BY <3>3
    <3>5. \A n \in DOMAIN orders' : orders'[n].day <= Today'
      BY <1>0, <1>1, <3>1, <3>3, <3>4
    <3>6. \A m, n \in DOMAIN orders' : m < n => orders'[m].day <= orders'[n].day
      <4>1. SUFFICES ASSUME NEW m \in 1 .. k + 1, NEW n \in 1 .. k + 1, m < n
                     PROVE  orders'[m].day <= orders'[n].day
        BY <3>3
      <4>2. CASE n \in 1 .. k
        BY <3>3, <4>1, <4>2 DEF LastOrderIsKnown
      <4>3. CASE n = k + 1
        <5>1. m \in 1 .. k
          BY <4>1, <4>3
        <5> QED BY <1>1, <3>1, <3>3, <4>3, <5>1
      <4> QED BY <3>4, <4>2, <4>3
    <3>7. orders' # <<>> /\ Last(orders') = line
      BY <3>3 DEF Last
    <3>8. OrdersTrackRegime'
      <4>1. ASSUME NEW n \in 2 .. k + 1
            PROVE  \/ orders'[n].blind
                   \/ orders'[n].regime # orders'[n - 1].regime
                   \/ orders'[n].day - orders'[n - 1].day >= Quarter
        <5>1. CASE n \in 2 .. k
          BY <3>3, <5>1 DEF LastOrderIsKnown, OrdersTrackRegime
        <5>2. CASE n = k + 1
          <6>1. k \in 1 .. k /\ orders # <<>> /\ orders'[n - 1] = orders[k] /\ orders'[n] = line
            BY <3>3, <4>1, <5>2
          <6>2. /\ lastOrder.day = orders[k].day /\ lastOrder.regime \in HedgeRegimes
                /\ ~misled => lastOrder.regime = orders[k].regime
            BY <3>3, <6>1 DEF LastOrderIsKnown
          <6>3. lastOrder # NoOrder
            BY <6>2 DEF NoOrder, HedgeRegimes
          <6> QED BY <2>3, <3>1, <6>1, <6>2, <6>3 DEF Triggers
        <5> QED BY <3>4, <4>1, <5>1, <5>2
      <4> QED BY <3>1, <3>2, <3>3, <3>7, <4>1 DEF OrdersTrackRegime
    <3>9. /\ lastOrder'.day = orders'[Len(orders')].day /\ lastOrder'.regime \in HedgeRegimes
          /\ lastOrder'.regime = orders'[Len(orders')].regime
      BY <2>1, <3>1, <3>2, <3>3
    <3>10. HedgeTypes'
      BY <1>0, <3>2, <3>3 DEF HedgeTypes
    <3> QED BY <3>2, <3>5, <3>6, <3>7, <3>8, <3>9, <3>10 DEF LastOrderIsKnown
  <2> QED BY <2>2, <2>3
<1>7. CASE RebalanceRestart
  <2>1. UNCHANGED <<vixSignals, orders>> /\ rbLife' = rbLife + 1 /\ regimeRead' = "none"
    BY <1>7 DEF RebalanceRestart
  <2>2. CASE orders = <<>>
    <3>1. lastOrder' = NoOrder /\ misled' = FALSE /\ orders' = <<>>
      BY <1>7, <2>1, <2>2 DEF RebalanceRestart
    <3>2. OrdersTrackRegime'
      BY <2>1, <3>1 DEF OrdersTrackRegime
    <3>3. HedgeTypes'
      <4>1. orders' \in Seq(OrderLines) /\ rbLife' \in Nat
        BY <1>0, <2>1
      <4>2. misled' \in BOOLEAN
        BY <3>1, Zenon
      <4> QED BY <1>0, <2>1, <4>1, <4>2 DEF HedgeTypes
    <3> QED BY <2>1, <3>1, <3>2, <3>3 DEF LastOrderIsKnown
  <2>3. CASE orders # <<>>
    <3>1. PICK n \in Restorable :
             /\ lastOrder' = [day |-> orders[n].day, regime |-> orders[n].regime]
             /\ misled' = (orders[n].regime # Last(orders).regime)
      BY <1>7, <2>3 DEF RebalanceRestart
    <3>2. PICK k \in Nat : k = Len(orders) /\ DOMAIN orders = 1 .. k /\ k \in 1 .. k
      BY <1>0, <2>3
    <3>3. n \in 1 .. k /\ orders[k].day <= orders[n].day
      BY <3>1, <3>2 DEF Restorable
    <3>4. orders[n].day <= orders[k].day
      BY <1>1, <3>2, <3>3 DEF LastOrderIsKnown
    <3>5. lastOrder'.day = orders[k].day /\ lastOrder'.regime \in HedgeRegimes
          /\ (~misled' => lastOrder'.regime = orders[k].regime)
      <4>1. orders[n].day = orders[k].day /\ orders[n].regime \in HedgeRegimes
        BY <1>1, <3>2, <3>3, <3>4
      <4>2. Last(orders) = orders[k]
        BY <3>2 DEF Last
      <4>3. lastOrder'.day = orders[n].day /\ lastOrder'.regime = orders[n].regime
        BY <3>1
      <4> QED BY <3>1, <4>1, <4>2, <4>3
    <3>6. HedgeTypes'
      BY <1>0, <2>1, <3>1 DEF HedgeTypes
    <3> QED BY <1>1, <2>1, <2>3, <3>2, <3>5, <3>6 DEF LastOrderIsKnown, OrdersTrackRegime
  <2> QED BY <2>2, <2>3
<1> QED BY <1>3, <1>4, <1>5, <1>6, <1>7, HedgeFrame, Zenon DEF HedgeStep

\* An order is for another regime than the one before it or comes a quarter later, and the last
\* is for the regime last read, unless a restart went by an order that was not the last of its
\* day (_restore_state).
THEOREM OrdersStayOnTrack == MillSpec => []OrdersTrackRegime
<1>1. LastOrderIsKnown => OrdersTrackRegime
  BY DEF LastOrderIsKnown
<1> QED BY <1>1, HedgeInitHolds, HedgeStepHolds, PTL DEF MillSpec

--------------------------------------------------------------------------------
(* The book of the equities paper ant: the inductive invariant. *)

\* What lines say is opened, closed, and a new high.
OpensIn(lines)  == {line.position : line \in {l \in Range(lines) : l.what = "opened"}}
ClosesIn(lines) == {[id |-> line.id, lost |-> line.lost, at |-> line.at] :
                      line \in {l \in Range(lines) : l.what = "closed"}}
RisesIn(lines)  == {line \in Range(lines) : line.what = "peak"}

AllOpened == openedLog \cup OpensIn(unwritten)
AllClosed == closedLog \cup ClosesIn(unwritten)
Unclosed  == {p \in AllOpened : \A c \in closedLog : c.id # p.id}

OpenedLine(p) == [what |-> "opened", position |-> p]
ClosedLine(c) == [what |-> "closed", id |-> c.id, lost |-> c.lost, at |-> c.at]
Closes == [id : Ids, lost : BOOLEAN, at : 0 .. MaxNow]
Rises  == [what : {"peak"}, id : Ids, price : Prices]

BookTypes ==
  /\ now \in 0 .. MaxNow
  /\ \A s \in spotted : s[1] \in EqSymbols
  /\ snapshot.order = <<>> \/ snapshot.order \in SectorRankings
  /\ \A s \in toTake : s[3] \in EqSymbols
  /\ IsFiniteSet(openedLog) /\ IsFiniteSet(closedLog) /\ closedLog \subseteq Closes
  /\ \A p \in AllOpened : p.id \in Ids /\ p.symbol \in EqSymbols /\ p.entry \in Prices /\ p.at \in Nat
  /\ restUntil \in [EqSymbols -> Nat]
  /\ peak \in [Ids -> Nat] /\ peakLog \in [Ids -> [BookLives -> Nat]]
  /\ bookLife \in BookLives

\* Something opened is written alone, a new high before what closes the position.
LinesInOrder ==
  \/ unwritten = <<>>
  \/ \E p \in AllOpened : unwritten = <<OpenedLine(p)>>
  \/ \E c \in Closes : unwritten = <<ClosedLine(c)>>
  \/ \E r \in Rises : unwritten = <<r>>
  \/ \E r \in Rises, c \in Closes : unwritten = <<r, ClosedLine(c)>>

\* Ids are given out in order, again only if the line did not reach the log.
IdsAreOwn ==
  /\ \A p \in openedLog : p.id <= Cardinality(openedLog)
  /\ \A p \in OpensIn(unwritten) : p.id = Cardinality(openedLog) + 1
  /\ \A p, q \in AllOpened : p.id = q.id => p = q
  /\ \A c \in AllClosed : c.at <= now /\ \E p \in openedLog : p.id = c.id

\* The ant holds what the logs will say is open once everything is written.
BookIsLogged ==
  /\ book = {p \in AllOpened : \A c \in AllClosed : c.id # p.id}
  /\ held = {p.symbol : p \in book}
  /\ toCheck \subseteq book
  /\ Cardinality(Unclosed) <= MaxPositions
  /\ \A p \in Unclosed, o \in AllOpened : o.symbol = p.symbol => o.id <= p.id

\* A symbol closed for lost momentum rests, or has rested.
RestsAreKnown ==
  \A c \in AllClosed, p \in AllOpened :
    c.lost /\ p.id = c.id =>
      /\ c.at + Cooldown <= now \/ c.at + Cooldown <= restUntil[p.symbol]
      /\ \A o \in AllOpened : o.symbol = p.symbol /\ c.id < o.id => o.at >= c.at + Cooldown

\* The highs in the logs are of positions there, and of lives there were.
HighsAreKnown ==
  /\ \A i \in Ids, l \in BookLives :
       peakLog[i][l] # 0 =>
         l <= bookLife /\ \E p \in openedLog : p.id = i /\ p.entry <= peakLog[i][l]
  /\ \A r \in RisesIn(unwritten) : \E p \in openedLog :
       /\ p.id = r.id /\ p.entry <= r.price
       /\ p \in book => r.price <= peak[p.id]

BookIsSound ==
  /\ BookTypes /\ LinesInOrder /\ IdsAreOwn /\ BookIsLogged /\ RestsAreKnown
  /\ HighsAreKnown /\ StopsNeverFall

--------------------------------------------------------------------------------
(* What leaves the book as it is, and lemmas on lines and logs. *)

\* A step of the colony is one of the equities paper ant, its scout or the execution ant, or
\* none of theirs.
LEMMA TradeFrame ==
  ASSUME [MillNext]_vars
  PROVE  (TradeStep /\ UNCHANGED setupVars) \/ UNCHANGED tradeVars
  BY Zenon DEF MillNext, vars

\* To the book a step is its own, or time and the scout go on beside it.
LEMMA BookFrame ==
  ASSUME [MillNext]_vars
  PROVE  \/ BookStep /\ UNCHANGED <<now, scoutVars>>
         \/ (now' = now \/ TimePasses) /\ (SectorScoutTick \/ UNCHANGED scoutVars) /\ UNCHANGED bookVars
<1>0. now' = now \/ TimePasses
  BY NowFrame
<1>1. CASE TradeStep /\ UNCHANGED setupVars
  BY <1>0, <1>1, Zenon DEF TradeStep, setupVars
<1>2. CASE UNCHANGED tradeVars
  BY <1>0, <1>2, Zenon DEF tradeVars
<1> QED BY <1>1, <1>2, TradeFrame, Zenon

\* The first of a ranking are symbols.
LEMMA FirstAreSymbols ==
  ASSUME NEW order, order = <<>> \/ order \in SectorRankings, NEW n \in Nat \ {0}
  PROVE  FirstOf(order, n) \subseteq EqSymbols
<1>1. order \in Seq(Range(order)) /\ Range(order) \subseteq EqSymbols
  <2>1. CASE order = <<>>
    BY <2>1 DEF Range
  <2>2. CASE order \in SectorRankings
    BY <2>2, ScoutAssumption DEF EqSymbols
  <2> QED BY <2>1, <2>2
<1>2. PICK m : m = Min({n, Len(order)})
  OBVIOUS
<1>3. m \in 0 .. Len(order)
  <2>1. Len(order) \in Nat
    BY <1>1
  <2>2. \E x \in {n, Len(order)} : \A y \in {n, Len(order)} : x <= y
    BY <2>1
  <2>3. m \in {n, Len(order)} /\ \A y \in {n, Len(order)} : m <= y
    BY <1>2, <2>2, Zenon DEF Min
  <2> QED BY <2>1, <2>3
<1>4. SubSeq(order, 1, m) \in Seq(Range(order))
  BY <1>1, <1>3
<1>5. Range(SubSeq(order, 1, m)) \subseteq Range(order)
  <2>1. PICK q \in Seq(Range(order)) : q = SubSeq(order, 1, m)
    BY <1>4
  <2>2. \A i \in DOMAIN q : q[i] \in Range(order)
    BY <2>1
  <2>3. Range(q) \subseteq Range(order)
    BY <2>2, Zenon DEF Range
  <2> QED BY <2>1, <2>3
<1> QED BY <1>1, <1>2, <1>5 DEF FirstOf

\* What a few lines say.
LEMMA NoLines ==
  OpensIn(<<>>) = {} /\ ClosesIn(<<>>) = {} /\ RisesIn(<<>>) = {}
<1>1. Range(<<>>) = {}
  BY DEF Range
<1> QED BY <1>1 DEF OpensIn, ClosesIn, RisesIn

\* What a single line says.
LEMMA LinesOfOne ==
  ASSUME NEW x
  PROVE  /\ OpensIn(<<x>>) = IF x.what = "opened" THEN {x.position} ELSE {}
         /\ ClosesIn(<<x>>) = IF x.what = "closed" THEN {[id |-> x.id, lost |-> x.lost, at |-> x.at]} ELSE {}
         /\ RisesIn(<<x>>) = IF x.what = "peak" THEN {x} ELSE {}
<1>1. Range(<<x>>) = {x}
  BY DEF Range
<1> QED BY <1>1 DEF OpensIn, ClosesIn, RisesIn

\* What the line of a position opened says.
LEMMA OpenedAlone ==
  ASSUME NEW p
  PROVE  /\ OpensIn(<<OpenedLine(p)>>) = {p} /\ ClosesIn(<<OpenedLine(p)>>) = {}
         /\ RisesIn(<<OpenedLine(p)>>) = {}
<1>1. PICK x : x = OpenedLine(p)
  OBVIOUS
<1>2. x.what = "opened" /\ x.position = p
  BY <1>1 DEF OpenedLine
<1> QED BY <1>1, <1>2, LinesOfOne

\* What the line of a position closed says.
LEMMA ClosedAlone ==
  ASSUME NEW c \in Closes
  PROVE  /\ OpensIn(<<ClosedLine(c)>>) = {} /\ ClosesIn(<<ClosedLine(c)>>) = {c}
         /\ RisesIn(<<ClosedLine(c)>>) = {}
<1>1. PICK x : x = ClosedLine(c)
  OBVIOUS
<1>2. x.what = "closed" /\ [id |-> x.id, lost |-> x.lost, at |-> x.at] = c
  BY <1>1 DEF ClosedLine, Closes
<1> QED BY <1>1, <1>2, LinesOfOne

\* What the line of a new high says.
LEMMA RiseAlone ==
  ASSUME NEW r \in Rises
  PROVE  OpensIn(<<r>>) = {} /\ ClosesIn(<<r>>) = {} /\ RisesIn(<<r>>) = {r}
<1>1. r.what = "peak"
  BY DEF Rises
<1> QED BY <1>1, LinesOfOne

\* What a new high with the close it led to says.
LEMMA RiseAndClosed ==
  ASSUME NEW r \in Rises, NEW c \in Closes
  PROVE  /\ OpensIn(<<r, ClosedLine(c)>>) = {} /\ ClosesIn(<<r, ClosedLine(c)>>) = {c}
         /\ RisesIn(<<r, ClosedLine(c)>>) = {r}
<1>1. PICK x : x = ClosedLine(c)
  OBVIOUS
<1>2. x.what = "closed" /\ [id |-> x.id, lost |-> x.lost, at |-> x.at] = c
  BY <1>1 DEF ClosedLine, Closes
<1>3. r.what = "peak"
  BY DEF Rises
<1>4. Range(<<r, x>>) = {r, x}
  BY DEF Range
<1>5. {l \in {r, x} : l.what = "closed"} = {x} /\ {l \in {r, x} : l.what = "opened"} = {}
  BY <1>2, <1>3
<1>6. {l \in {r, x} : l.what = "peak"} = {r}
  BY <1>2, <1>3
<1>7. OpensIn(<<r, x>>) = {} /\ RisesIn(<<r, x>>) = {r}
  BY <1>4, <1>5, <1>6 DEF OpensIn, RisesIn
<1>8. ClosesIn(<<r, x>>) = {[id |-> y.id, lost |-> y.lost, at |-> y.at] : y \in {x}}
  BY <1>4, <1>5, Zenon DEF ClosesIn
<1> QED BY <1>1, <1>2, <1>7, <1>8

\* No two positions the ant holds have the same symbol, nor two that are opened the same id.
LEMMA SymbolsAreOwn ==
  ASSUME BookTypes, IdsAreOwn, BookIsLogged, NEW p \in book, NEW q \in book, p.symbol = q.symbol
  PROVE  p = q
<1>1. p \in Unclosed /\ q \in Unclosed /\ p \in AllOpened /\ q \in AllOpened
  BY DEF BookIsLogged, Unclosed, AllClosed
<1>2. p.id <= q.id /\ q.id <= p.id
  BY <1>1 DEF BookIsLogged
<1>3. p.id \in Int /\ q.id \in Int
  BY <1>1, BookAssumption DEF BookTypes, Ids
<1>4. p.id = q.id
  BY <1>2, <1>3
<1> QED BY <1>1, <1>4 DEF IdsAreOwn

\* The ant holds as many symbols as positions, and no more than it may.
LEMMA BookFitsSymbols ==
  ASSUME BookIsSound
  PROVE  /\ IsFiniteSet(AllOpened) /\ IsFiniteSet(Unclosed) /\ IsFiniteSet(book)
         /\ Cardinality(book) = Cardinality(held) /\ Cardinality(book) <= MaxPositions
<1>1. IsFiniteSet(OpensIn(unwritten))
  <2>1. CASE OpensIn(unwritten) = {}
    BY <2>1, FS_EmptySet
  <2>2. CASE \E p : OpensIn(unwritten) = {p}
    BY <2>2, FS_Singleton
  <2> QED BY <2>1, <2>2, NoLines, OpenedAlone, ClosedAlone, RiseAlone, RiseAndClosed DEF BookIsSound, LinesInOrder
<1>2. IsFiniteSet(AllOpened)
  BY <1>1, FS_Union DEF AllOpened, BookIsSound, BookTypes
<1>3. IsFiniteSet(Unclosed) /\ IsFiniteSet(book) /\ Cardinality(book) <= Cardinality(Unclosed)
  <2>1. Unclosed \subseteq AllOpened /\ book \subseteq Unclosed
    BY DEF BookIsSound, BookIsLogged, Unclosed, AllClosed
  <2> QED BY <1>2, <2>1, FS_Subset
<1>4. Cardinality(book) = Cardinality(held)
  <2>1. PICK f : f = [p \in book |-> p.symbol]
    OBVIOUS
  <2>2. f \in Surjection(book, held)
    BY <2>1 DEF Surjection, BookIsSound, BookIsLogged
  <2>3. f \in Injection(book, held)
    <3>1. \A p, q \in book : f[p] = f[q] => p = q
      BY <2>1, SymbolsAreOwn DEF BookIsSound
    <3> QED BY <2>2, <3>1 DEF Surjection, Injection, IsInjective
  <2> QED BY <1>3, <2>2, <2>3, FS_Surjection
<1>5. Cardinality(book) \in Nat /\ Cardinality(Unclosed) \in Nat /\ MaxPositions \in Nat
  BY <1>3, FS_CardinalityType, BookAssumption
<1> QED BY <1>2, <1>3, <1>4, <1>5 DEF BookIsSound, BookIsLogged

--------------------------------------------------------------------------------
(* The beginning, and small steps. *)

\* Nothing is open at first.
LEMMA BookInitHolds == MillInit => BookIsSound
<1> SUFFICES ASSUME MillInit PROVE BookIsSound
  OBVIOUS
<1>1. /\ now = 0 /\ snapshot = NoSnapshot /\ spotted = {}
      /\ book = {} /\ held = {} /\ toCheck = {} /\ toTake = {} /\ unwritten = <<>> /\ bookLife = 1
      /\ peak = [p \in Ids |-> 0] /\ restUntil = [s \in EqSymbols |-> 0]
      /\ openedLog = {} /\ closedLog = {} /\ peakLog = [p \in Ids |-> [l \in BookLives |-> 0]]
  BY DEF MillInit, SectorScoutInit, BookInit
<1>2. AllOpened = {} /\ AllClosed = {} /\ Unclosed = {} /\ RisesIn(unwritten) = {} /\ OpensIn(unwritten) = {}
  BY <1>1, NoLines DEF AllOpened, AllClosed, Unclosed
<1>3. BookTypes
  <2>1. now \in 0 .. MaxNow /\ bookLife \in BookLives
    BY <1>1, TimeAssumption, BookAssumption DEF BookLives
  <2>2. IsFiniteSet(openedLog) /\ IsFiniteSet(closedLog) /\ closedLog \subseteq Closes
    BY <1>1, FS_EmptySet
  <2>3. peak \in [Ids -> Nat] /\ peakLog \in [Ids -> [BookLives -> Nat]] /\ restUntil \in [EqSymbols -> Nat]
    BY <1>1
  <2>4. snapshot.order = <<>>
    BY <1>1 DEF NoSnapshot
  <2> QED BY <1>1, <1>2, <2>1, <2>2, <2>3, <2>4 DEF BookTypes
<1>4. LinesInOrder /\ IdsAreOwn /\ RestsAreKnown
  BY <1>1, <1>2 DEF LinesInOrder, IdsAreOwn, RestsAreKnown
<1>5. BookIsLogged
  <2>1. Cardinality(Unclosed) <= MaxPositions
    BY <1>2, FS_EmptySet, BookAssumption
  <2> QED BY <1>1, <1>2, <2>1 DEF BookIsLogged
<1>6. HighsAreKnown /\ StopsNeverFall
  <2>1. \A i \in Ids, l \in BookLives : peakLog[i][l] = 0
    BY <1>1
  <2> QED BY <1>1, <1>2, <2>1 DEF HighsAreKnown, StopsNeverFall
<1> QED BY <1>3, <1>4, <1>5, <1>6 DEF BookIsSound

\* Steps that leave the positions and the logs alone.
LEMMA QuietKeeps ==
  ASSUME BookIsSound, now' \in 0 .. MaxNow, now <= now', toCheck' \subseteq book,
         UNCHANGED <<book, held, peak, restUntil, unwritten, bookLife, openedLog, closedLog, peakLog>>,
         \A s \in spotted' : s[1] \in EqSymbols,
         snapshot'.order = <<>> \/ snapshot'.order \in SectorRankings,
         \A s \in toTake' : s[3] \in EqSymbols
  PROVE  BookIsSound'
<1>1. /\ AllOpened' = AllOpened /\ AllClosed' = AllClosed /\ Unclosed' = Unclosed
      /\ RisesIn(unwritten') = RisesIn(unwritten) /\ OpensIn(unwritten') = OpensIn(unwritten)
  BY DEF AllOpened, AllClosed, Unclosed
<1>2. now \in Nat /\ now' \in Nat /\ Cooldown \in Nat
  BY TimeAssumption, BookAssumption DEF BookIsSound, BookTypes
<1>3. BookTypes' /\ LinesInOrder'
  BY <1>1 DEF BookIsSound, BookTypes, LinesInOrder
<1>4. IdsAreOwn'
  <2>1. \A c \in AllClosed : c.at \in Nat
    <3>1. \A c \in ClosesIn(unwritten) : c \in Closes
      BY NoLines, OpenedAlone, ClosedAlone, RiseAlone, RiseAndClosed DEF BookIsSound, LinesInOrder
    <3> QED BY <3>1 DEF AllClosed, BookIsSound, BookTypes, Closes
  <2>2. \A c \in AllClosed : c.at <= now'
    BY <1>2, <2>1 DEF BookIsSound, IdsAreOwn
  <2> QED BY <1>1, <2>2 DEF BookIsSound, IdsAreOwn
<1>5. BookIsLogged'
  BY <1>1 DEF BookIsSound, BookIsLogged
<1>6. RestsAreKnown'
  <2>1. SUFFICES ASSUME NEW c \in AllClosed, NEW p \in AllOpened, c.lost, p.id = c.id
                 PROVE  /\ c.at + Cooldown <= now' \/ c.at + Cooldown <= restUntil[p.symbol]
                        /\ \A o \in AllOpened : o.symbol = p.symbol /\ c.id < o.id => o.at >= c.at + Cooldown
    BY <1>1 DEF RestsAreKnown
  <2>2. c.at \in Nat
    <3>1. \A k \in ClosesIn(unwritten) : k \in Closes
      BY NoLines, OpenedAlone, ClosedAlone, RiseAlone, RiseAndClosed DEF BookIsSound, LinesInOrder
    <3> QED BY <3>1 DEF AllClosed, BookIsSound, BookTypes, Closes
  <2>3. /\ c.at + Cooldown <= now \/ c.at + Cooldown <= restUntil[p.symbol]
        /\ \A o \in AllOpened : o.symbol = p.symbol /\ c.id < o.id => o.at >= c.at + Cooldown
    BY <2>1 DEF BookIsSound, RestsAreKnown
  <2> QED BY <1>2, <2>2, <2>3
<1>7. HighsAreKnown' /\ StopsNeverFall'
  BY <1>1 DEF BookIsSound, HighsAreKnown, StopsNeverFall
<1> QED BY <1>3, <1>4, <1>5, <1>6, <1>7 DEF BookIsSound

\* A position the ant checks, between lines: in the log, and the only one of its id.
LEMMA CheckedIsLogged ==
  ASSUME BookIsSound, NEW p \in toCheck, Checked(p)
  PROVE  /\ unwritten = <<>> /\ p \in book /\ p \in openedLog
         /\ AllOpened = openedLog /\ AllClosed = closedLog /\ Unclosed = book
         /\ p.id \in Ids /\ p.symbol \in EqSymbols /\ p.entry \in Prices /\ Prices \subseteq Nat \ {0}
         /\ toCheck' = toCheck \ {p} /\ now \in Nat /\ now \in 0 .. MaxNow
<1>1. unwritten = <<>> /\ toCheck' = toCheck \ {p}
  BY DEF Checked, Working
<1>2. AllOpened = openedLog /\ AllClosed = closedLog
  BY <1>1, NoLines DEF AllOpened, AllClosed
<1>3. Unclosed = book
  BY <1>2 DEF Unclosed, BookIsSound, BookIsLogged
<1>4. p \in book /\ p \in openedLog
  BY <1>2 DEF BookIsSound, BookIsLogged
<1>5. now \in 0 .. MaxNow /\ now \in Nat
  BY TimeAssumption DEF BookIsSound, BookTypes
<1> QED BY <1>1, <1>2, <1>3, <1>4, <1>5, BookAssumption DEF BookIsSound, BookTypes

\* The line of a new high.
LEMMA RiseIsNew ==
  ASSUME BookIsSound, NEW p \in book, p \in openedLog, NEW price \in Prices
  PROVE  /\ Max({price, peak[p.id]}) \in Nat /\ peak[p.id] <= Max({price, peak[p.id]})
         /\ price <= Max({price, peak[p.id]})
         /\ RiseOf(p, price) = <<>> \/ \E r \in Rises :
              RiseOf(p, price) = <<r>> /\ r.id = p.id /\ r.price = price /\ p.entry <= price
<1>1. /\ p.id \in Ids /\ peak[p.id] \in Nat /\ price \in Nat /\ p.entry \in Nat
      /\ p.entry <= peak[p.id]
  BY BookAssumption DEF BookIsSound, BookTypes, AllOpened, StopsNeverFall
<1>2. PICK m : m = Max({price, peak[p.id]})
  OBVIOUS
<1>3. m \in Nat /\ peak[p.id] <= m /\ price <= m
  <2>1. \E x \in {price, peak[p.id]} : \A y \in {price, peak[p.id]} : x >= y
    BY <1>1
  <2>2. m \in {price, peak[p.id]} /\ \A y \in {price, peak[p.id]} : m >= y
    BY <1>2, <2>1, Zenon DEF Max
  <2> QED BY <1>1, <2>2
<1>4. RiseOf(p, price) = <<>> \/ \E r \in Rises :
        RiseOf(p, price) = <<r>> /\ r.id = p.id /\ r.price = price /\ p.entry <= price
  <2>1. CASE price > peak[p.id]
    <3>1. PICK r : r = [what |-> "peak", id |-> p.id, price |-> price]
      OBVIOUS
    <3>2. r \in Rises /\ r.id = p.id /\ r.price = price
      BY <1>1, <3>1 DEF Rises
    <3>3. RiseOf(p, price) = <<r>>
      BY <2>1, <3>1 DEF RiseOf
    <3> QED BY <1>1, <2>1, <3>2, <3>3
  <2>2. CASE ~ (price > peak[p.id])
    BY <2>2 DEF RiseOf
  <2> QED BY <2>1, <2>2
<1> QED BY <1>2, <1>3, <1>4

\* A position that is held on to may reach a new high.
LEMMA HoldKeeps ==
  ASSUME BookIsSound, NEW p \in toCheck, HoldPosition(p), UNCHANGED <<now, scoutVars>>
  PROVE  BookIsSound'
<1>1. PICK price \in Prices :
        /\ peak' = [peak EXCEPT ![p.id] = Max({price, peak[p.id]})]
        /\ unwritten' = RiseOf(p, price)
  BY DEF HoldPosition
<1>2. UNCHANGED <<book, held, restUntil, toTake, bookLife, openedLog, closedLog, peakLog, now, snapshot, spotted>>
  BY DEF HoldPosition, diskVars, scoutVars
<1>3. /\ Checked(p) /\ unwritten = <<>> /\ p \in book /\ p \in openedLog
      /\ AllOpened = openedLog /\ AllClosed = closedLog /\ Unclosed = book
      /\ p.id \in Ids /\ toCheck' \subseteq book /\ now \in 0 .. MaxNow
  <2>1. Checked(p)
    BY DEF HoldPosition
  <2> QED BY <2>1, CheckedIsLogged DEF BookIsSound, BookIsLogged
<1>4. PICK top \in Nat : /\ top = Max({price, peak[p.id]}) /\ peak[p.id] <= top /\ price <= top
                         /\ peak' = [peak EXCEPT ![p.id] = top]
  BY <1>1, <1>3, RiseIsNew
<1>5. unwritten' = <<>> \/ \E r \in Rises :
        unwritten' = <<r>> /\ r.id = p.id /\ r.price = price /\ p.entry <= price
  BY <1>1, <1>3, RiseIsNew
<1>6. /\ OpensIn(unwritten') = {} /\ ClosesIn(unwritten') = {}
      /\ \A r \in RisesIn(unwritten') : r.id = p.id /\ r.price = price /\ p.entry <= price
  BY <1>5, NoLines, RiseAlone
<1>7. AllOpened' = openedLog /\ AllClosed' = closedLog /\ Unclosed' = book
  <2>1. AllOpened' = openedLog /\ AllClosed' = closedLog
    BY <1>2, <1>6 DEF AllOpened, AllClosed
  <2> QED BY <1>2, <1>3, <2>1 DEF Unclosed
<1>8. \A i \in Ids : peak'[i] \in Nat /\ peak[i] \in Nat /\ peak[i] <= peak'[i]
  BY <1>3, <1>4 DEF BookIsSound, BookTypes
<1>9. BookTypes'
  <2>1. peak' \in [Ids -> Nat]
    BY <1>3, <1>4 DEF BookIsSound, BookTypes
  <2>2. \A q \in openedLog : q.id \in Ids /\ q.symbol \in EqSymbols /\ q.entry \in Prices /\ q.at \in Nat
    BY <1>3 DEF BookIsSound, BookTypes
  <2> QED BY <1>2, <1>3, <1>7, <2>1, <2>2 DEF BookIsSound, BookTypes
<1>10. LinesInOrder'
  BY <1>5 DEF LinesInOrder
<1>11. IdsAreOwn' /\ BookIsLogged' /\ RestsAreKnown'
  <2>1. IdsAreOwn'
    BY <1>2, <1>3, <1>6, <1>7 DEF BookIsSound, IdsAreOwn
  <2>2. BookIsLogged'
    BY <1>2, <1>3, <1>7 DEF BookIsSound, BookIsLogged
  <2>3. RestsAreKnown'
    BY <1>2, <1>3, <1>7 DEF BookIsSound, RestsAreKnown
  <2> QED BY <2>1, <2>2, <2>3
<1>12. HighsAreKnown'
  <2>1. \A r \in RisesIn(unwritten') : \E q \in openedLog :
          /\ q.id = r.id /\ q.entry <= r.price /\ (q \in book => r.price <= peak'[q.id])
    <3>1. peak'[p.id] = top
      BY <1>3, <1>4 DEF BookIsSound, BookTypes
    <3> QED BY <1>3, <1>4, <1>6, <3>1
  <2> QED BY <1>2, <2>1 DEF BookIsSound, HighsAreKnown
<1>13. StopsNeverFall'
  <2>1. SUFFICES ASSUME NEW q \in book
                 PROVE  /\ peak'[q.id] >= q.entry
                        /\ Cardinality({l \in 1 .. bookLife - 1 : peakLog[q.id][l] # 0}) <= 1 =>
                             \A l \in BookLives : peakLog[q.id][l] <= peak'[q.id]
    BY <1>2 DEF StopsNeverFall
  <2>2. /\ q.id \in Ids /\ q.entry \in Nat /\ peak[q.id] >= q.entry
        /\ Cardinality({l \in 1 .. bookLife - 1 : peakLog[q.id][l] # 0}) <= 1 =>
             \A l \in BookLives : peakLog[q.id][l] <= peak[q.id]
    BY <1>3, BookAssumption DEF BookIsSound, StopsNeverFall, BookTypes, BookIsLogged
  <2>3. \A l \in BookLives : peakLog[q.id][l] \in Nat
    BY <2>2 DEF BookIsSound, BookTypes
  <2>4. peak[q.id] \in Nat /\ peak'[q.id] \in Nat /\ peak[q.id] <= peak'[q.id]
    BY <1>8, <2>2
  <2>5. peak'[q.id] >= q.entry
    BY <2>2, <2>4
  <2>6. \A l \in BookLives : peakLog[q.id][l] <= peak[q.id] => peakLog[q.id][l] <= peak'[q.id]
    BY <2>3, <2>4
  <2> QED BY <2>2, <2>5, <2>6
<1> QED BY <1>9, <1>10, <1>11, <1>12, <1>13 DEF BookIsSound

--------------------------------------------------------------------------------
(* Positions are opened and closed. *)

\* One that is closed lets its symbol go, and rest if it lost momentum (_close_position).
LEMMA CloseKeeps ==
  ASSUME BookIsSound, NEW p \in toCheck, ClosePosition(p), UNCHANGED <<now, scoutVars>>
  PROVE  BookIsSound'
<1>1. PICK price \in Prices, lost \in BOOLEAN :
        /\ unwritten' = RiseOf(p, price) \o
             <<[what |-> "closed", id |-> p.id, lost |-> lost, at |-> now]>>
        /\ restUntil' = IF lost THEN [restUntil EXCEPT ![p.symbol] = now + Cooldown] ELSE restUntil
  BY DEF ClosePosition
<1>2. /\ UNCHANGED <<toTake, bookLife, openedLog, closedLog, peakLog, now, snapshot, spotted>>
      /\ book' = book \ {p} /\ held' = held \ {p.symbol} /\ peak' = [peak EXCEPT ![p.id] = 0]
  BY DEF ClosePosition, diskVars, scoutVars
<1>3. /\ Checked(p) /\ unwritten = <<>> /\ p \in book /\ p \in openedLog
      /\ AllOpened = openedLog /\ AllClosed = closedLog /\ Unclosed = book
      /\ p.id \in Ids /\ p.symbol \in EqSymbols /\ toCheck' = toCheck \ {p}
      /\ now \in 0 .. MaxNow /\ now \in Nat /\ Cooldown \in Nat
  <2>1. Checked(p)
    BY DEF ClosePosition
  <2> QED BY <2>1, CheckedIsLogged, BookAssumption
<1>4. PICK k \in Closes : k = [id |-> p.id, lost |-> lost, at |-> now]
  BY <1>1, <1>3 DEF Closes
<1>5. k.id = p.id /\ k.lost = lost /\ k.at = now
  BY <1>4
<1>6. RiseOf(p, price) = <<>> \/ \E r \in Rises :
        RiseOf(p, price) = <<r>> /\ r.id = p.id /\ r.price = price /\ p.entry <= price
  BY <1>1, <1>3, RiseIsNew
<1>7. unwritten' = <<ClosedLine(k)>> \/ \E r \in Rises :
        unwritten' = <<r, ClosedLine(k)>> /\ r.id = p.id /\ p.entry <= r.price
  <2>1. PICK x : x = ClosedLine(k)
    OBVIOUS
  <2>2. [what |-> "closed", id |-> p.id, lost |-> lost, at |-> now] = x
    BY <1>5, <2>1 DEF ClosedLine
  <2>3. unwritten' = RiseOf(p, price) \o <<x>>
    BY <1>1, <2>2
  <2>4. <<>> \o <<x>> = <<x>> /\ \A r : <<r>> \o <<x>> = <<r, x>>
    <3>1. <<>> \in Seq({x}) /\ <<x>> \in Seq({x})
      OBVIOUS
    <3>2. ASSUME NEW r PROVE <<r>> \o <<x>> = <<r, x>>
      <4>1. <<r>> \in Seq({r, x}) /\ <<x>> \in Seq({r, x}) /\ <<r, x>> \in Seq({r, x})
        OBVIOUS
      <4>2. PICK q : q = <<r>> \o <<x>>
        OBVIOUS
      <4>3. q \in Seq({r, x}) /\ Len(q) = 2 /\ q[1] = r /\ q[2] = x
        BY <4>1, <4>2, ConcatProperties
      <4>4. Len(<<r, x>>) = 2 /\ <<r, x>>[1] = r /\ <<r, x>>[2] = x
        OBVIOUS
      <4>5. \A i \in 1 .. 2 : q[i] = <<r, x>>[i]
        BY <4>3, <4>4
      <4>6. q = <<r, x>>
        BY <4>1, <4>3, <4>4, <4>5, SeqEqual
      <4> QED BY <4>2, <4>6
    <3> QED BY <3>1, <3>2
  <2>5. CASE RiseOf(p, price) = <<>>
    BY <2>1, <2>3, <2>4, <2>5
  <2>6. CASE \E r \in Rises : RiseOf(p, price) = <<r>> /\ r.id = p.id /\ r.price = price /\ p.entry <= price
    BY <2>1, <2>3, <2>4, <2>6
  <2> QED BY <1>6, <2>5, <2>6
<1>8. /\ OpensIn(unwritten') = {} /\ ClosesIn(unwritten') = {k}
      /\ \A r \in RisesIn(unwritten') : r.id = p.id /\ p.entry <= r.price
  BY <1>7, ClosedAlone, RiseAndClosed
<1>9. AllOpened' = openedLog /\ AllClosed' = closedLog \cup {k} /\ Unclosed' = book
  <2>1. AllOpened' = openedLog /\ AllClosed' = closedLog \cup {k}
    BY <1>2, <1>8 DEF AllOpened, AllClosed
  <2> QED BY <1>2, <1>3, <2>1 DEF Unclosed
<1>10. \A q \in openedLog : /\ q.id \in Ids /\ q.symbol \in EqSymbols /\ q.entry \in Prices /\ q.at \in Nat
                            /\ (q.id = p.id => q = p)
  BY <1>3 DEF BookIsSound, BookTypes, IdsAreOwn
<1>11. BookTypes'
  <2>1. peak' \in [Ids -> Nat]
    BY <1>2, <1>3 DEF BookIsSound, BookTypes
  <2>2. restUntil' \in [EqSymbols -> Nat]
    <3>1. restUntil \in [EqSymbols -> Nat] /\ now + Cooldown \in Nat
      BY <1>3 DEF BookIsSound, BookTypes
    <3>2. CASE lost
      BY <1>1, <1>3, <3>1, <3>2
    <3>3. CASE ~lost
      BY <1>1, <3>1, <3>3
    <3> QED BY <3>2, <3>3
  <2> QED BY <1>2, <1>3, <1>9, <1>10, <2>1, <2>2 DEF BookIsSound, BookTypes
<1>12. LinesInOrder'
  BY <1>7 DEF LinesInOrder
<1>13. IdsAreOwn'
  <2>1. \A c \in closedLog \cup {k} : c.at <= now /\ \E q \in openedLog : q.id = c.id
    BY <1>3, <1>5 DEF BookIsSound, IdsAreOwn
  <2> QED BY <1>2, <1>3, <1>8, <1>9, <2>1 DEF BookIsSound, IdsAreOwn
<1>14. BookIsLogged'
  <2>1. book' = {q \in openedLog : \A c \in closedLog \cup {k} : c.id # q.id}
    <3>1. book = {q \in openedLog : \A c \in closedLog : c.id # q.id}
      BY <1>3 DEF BookIsSound, BookIsLogged
    <3>2. \A q \in openedLog : (\A c \in closedLog \cup {k} : c.id # q.id)
                                <=> (\A c \in closedLog : c.id # q.id) /\ q # p
      BY <1>5, <1>10
    <3> QED BY <1>2, <3>1, <3>2
  <2>2. held' = {q.symbol : q \in book'}
    <3>1. held = {q.symbol : q \in book}
      BY DEF BookIsSound, BookIsLogged
    <3>2. \A q \in book : q.symbol = p.symbol => q = p
      BY <1>3, SymbolsAreOwn DEF BookIsSound
    <3> QED BY <1>2, <1>3, <3>1, <3>2
  <2>3. toCheck' \subseteq book'
    BY <1>2, <1>3 DEF BookIsSound, BookIsLogged
  <2> QED BY <1>2, <1>3, <1>9, <2>1, <2>2, <2>3 DEF BookIsSound, BookIsLogged
<1>15. RestsAreKnown'
  <2>1. SUFFICES ASSUME NEW c \in closedLog \cup {k}, NEW q \in openedLog, c.lost, q.id = c.id
                 PROVE  /\ c.at + Cooldown <= now \/ c.at + Cooldown <= restUntil'[q.symbol]
                        /\ \A o \in openedLog : o.symbol = q.symbol /\ c.id < o.id => o.at >= c.at + Cooldown
    BY <1>2, <1>9 DEF RestsAreKnown
  <2>2. restUntil \in [EqSymbols -> Nat] /\ q.symbol \in EqSymbols
    BY <1>10 DEF BookIsSound, BookTypes
  <2>3. CASE c \in closedLog
    <3>1. /\ c.at + Cooldown <= now \/ c.at + Cooldown <= restUntil[q.symbol]
          /\ \A o \in openedLog : o.symbol = q.symbol /\ c.id < o.id => o.at >= c.at + Cooldown
      BY <1>3, <2>1, <2>3 DEF BookIsSound, RestsAreKnown
    <3>2. c.at <= now /\ c.at \in Nat
      BY <1>3, <2>3 DEF BookIsSound, IdsAreOwn, BookTypes, Closes
    <3>3. restUntil'[q.symbol] = restUntil[q.symbol] \/ restUntil'[q.symbol] = now + Cooldown
      BY <1>1, <1>3, <2>2
    <3>4. c.at + Cooldown <= now + Cooldown
      BY <1>3, <3>2
    <3> QED BY <3>1, <3>3, <3>4
  <2>4. CASE c = k
    <3>1. q = p /\ lost /\ c.at = now /\ c.id = p.id
      BY <1>5, <1>10, <2>1, <2>4
    <3>2. restUntil'[q.symbol] = now + Cooldown
      BY <1>1, <1>3, <2>2, <3>1
    <3>3. \A o \in openedLog : o.symbol = q.symbol => o.id <= p.id
      BY <1>3, <3>1 DEF BookIsSound, BookIsLogged
    <3>4. \A o \in openedLog : o.id \in Int /\ p.id \in Int
      BY <1>3, <1>10, BookAssumption DEF Ids
    <3>5. \A o \in openedLog : ~ (o.symbol = q.symbol /\ c.id < o.id)
      BY <3>1, <3>3, <3>4
    <3>6. c.at + Cooldown <= restUntil'[q.symbol]
      BY <1>3, <3>1, <3>2
    <3> QED BY <3>5, <3>6
  <2> QED BY <2>1, <2>3, <2>4
<1>16. HighsAreKnown'
  <2>1. \A r \in RisesIn(unwritten') : \E q \in openedLog :
          /\ q.id = r.id /\ q.entry <= r.price /\ (q \in book' => r.price <= peak'[q.id])
    BY <1>2, <1>3, <1>8
  <2> QED BY <1>2, <2>1 DEF BookIsSound, HighsAreKnown
<1>17. StopsNeverFall'
  <2>1. ASSUME NEW q \in book' PROVE q \in book /\ peak'[q.id] = peak[q.id]
    <3>1. q \in book /\ q \in openedLog /\ q # p
      BY <1>2, <1>3, <2>1 DEF BookIsSound, BookIsLogged
    <3>2. q.id \in Ids /\ q.id # p.id
      BY <1>10, <3>1
    <3> QED BY <1>2, <1>3, <3>1, <3>2 DEF BookIsSound, BookTypes
  <2> QED BY <1>2, <2>1 DEF BookIsSound, StopsNeverFall
<1> QED BY <1>11, <1>12, <1>13, <1>14, <1>15, <1>16, <1>17 DEF BookIsSound

\* One that is opened gets an id and a symbol no other has (_try_open_position).
LEMMA OpenKeeps ==
  ASSUME BookIsSound, NEW s \in toTake, OpenPosition(s), UNCHANGED <<now, scoutVars>>
  PROVE  BookIsSound'
<1>1. /\ unwritten = <<>> /\ toTake' = toTake \ {s}
      /\ UNCHANGED <<restUntil, toCheck, bookLife, openedLog, closedLog, peakLog, now, snapshot, spotted>>
      /\ s[3] \notin held /\ restUntil[s[3]] <= now /\ Cardinality(book) < MaxPositions
      /\ Cardinality(openedLog) < MaxBooked
  BY DEF OpenPosition, Takes, Working, MayOpen, diskVars, scoutVars
<1>2. AllOpened = openedLog /\ AllClosed = closedLog /\ Unclosed = book
  <2>1. AllOpened = openedLog /\ AllClosed = closedLog
    BY <1>1, NoLines DEF AllOpened, AllClosed
  <2> QED BY <2>1 DEF Unclosed, BookIsSound, BookIsLogged
<1>3. /\ Cardinality(openedLog) \in Nat /\ Cardinality(openedLog) + 1 \in Ids
      /\ now \in Nat /\ now \in 0 .. MaxNow /\ s[3] \in EqSymbols
      /\ Prices \subseteq Nat \ {0} /\ Cooldown \in Nat /\ MaxPositions \in Nat
  BY <1>1, FS_CardinalityType, BookAssumption, TimeAssumption DEF BookIsSound, BookTypes, Ids
<1>4. PICK price \in Prices : \E p :
        /\ p.id = Cardinality(openedLog) + 1 /\ p.symbol = s[3] /\ p.entry = price /\ p.at = now
        /\ book' = book \cup {p} /\ held' = held \cup {s[3]}
        /\ peak' = [peak EXCEPT ![p.id] = price]
        /\ unwritten' = <<OpenedLine(p)>>
  <2>1. PICK price \in Prices :
          LET p == [id |-> Cardinality(openedLog) + 1, symbol |-> s[3], source |-> SourceOf(s[1]),
                    entry |-> price, at |-> now]
          IN /\ book' = book \cup {p} /\ held' = held \cup {p.symbol}
             /\ peak' = [peak EXCEPT ![p.id] = price]
             /\ unwritten' = <<[what |-> "opened", position |-> p]>>
    BY DEF OpenPosition
  <2>2. PICK p : p = [id |-> Cardinality(openedLog) + 1, symbol |-> s[3], source |-> SourceOf(s[1]),
                      entry |-> price, at |-> now]
    OBVIOUS
  <2>3. p.id = Cardinality(openedLog) + 1 /\ p.symbol = s[3] /\ p.entry = price /\ p.at = now
    BY <2>2
  <2>4. /\ book' = book \cup {p} /\ held' = held \cup {p.symbol}
        /\ peak' = [peak EXCEPT ![p.id] = price]
        /\ unwritten' = <<OpenedLine(p)>>
    BY <2>1, <2>2, Zenon DEF OpenedLine
  <2> QED BY <2>3, <2>4
<1>4a. PICK p :
        /\ p.id = Cardinality(openedLog) + 1 /\ p.symbol = s[3] /\ p.entry = price /\ p.at = now
        /\ book' = book \cup {p} /\ held' = held \cup {s[3]}
        /\ peak' = [peak EXCEPT ![p.id] = price]
        /\ unwritten' = <<OpenedLine(p)>>
  BY <1>4
<1>5. OpensIn(unwritten') = {p} /\ ClosesIn(unwritten') = {} /\ RisesIn(unwritten') = {}
  BY <1>4, <1>4a, OpenedAlone
<1>6. AllOpened' = openedLog \cup {p} /\ AllClosed' = closedLog
  BY <1>1, <1>5 DEF AllOpened, AllClosed
<1>7. \A q \in openedLog : /\ q.id \in Ids /\ q.symbol \in EqSymbols /\ q.entry \in Prices /\ q.at \in Nat
                           /\ q.id \in Nat /\ q.id < p.id /\ q.id # p.id
  BY <1>2, <1>3, <1>4, <1>4a, BookAssumption DEF BookIsSound, BookTypes, IdsAreOwn, Ids
<1>8. \A c \in closedLog : c.id # p.id
  BY <1>2, <1>7 DEF BookIsSound, IdsAreOwn
<1>9. Unclosed' = book \cup {p}
  <2>1. Unclosed' = {q \in openedLog \cup {p} : \A c \in closedLog : c.id # q.id}
    BY <1>1, <1>6 DEF Unclosed
  <2>2. book = {q \in openedLog : \A c \in closedLog : c.id # q.id}
    BY <1>2 DEF Unclosed
  <2> QED BY <1>8, <2>1, <2>2
<1>10. BookTypes'
  <2>1. peak' \in [Ids -> Nat]
    BY <1>3, <1>4, <1>4a DEF BookIsSound, BookTypes
  <2>2. \A q \in openedLog \cup {p} : q.id \in Ids /\ q.symbol \in EqSymbols /\ q.entry \in Prices /\ q.at \in Nat
    BY <1>3, <1>4, <1>4a, <1>7
  <2> QED BY <1>1, <1>3, <1>6, <2>1, <2>2 DEF BookIsSound, BookTypes
<1>11. LinesInOrder'
  BY <1>4, <1>4a, <1>6 DEF LinesInOrder
<1>12. IdsAreOwn'
  <2>1. \A q \in {p} : q.id = Cardinality(openedLog) + 1
    BY <1>4, <1>4a
  <2>2. \A q, o \in openedLog \cup {p} : q.id = o.id => q = o
    BY <1>2, <1>7 DEF BookIsSound, IdsAreOwn
  <2> QED BY <1>1, <1>2, <1>5, <1>6, <2>1, <2>2 DEF BookIsSound, IdsAreOwn
<1>13. BookIsLogged'
  <2>1. book' = {q \in AllOpened' : \A c \in AllClosed' : c.id # q.id}
    <3>1. book = {q \in openedLog : \A c \in closedLog : c.id # q.id}
      BY <1>2 DEF Unclosed
    <3> QED BY <1>4, <1>4a, <1>6, <1>8, <3>1
  <2>2. held' = {q.symbol : q \in book'}
    <3>1. held = {q.symbol : q \in book}
      BY DEF BookIsSound, BookIsLogged
    <3> QED BY <1>4, <1>4a, <3>1
  <2>3. Cardinality(Unclosed') <= MaxPositions
    <3>1. IsFiniteSet(book) /\ Cardinality(book) \in Nat
      BY BookFitsSymbols, FS_CardinalityType
    <3>2. Cardinality(book \cup {p}) = Cardinality(book) \/ Cardinality(book \cup {p}) = Cardinality(book) + 1
      <4>1. CASE p \in book
        BY <3>1, <4>1, FS_AddElement
      <4>2. CASE p \notin book
        BY <3>1, <4>2, FS_AddElement
      <4> QED BY <4>1, <4>2
    <3>3. Cardinality(book \cup {p}) \in Nat
      BY <3>1, FS_AddElement, FS_CardinalityType
    <3> QED BY <1>1, <1>3, <1>9, <3>1, <3>2, <3>3
  <2>4. \A q \in Unclosed', o \in AllOpened' : o.symbol = q.symbol => o.id <= q.id
    <3>1. SUFFICES ASSUME NEW q \in book \cup {p}, NEW o \in openedLog \cup {p}, o.symbol = q.symbol
                   PROVE  o.id <= q.id
      BY <1>6, <1>9
    <3>2. CASE q = p
      BY <1>3, <1>4, <1>4a, <1>7, <3>1, <3>2
    <3>3. CASE q \in book /\ o \in openedLog
      BY <1>2, <3>1, <3>3 DEF BookIsSound, BookIsLogged
    <3>4. CASE q \in book /\ o = p
      <4>1. q.symbol \in held
        BY <3>4 DEF BookIsSound, BookIsLogged
      <4> QED BY <1>1, <1>4, <1>4a, <3>1, <3>4, <4>1
    <3> QED BY <3>1, <3>2, <3>3, <3>4
  <2>5. toCheck' \subseteq book'
    BY <1>1, <1>4, <1>4a DEF BookIsSound, BookIsLogged
  <2> QED BY <2>1, <2>2, <2>3, <2>4, <2>5 DEF BookIsLogged
<1>14. RestsAreKnown'
  <2>1. SUFFICES ASSUME NEW c \in closedLog, NEW q \in openedLog \cup {p}, c.lost, q.id = c.id
                 PROVE  /\ c.at + Cooldown <= now \/ c.at + Cooldown <= restUntil[q.symbol]
                        /\ \A o \in openedLog \cup {p} :
                             o.symbol = q.symbol /\ c.id < o.id => o.at >= c.at + Cooldown
    BY <1>1, <1>6 DEF RestsAreKnown
  <2>2. q \in openedLog
    BY <1>8, <2>1
  <2>3. /\ c.at + Cooldown <= now \/ c.at + Cooldown <= restUntil[q.symbol]
        /\ \A o \in openedLog : o.symbol = q.symbol /\ c.id < o.id => o.at >= c.at + Cooldown
    BY <1>2, <2>1, <2>2 DEF BookIsSound, RestsAreKnown
  <2>4. p.symbol = q.symbol => p.at >= c.at + Cooldown
    <3>1. c.at \in Nat /\ restUntil[s[3]] \in Nat
      BY <1>3 DEF BookIsSound, BookTypes, Closes
    <3> QED BY <1>1, <1>3, <1>4, <1>4a, <2>3, <3>1
  <2> QED BY <2>3, <2>4
<1>15. HighsAreKnown'
  BY <1>1, <1>5 DEF BookIsSound, HighsAreKnown
<1>16. StopsNeverFall'
  <2>1. SUFFICES ASSUME NEW q \in book \cup {p}
                 PROVE  /\ peak'[q.id] >= q.entry
                        /\ Cardinality({l \in 1 .. bookLife - 1 : peakLog[q.id][l] # 0}) <= 1 =>
                             \A l \in BookLives : peakLog[q.id][l] <= peak'[q.id]
    BY <1>1, <1>4, <1>4a DEF StopsNeverFall
  <2>2. CASE q = p
    <3>1. peak'[p.id] = price /\ price \in Nat
      BY <1>3, <1>4, <1>4a DEF BookIsSound, BookTypes
    <3>2. \A l \in BookLives : peakLog[p.id][l] = 0
      BY <1>3, <1>4, <1>4a, <1>7 DEF BookIsSound, HighsAreKnown
    <3> QED BY <1>4, <1>4a, <2>2, <3>1, <3>2
  <2>3. CASE q \in book
    <3>1. q.id \in Ids /\ q.id # p.id
      BY <1>2, <1>7, <2>3 DEF Unclosed
    <3>2. peak'[q.id] = peak[q.id]
      BY <1>4, <1>4a, <3>1 DEF BookIsSound, BookTypes
    <3> QED BY <2>3, <3>2 DEF BookIsSound, StopsNeverFall
  <2> QED BY <2>1, <2>2, <2>3
<1> QED BY <1>10, <1>11, <1>12, <1>13, <1>14, <1>15, <1>16 DEF BookIsSound

--------------------------------------------------------------------------------
(* Lines reach the logs. *)

\* A new high reaches the log of this life.
LEMMA HighIsWritten ==
  ASSUME BookIsSound, NEW r \in RisesIn(unwritten), r \in Rises,
         peakLog' = [peakLog EXCEPT ![r.id][bookLife] = r.price],
         UNCHANGED <<book, peak, openedLog, bookLife>>, RisesIn(unwritten') = {}
  PROVE  /\ peakLog' \in [Ids -> [BookLives -> Nat]]
         /\ HighsAreKnown' /\ StopsNeverFall'
<1>1. /\ r.id \in Ids /\ r.price \in Nat /\ bookLife \in BookLives /\ BookLives \subseteq Nat \ {0}
      /\ peakLog \in [Ids -> [BookLives -> Nat]]
  <2>1. r.id \in Ids /\ r.price \in Prices
    BY DEF Rises
  <2>2. Prices \subseteq Nat /\ BookLives \subseteq Nat \ {0}
    BY BookAssumption DEF BookLives
  <2> QED BY <2>1, <2>2 DEF BookIsSound, BookTypes
<1>2. PICK p \in openedLog : /\ p.id = r.id /\ p.entry <= r.price
                             /\ p \in book => r.price <= peak[p.id]
  BY DEF BookIsSound, HighsAreKnown
<1>3. peakLog' \in [Ids -> [BookLives -> Nat]]
  BY <1>1
<1>4. \A i \in Ids, l \in BookLives :
        peakLog'[i][l] = IF i = r.id /\ l = bookLife THEN r.price ELSE peakLog[i][l]
  BY <1>1
<1>5. HighsAreKnown'
  <2>1. ASSUME NEW i \in Ids, NEW l \in BookLives, peakLog'[i][l] # 0
        PROVE  l <= bookLife /\ \E q \in openedLog : q.id = i /\ q.entry <= peakLog'[i][l]
    <3>1. CASE i = r.id /\ l = bookLife
      BY <1>1, <1>2, <1>4, <3>1
    <3>2. CASE ~ (i = r.id /\ l = bookLife)
      BY <1>4, <2>1, <3>2 DEF BookIsSound, HighsAreKnown
    <3> QED BY <3>1, <3>2
  <2> QED BY <2>1 DEF HighsAreKnown
<1>6. StopsNeverFall'
  <2>1. SUFFICES ASSUME NEW q \in book
                 PROVE  /\ peak[q.id] >= q.entry
                        /\ Cardinality({l \in 1 .. bookLife - 1 : peakLog'[q.id][l] # 0}) <= 1 =>
                             \A l \in BookLives : peakLog'[q.id][l] <= peak[q.id]
    BY DEF StopsNeverFall
  <2>2. q \in AllOpened /\ q.id \in Ids
    BY DEF BookIsSound, BookIsLogged, BookTypes
  <2>3. \A l \in 1 .. bookLife - 1 : l \in BookLives /\ l # bookLife
    BY <1>1, BookAssumption DEF BookLives
  <2>4. {l \in 1 .. bookLife - 1 : peakLog'[q.id][l] # 0} = {l \in 1 .. bookLife - 1 : peakLog[q.id][l] # 0}
    BY <1>4, <2>2, <2>3
  <2>5. ASSUME \A l \in BookLives : peakLog[q.id][l] <= peak[q.id]
        PROVE  \A l \in BookLives : peakLog'[q.id][l] <= peak[q.id]
    <3>1. CASE q.id = r.id
      <4>1. q = p
        BY <1>2, <2>2, <3>1 DEF BookIsSound, IdsAreOwn, AllOpened
      <4>2. r.price <= peak[q.id]
        BY <1>2, <4>1
      <4> QED BY <1>4, <2>2, <2>5, <4>2
    <3>2. CASE q.id # r.id
      BY <1>4, <2>2, <2>5, <3>2
    <3> QED BY <3>1, <3>2
  <2> QED BY <2>4, <2>5 DEF BookIsSound, StopsNeverFall
<1> QED BY <1>3, <1>5, <1>6

\* What is to be written changes hands; nothing the ant knows does.
LEMMA WrittenKeeps ==
  ASSUME BookIsSound,
         UNCHANGED <<book, held, peak, restUntil, toCheck, toTake, bookLife, now, snapshot, spotted>>,
         AllOpened' = AllOpened, AllClosed' = AllClosed, closedLog \subseteq closedLog',
         closedLog' \subseteq Closes, IsFiniteSet(openedLog'), IsFiniteSet(closedLog'),
         peakLog' \in [Ids -> [BookLives -> Nat]],
         LinesInOrder', IdsAreOwn', HighsAreKnown', StopsNeverFall'
  PROVE  BookIsSound'
<1>1. Unclosed' \subseteq Unclosed
  BY DEF Unclosed
<1>2. Cardinality(Unclosed') <= MaxPositions
  <2>1. IsFiniteSet(Unclosed) /\ Cardinality(Unclosed) <= MaxPositions
    BY BookFitsSymbols DEF BookIsSound, BookIsLogged
  <2>2. Cardinality(Unclosed') <= Cardinality(Unclosed) /\ IsFiniteSet(Unclosed')
    BY <1>1, <2>1, FS_Subset
  <2> QED BY <2>1, <2>2, FS_CardinalityType, BookAssumption
<1>3. BookTypes'
  BY DEF BookIsSound, BookTypes
<1>4. BookIsLogged'
  BY <1>1, <1>2 DEF BookIsSound, BookIsLogged
<1>5. RestsAreKnown'
  BY DEF BookIsSound, RestsAreKnown
<1> QED BY <1>3, <1>4, <1>5 DEF BookIsSound

\* A line reaches the log after what it says is so in memory.
LEMMA WriteKeeps ==
  ASSUME BookIsSound, WriteLine, UNCHANGED <<now, scoutVars>>
  PROVE  BookIsSound'
<1>1. /\ UNCHANGED <<book, held, peak, restUntil, toCheck, toTake, bookLife, now, snapshot, spotted>>
      /\ unwritten # <<>> /\ unwritten' = Tail(unwritten)
  BY DEF WriteLine, memVars, tickVars, scoutVars
<1>2. PICK line : line = Head(unwritten)
  OBVIOUS
<1>3. /\ line.what = "opened" => openedLog' = openedLog \cup {line.position} /\ UNCHANGED <<closedLog, peakLog>>
      /\ line.what = "closed" =>
           /\ closedLog' = closedLog \cup {[id |-> line.id, lost |-> line.lost, at |-> line.at]}
           /\ UNCHANGED <<openedLog, peakLog>>
      /\ line.what = "peak" =>
           peakLog' = [peakLog EXCEPT ![line.id][bookLife] = line.price] /\ UNCHANGED <<openedLog, closedLog>>
  <2>1. CASE line.what = "opened"
    BY <1>2, <2>1 DEF WriteLine
  <2>2. CASE line.what = "closed"
    BY <1>2, <2>2 DEF WriteLine
  <2>3. CASE line.what = "peak"
    BY <1>2, <2>3 DEF WriteLine
  <2> QED BY <2>1, <2>2, <2>3
<1>4. /\ IsFiniteSet(openedLog) /\ IsFiniteSet(closedLog) /\ closedLog \subseteq Closes
      /\ peakLog \in [Ids -> [BookLives -> Nat]]
      /\ IdsAreOwn /\ HighsAreKnown /\ StopsNeverFall
  BY DEF BookIsSound, BookTypes
<1>5. CASE \E p \in AllOpened : unwritten = <<OpenedLine(p)>>
  <2>1. PICK p \in AllOpened : unwritten = <<OpenedLine(p)>>
    BY <1>5
  <2>2. line.what = "opened" /\ line.position = p /\ unwritten' = <<>>
    BY <1>1, <1>2, <2>1 DEF OpenedLine
  <2>3. /\ OpensIn(unwritten) = {p} /\ ClosesIn(unwritten) = {} /\ RisesIn(unwritten) = {}
        /\ OpensIn(unwritten') = {} /\ ClosesIn(unwritten') = {} /\ RisesIn(unwritten') = {}
    BY <2>1, <2>2, NoLines, OpenedAlone
  <2>4. openedLog' = openedLog \cup {p} /\ UNCHANGED <<closedLog, peakLog>>
    BY <1>3, <2>2
  <2>5. AllOpened' = AllOpened /\ AllClosed' = AllClosed
    BY <2>3, <2>4 DEF AllOpened, AllClosed
  <2>6. p.id = Cardinality(openedLog) + 1 /\ Cardinality(openedLog) \in Nat
    BY <1>4, <2>3, FS_CardinalityType DEF IdsAreOwn
  <2>7. p \notin openedLog
    BY <1>4, <2>6 DEF IdsAreOwn
  <2>8. IsFiniteSet(openedLog') /\ Cardinality(openedLog') = Cardinality(openedLog) + 1
    BY <1>4, <2>4, <2>7, FS_AddElement
  <2>9. IdsAreOwn'
    <3>1. \A q \in openedLog' : q.id <= Cardinality(openedLog')
      <4>1. \A q \in openedLog : q.id \in Nat /\ q.id <= Cardinality(openedLog)
        BY <1>4, BookAssumption DEF IdsAreOwn, BookIsSound, BookTypes, AllOpened, Ids
      <4> QED BY <2>4, <2>6, <2>8, <4>1
    <3>2. \A c \in AllClosed : c.at <= now /\ \E q \in openedLog' : q.id = c.id
      BY <1>4, <2>4 DEF IdsAreOwn
    <3> QED BY <1>1, <1>4, <2>3, <2>5, <3>1, <3>2 DEF IdsAreOwn
  <2>10. HighsAreKnown' /\ StopsNeverFall'
    <3>1. StopsNeverFall'
      BY <1>1, <1>4, <2>4 DEF StopsNeverFall
    <3>2. HighsAreKnown'
      BY <1>1, <1>4, <2>3, <2>4 DEF HighsAreKnown
    <3> QED BY <3>1, <3>2
  <2>11. LinesInOrder'
    BY <2>2 DEF LinesInOrder
  <2> QED BY <1>1, <1>4, <2>4, <2>5, <2>8, <2>9, <2>10, <2>11, WrittenKeeps
<1>6. CASE \E c \in Closes : unwritten = <<ClosedLine(c)>>
  <2>1. PICK c \in Closes : unwritten = <<ClosedLine(c)>>
    BY <1>6
  <2>2. /\ line.what = "closed" /\ [id |-> line.id, lost |-> line.lost, at |-> line.at] = c
        /\ unwritten' = <<>>
    BY <1>1, <1>2, <2>1 DEF ClosedLine, Closes
  <2>3. /\ OpensIn(unwritten) = {} /\ ClosesIn(unwritten) = {c} /\ RisesIn(unwritten) = {}
        /\ OpensIn(unwritten') = {} /\ ClosesIn(unwritten') = {} /\ RisesIn(unwritten') = {}
    BY <2>1, <2>2, NoLines, ClosedAlone
  <2>4. closedLog' = closedLog \cup {c} /\ UNCHANGED <<openedLog, peakLog>>
    BY <1>3, <2>2
  <2>5. AllOpened' = AllOpened /\ AllClosed' = AllClosed
    BY <2>3, <2>4 DEF AllOpened, AllClosed
  <2>6. IsFiniteSet(closedLog') /\ closedLog' \subseteq Closes
    BY <1>4, <2>4, FS_AddElement
  <2>7. IdsAreOwn'
    BY <1>1, <1>4, <2>3, <2>4, <2>5 DEF IdsAreOwn
  <2>8. HighsAreKnown'
    BY <1>1, <1>4, <2>3, <2>4 DEF HighsAreKnown
  <2>9. StopsNeverFall' /\ LinesInOrder'
    BY <1>1, <1>4, <2>2, <2>4 DEF StopsNeverFall, LinesInOrder
  <2> QED BY <1>1, <1>4, <2>4, <2>5, <2>6, <2>7, <2>8, <2>9, WrittenKeeps
<1>7. CASE \E r \in Rises : unwritten = <<r>>
  <2>1. PICK r \in Rises : unwritten = <<r>>
    BY <1>7
  <2>2. line = r /\ line.what = "peak" /\ unwritten' = <<>>
    BY <1>1, <1>2, <2>1 DEF Rises
  <2>3. /\ OpensIn(unwritten) = {} /\ ClosesIn(unwritten) = {} /\ RisesIn(unwritten) = {r}
        /\ OpensIn(unwritten') = {} /\ ClosesIn(unwritten') = {} /\ RisesIn(unwritten') = {}
    BY <2>1, <2>2, NoLines, RiseAlone
  <2>4. peakLog' = [peakLog EXCEPT ![r.id][bookLife] = r.price] /\ UNCHANGED <<openedLog, closedLog>>
    BY <1>3, <2>2
  <2>5. AllOpened' = AllOpened /\ AllClosed' = AllClosed
    BY <2>3, <2>4 DEF AllOpened, AllClosed
  <2>6. peakLog' \in [Ids -> [BookLives -> Nat]] /\ HighsAreKnown' /\ StopsNeverFall'
    BY <1>1, <2>3, <2>4, HighIsWritten
  <2>7. IdsAreOwn'
    BY <1>1, <1>4, <2>3, <2>4, <2>5 DEF IdsAreOwn
  <2>8. LinesInOrder'
    BY <2>2 DEF LinesInOrder
  <2> QED BY <1>1, <1>4, <2>4, <2>5, <2>6, <2>7, <2>8, WrittenKeeps
<1>8. CASE \E r \in Rises, c \in Closes : unwritten = <<r, ClosedLine(c)>>
  <2>1. PICK r \in Rises, c \in Closes : unwritten = <<r, ClosedLine(c)>>
    BY <1>8
  <2>2. line = r /\ line.what = "peak" /\ unwritten' = <<ClosedLine(c)>>
    <3>1. PICK x : x = ClosedLine(c)
      OBVIOUS
    <3>2. Head(<<r, x>>) = r /\ Tail(<<r, x>>) = <<x>>
      OBVIOUS
    <3>3. r.what = "peak"
      BY DEF Rises
    <3> QED BY <1>1, <1>2, <2>1, <3>1, <3>2, <3>3
  <2>3. /\ OpensIn(unwritten) = {} /\ ClosesIn(unwritten) = {c} /\ RisesIn(unwritten) = {r}
        /\ OpensIn(unwritten') = {} /\ ClosesIn(unwritten') = {c} /\ RisesIn(unwritten') = {}
    BY <2>1, <2>2, RiseAndClosed, ClosedAlone
  <2>4. peakLog' = [peakLog EXCEPT ![r.id][bookLife] = r.price] /\ UNCHANGED <<openedLog, closedLog>>
    BY <1>3, <2>2
  <2>5. AllOpened' = AllOpened /\ AllClosed' = AllClosed
    BY <2>3, <2>4 DEF AllOpened, AllClosed
  <2>6. peakLog' \in [Ids -> [BookLives -> Nat]] /\ HighsAreKnown' /\ StopsNeverFall'
    BY <1>1, <2>3, <2>4, HighIsWritten
  <2>7. IdsAreOwn'
    BY <1>1, <1>4, <2>3, <2>4, <2>5 DEF IdsAreOwn
  <2>8. LinesInOrder'
    BY <2>2 DEF LinesInOrder
  <2> QED BY <1>1, <1>4, <2>4, <2>5, <2>6, <2>7, <2>8, WrittenKeeps
<1> QED BY <1>1, <1>5, <1>6, <1>7, <1>8 DEF BookIsSound, LinesInOrder

--------------------------------------------------------------------------------
(* A new life, and the theorems. *)

\* A rest the logs give reason for is at least as long as each reason says.
LEMMA RestsAreRestored ==
  ASSUME BookIsSound, NEW s \in EqSymbols
  PROVE  /\ RestOf(s) \in Nat
         /\ \A c \in closedLog, p \in openedLog :
              c.lost /\ p.id = c.id /\ p.symbol = s =>
                c.at + Cooldown <= now \/ c.at + Cooldown <= RestOf(s)
<1>1. /\ now \in Nat /\ Cooldown \in Nat /\ IsFiniteSet(closedLog) /\ closedLog \subseteq Closes
      /\ \A c \in closedLog : c.at \in Nat
  BY TimeAssumption, BookAssumption DEF BookIsSound, BookTypes, Closes
<1>2. PICK lost \in SUBSET closedLog :
        lost = {c \in closedLog : c.lost /\ \E p \in openedLog : p.id = c.id /\ p.symbol = s}
  OBVIOUS
<1>3. PICK T : T = {c.at + Cooldown : c \in lost}
  OBVIOUS
<1>4. IsFiniteSet(T) /\ T \subseteq Nat
  <2>1. PICK f : f = [c \in lost |-> c.at + Cooldown]
    OBVIOUS
  <2>2. f \in Surjection(lost, T)
    BY <1>3, <2>1 DEF Surjection
  <2>3. IsFiniteSet(lost)
    BY <1>1, <1>2, FS_Subset
  <2>4. T \subseteq Nat
    BY <1>1, <1>2, <1>3
  <2> QED BY <2>2, <2>3, <2>4, FS_Surjection
<1>5. PICK U : U = {0} \cup {u \in T : u > now}
  OBVIOUS
<1>6. U \subseteq Int /\ U \subseteq Nat /\ U # {} /\ IsFiniteSet(U)
  <2>1. {u \in T : u > now} \in SUBSET T
    OBVIOUS
  <2>2. IsFiniteSet({u \in T : u > now})
    BY <1>4, <2>1, FS_Subset
  <2>3. IsFiniteSet(U)
    BY <1>5, <2>2, FS_Singleton, FS_Union
  <2>4. U \subseteq Nat /\ U # {}
    <3>1. 0 \in U
      BY <1>5
    <3>2. ASSUME NEW y \in U PROVE y \in Nat
      <4>1. y = 0 \/ y \in T
        BY <1>5
      <4>2. CASE y \in T
        BY <1>4, <4>2, Zenon
      <4>3. CASE y = 0
        BY <4>3
      <4> QED BY <4>1, <4>2, <4>3, Zenon
    <3> QED BY <3>1, <3>2
  <2>5. U \subseteq Int
    BY <2>4
  <2> QED BY <2>3, <2>4, <2>5
<1>7. Max(U) \in U /\ \A y \in U : Max(U) >= y
  BY <1>6, MaxOf
<1>8. RestOf(s) = Max(U)
  BY <1>2, <1>3, <1>5, Zenon DEF RestOf
<1>9. ASSUME NEW c \in closedLog, NEW p \in openedLog, c.lost, p.id = c.id, p.symbol = s
      PROVE  c.at + Cooldown <= now \/ c.at + Cooldown <= RestOf(s)
  <2>1. c \in lost
    BY <1>2, <1>9
  <2>2. PICK u \in T : u = c.at + Cooldown
    BY <1>3, <2>1
  <2>3. CASE u > now
    <3>1. u \in U
      BY <1>5, <2>3
    <3>2. Max(U) >= u /\ Max(U) \in Nat /\ u \in Nat
      BY <1>4, <1>6, <1>7, <3>1
    <3> QED BY <1>8, <2>2, <3>2
  <2>4. CASE ~ (u > now)
    BY <1>1, <1>4, <2>2, <2>4
  <2> QED BY <2>3, <2>4
<1>10. RestOf(s) \in Nat
  BY <1>6, <1>7, <1>8
<1> QED BY <1>9, <1>10

\* The high of a position the logs call open is one of those they have, or its entry.
LEMMA PeaksAreRestored ==
  ASSUME BookIsSound, NEW p \in StillOpen
  PROVE  /\ p.id \in Ids
         /\ LoggedPeaks(p.id) # {} => RestoredPeaks(p.id) = LoggedPeaks(p.id)
         /\ LoggedPeaks(p.id) = {} => RestoredPeaks(p.id) = {p.entry}
<1>1. p \in openedLog /\ p \in AllOpened
  BY DEF StillOpen, AllOpened
<1>2. p.id \in Ids
  BY <1>1 DEF BookIsSound, BookTypes
<1>3. \A q \in StillOpen : q.id = p.id => q = p
  BY <1>1 DEF BookIsSound, IdsAreOwn, StillOpen, AllOpened
<1>4. {q.entry : q \in {q \in StillOpen : q.id = p.id}} = {p.entry}
  <2>1. {q \in StillOpen : q.id = p.id} = {p}
    BY <1>3
  <2> QED BY <2>1
<1> QED BY <1>2, <1>4 DEF RestoredPeaks

\* A new object of the ant reads the logs back: it may forget what did not reach them, and
\* nothing else (_restore_from_logs).
LEMMA RestartKeeps ==
  ASSUME BookIsSound, BookRestart, UNCHANGED <<now, scoutVars>>
  PROVE  BookIsSound'
<1>1. /\ bookLife' = bookLife + 1 /\ bookLife < MaxBookLives
      /\ book' = StillOpen /\ held' = {p.symbol : p \in StillOpen}
      /\ peak' \in {f \in [Ids -> Prices \cup {0}] : \A i \in Ids : f[i] \in RestoredPeaks(i)}
      /\ restUntil' = [s \in EqSymbols |-> RestOf(s)]
      /\ toCheck' = {} /\ toTake' = {} /\ unwritten' = <<>>
      /\ UNCHANGED <<openedLog, closedLog, peakLog, now, snapshot, spotted>>
  BY DEF BookRestart, RestoredSymbols, diskVars, scoutVars
<1>2. /\ now \in Nat /\ Cooldown \in Nat /\ Prices \subseteq Nat \ {0} /\ MaxPositions \in Nat
      /\ bookLife \in BookLives /\ bookLife \in Nat /\ BookLives \subseteq Nat
      /\ closedLog \subseteq Closes /\ IsFiniteSet(openedLog) /\ IsFiniteSet(closedLog)
      /\ peakLog \in [Ids -> [BookLives -> Nat]]
  BY TimeAssumption, BookAssumption DEF BookIsSound, BookTypes, BookLives
<1>3. OpensIn(unwritten') = {} /\ ClosesIn(unwritten') = {} /\ RisesIn(unwritten') = {}
  BY <1>1, NoLines
<1>4. AllOpened' = openedLog /\ AllClosed' = closedLog /\ Unclosed' = StillOpen
  <2>1. AllOpened' = openedLog /\ AllClosed' = closedLog
    BY <1>1, <1>3 DEF AllOpened, AllClosed
  <2> QED BY <1>1, <2>1 DEF Unclosed, StillOpen
<1>5. openedLog \subseteq AllOpened /\ closedLog \subseteq AllClosed /\ StillOpen \subseteq Unclosed
      /\ StillOpen \subseteq openedLog
  BY DEF AllOpened, AllClosed, Unclosed, StillOpen
<1>6. \A q \in openedLog : q.id \in Ids /\ q.symbol \in EqSymbols /\ q.entry \in Prices /\ q.at \in Nat
  BY <1>5 DEF BookIsSound, BookTypes
<1>7. BookTypes'
  <2>1. peak' \in [Ids -> Nat]
    <3>1. peak' \in [Ids -> Prices \cup {0}]
      BY <1>1
    <3>2. Prices \cup {0} \subseteq Nat
      BY <1>2
    <3> QED BY <3>1, <3>2
  <2>2. restUntil' \in [EqSymbols -> Nat]
    BY <1>1, RestsAreRestored
  <2>3. bookLife' \in BookLives
    BY <1>1, <1>2, BookAssumption DEF BookLives
  <2> QED BY <1>1, <1>2, <1>4, <1>6, <2>1, <2>2, <2>3 DEF BookIsSound, BookTypes
<1>8. LinesInOrder'
  BY <1>1 DEF LinesInOrder
<1>9. IdsAreOwn'
  BY <1>1, <1>3, <1>4, <1>5 DEF BookIsSound, IdsAreOwn
<1>10. BookIsLogged'
  <2>1. book' = {p \in AllOpened' : \A c \in AllClosed' : c.id # p.id}
    BY <1>1, <1>4 DEF StillOpen
  <2>2. held' = {p.symbol : p \in book'} /\ toCheck' \subseteq book'
    BY <1>1
  <2>3. Cardinality(Unclosed') <= MaxPositions
    <3>1. IsFiniteSet(Unclosed) /\ Cardinality(Unclosed) <= MaxPositions
      BY BookFitsSymbols DEF BookIsSound, BookIsLogged
    <3>2. IsFiniteSet(StillOpen) /\ Cardinality(StillOpen) <= Cardinality(Unclosed)
      BY <1>5, <3>1, FS_Subset
    <3> QED BY <1>2, <1>4, <3>1, <3>2, FS_CardinalityType
  <2>4. \A p \in Unclosed', o \in AllOpened' : o.symbol = p.symbol => o.id <= p.id
    BY <1>4, <1>5 DEF BookIsSound, BookIsLogged
  <2> QED BY <2>1, <2>2, <2>3, <2>4 DEF BookIsLogged
<1>11. RestsAreKnown'
  <2>1. SUFFICES ASSUME NEW c \in closedLog, NEW p \in openedLog, c.lost, p.id = c.id
                 PROVE  /\ c.at + Cooldown <= now \/ c.at + Cooldown <= restUntil'[p.symbol]
                        /\ \A o \in openedLog : o.symbol = p.symbol /\ c.id < o.id => o.at >= c.at + Cooldown
    BY <1>1, <1>4 DEF RestsAreKnown
  <2>2. \A o \in openedLog : o.symbol = p.symbol /\ c.id < o.id => o.at >= c.at + Cooldown
    BY <1>5, <2>1 DEF BookIsSound, RestsAreKnown
  <2>3. c.at + Cooldown <= now \/ c.at + Cooldown <= RestOf(p.symbol)
    BY <1>6, <2>1, RestsAreRestored
  <2> QED BY <1>1, <1>6, <2>2, <2>3
<1>12. HighsAreKnown'
  <2>1. \A i \in Ids, l \in BookLives : peakLog[i][l] # 0 => l <= bookLife + 1
    BY <1>2 DEF BookIsSound, HighsAreKnown
  <2> QED BY <1>1, <1>3, <2>1 DEF BookIsSound, HighsAreKnown
<1>13. StopsNeverFall'
  <2>1. SUFFICES ASSUME NEW p \in StillOpen
                 PROVE  /\ peak'[p.id] >= p.entry
                        /\ Cardinality({l \in 1 .. bookLife : peakLog[p.id][l] # 0}) <= 1 =>
                             \A l \in BookLives : peakLog[p.id][l] <= peak'[p.id]
    <3>1. bookLife' - 1 = bookLife
      BY <1>1, <1>2
    <3> QED BY <1>1, <3>1 DEF StopsNeverFall
  <2>2. PICK i \in Ids : i = p.id
    BY <1>5, <1>6
  <2>3. p \in openedLog /\ p.entry \in Nat
    BY <1>2, <1>5, <1>6
  <2>4. \A l \in BookLives : peakLog[i][l] \in Nat
    BY <1>2
  <2>5. \A l \in BookLives : peakLog[i][l] # 0 => l \in 1 .. bookLife /\ p.entry <= peakLog[i][l]
    <3>1. SUFFICES ASSUME NEW l \in BookLives, peakLog[i][l] # 0
                   PROVE  l \in 1 .. bookLife /\ p.entry <= peakLog[i][l]
      OBVIOUS
    <3>2. l <= bookLife
      BY <3>1 DEF BookIsSound, HighsAreKnown
    <3>3. PICK q \in openedLog : q.id = i /\ q.entry <= peakLog[i][l]
      BY <3>1 DEF BookIsSound, HighsAreKnown
    <3>4. q = p
      BY <1>5, <2>2, <2>3, <3>3 DEF BookIsSound, IdsAreOwn
    <3>5. l \in 1 .. bookLife
      BY <1>2, <3>2, BookAssumption DEF BookLives
    <3> QED BY <3>3, <3>4, <3>5
  <2>6. CASE LoggedPeaks(i) = {}
    <3>1. peak'[i] = p.entry
      BY <1>1, <2>2, <2>6, PeaksAreRestored
    <3>2. \A l \in BookLives : peakLog[i][l] = 0
      BY <2>6 DEF LoggedPeaks
    <3> QED BY <2>2, <2>3, <3>1, <3>2
  <2>7. CASE LoggedPeaks(i) # {}
    <3>1. peak'[i] \in LoggedPeaks(i)
      BY <1>1, <2>2, <2>7, PeaksAreRestored
    <3>2. PICK m \in BookLives : peak'[i] = peakLog[i][m] /\ peakLog[i][m] # 0
      BY <3>1 DEF LoggedPeaks
    <3>3. peak'[i] >= p.entry /\ peak'[i] \in Nat
      BY <2>3, <2>4, <2>5, <3>2
    <3>4. ASSUME Cardinality({l \in 1 .. bookLife : peakLog[i][l] # 0}) <= 1, NEW l \in BookLives
          PROVE  peakLog[i][l] <= peak'[i]
      <4>1. CASE peakLog[i][l] = 0
        BY <3>3, <4>1
      <4>2. CASE peakLog[i][l] # 0
        <5>1. PICK S \in SUBSET (1 .. bookLife) : S = {k \in 1 .. bookLife : peakLog[i][k] # 0}
          OBVIOUS
        <5>2. m \in S /\ l \in S
          BY <2>5, <3>2, <4>2, <5>1
        <5>3. IsFiniteSet(S) /\ Cardinality(S) <= 1
          <6>1. IsFiniteSet(1 .. bookLife)
            BY <1>2, FS_Interval
          <6> QED BY <3>4, <5>1, <6>1, FS_Subset
        <5>4. m = l
          <6>1. IsFiniteSet({m}) /\ Cardinality({m}) = 1 /\ {m} \in SUBSET S
            BY <5>2, FS_Singleton
          <6>2. Cardinality({m}) <= Cardinality(S) /\ (Cardinality(S) = Cardinality({m}) => S = {m})
            BY <5>3, <6>1, FS_Subset
          <6>3. Cardinality(S) \in Nat
            BY <5>3, FS_CardinalityType
          <6>4. S = {m}
            BY <5>3, <6>1, <6>2, <6>3
          <6> QED BY <5>2, <6>4
        <5> QED BY <2>4, <3>2, <5>4
      <4> QED BY <4>1, <4>2
    <3> QED BY <2>2, <3>3, <3>4
  <2> QED BY <2>6, <2>7
<1> QED BY <1>7, <1>8, <1>9, <1>10, <1>11, <1>12, <1>13 DEF BookIsSound

\* The signals a tick takes are on known symbols.
LEMMA SignalsHaveSymbols ==
  ASSUME BookTypes, NEW phase
  PROVE  \A s \in SignalsOf(phase) : s[3] \in EqSymbols
<1>1. \A s \in {<<"sector", s[2], s[1]>> : s \in spotted} : s[3] \in EqSymbols
  BY DEF BookTypes
<1>2. \A s \in {<<"ranking", snapshot.day, s>> : s \in FirstOf(snapshot.order, SignalTop)} : s[3] \in EqSymbols
  <2>1. FirstOf(snapshot.order, SignalTop) \subseteq EqSymbols
    BY FirstAreSymbols, ScoutAssumption DEF BookTypes
  <2>2. SUFFICES ASSUME NEW x \in FirstOf(snapshot.order, SignalTop)
                 PROVE  <<"ranking", snapshot.day, x>>[3] \in EqSymbols
    OBVIOUS
  <2> QED BY <2>1, <2>2
<1>3. \A s \in Listed : s[3] \in EqSymbols
  <2>1. SUFFICES ASSUME NEW s \in Listed PROVE s[3] \in EqSymbols
    OBVIOUS
  <2>2. s[3] \in {x[3] : x \in Listed}
    BY <2>1, Zenon
  <2>3. \A x : x \in {y[3] : y \in Listed} => x \in EqSymbols
    BY Zenon DEF EqSymbols
  <2> QED BY <2>2, <2>3, Zenon
<1>4. CASE Kinds[phase - 1] = "sector"
  BY <1>1, <1>4 DEF SignalsOf
<1>5. CASE Kinds[phase - 1] = "ranking"
  BY <1>2, <1>5 DEF SignalsOf
<1>6. CASE Kinds[phase - 1] # "sector" /\ Kinds[phase - 1] # "ranking"
  BY <1>3, <1>6 DEF SignalsOf
<1> QED BY <1>4, <1>5, <1>6

\* Every step of the colony keeps the book sound.
LEMMA BookStepHolds == BookIsSound /\ [MillNext]_vars => BookIsSound'
<1> SUFFICES ASSUME BookIsSound, [MillNext]_vars PROVE BookIsSound'
  OBVIOUS
<1>0. /\ now \in 0 .. MaxNow /\ now \in Nat /\ MaxNow \in Nat
      /\ \A s \in spotted : s[1] \in EqSymbols
      /\ snapshot.order = <<>> \/ snapshot.order \in SectorRankings
      /\ \A s \in toTake : s[3] \in EqSymbols
      /\ toCheck \subseteq book
  BY TimeAssumption DEF BookIsSound, BookTypes, BookIsLogged
<1>1. CASE /\ (now' = now \/ TimePasses) /\ (SectorScoutTick \/ UNCHANGED scoutVars)
           /\ UNCHANGED bookVars
  <2>1. now' \in 0 .. MaxNow /\ now <= now'
    BY <1>0, <1>1 DEF TimePasses
  <2>2. /\ \A s \in spotted' : s[1] \in EqSymbols
        /\ snapshot'.order = <<>> \/ snapshot'.order \in SectorRankings
    <3>1. CASE SectorScoutTick
      <4>1. PICK order \in SectorRankings : \E priced \in SUBSET FirstOf(order, SignalTop) :
              snapshot' = [day |-> Today, order |-> order] /\ spotted' = spotted \cup (priced \X {Today})
        BY <3>1 DEF SectorScoutTick
      <4>2. FirstOf(order, SignalTop) \subseteq EqSymbols
        BY ScoutAssumption, FirstAreSymbols
      <4>3. \A s \in spotted' : s[1] \in EqSymbols
        BY <1>0, <4>1, <4>2
      <4>4. snapshot'.order = order
        BY <4>1
      <4> QED BY <4>3, <4>4
    <3>2. CASE UNCHANGED scoutVars
      BY <1>0, <3>2 DEF scoutVars
    <3> QED BY <1>1, <3>1, <3>2
  <2> QED BY <1>0, <1>1, <2>1, <2>2, QuietKeeps DEF bookVars, memVars, tickVars, diskVars
<1>2. CASE BookStep /\ UNCHANGED <<now, scoutVars>>
  <2>0. now' \in 0 .. MaxNow /\ now <= now' /\ UNCHANGED <<snapshot, spotted>>
    BY <1>0, <1>2 DEF scoutVars
  <2>1. CASE BookTick
    BY <1>0, <2>0, <2>1, QuietKeeps DEF BookTick, memVars, diskVars
  <2>2. CASE NextPhase
    <3>1. \A s \in toTake' : s[3] \in EqSymbols
      BY <2>2, SignalsHaveSymbols DEF NextPhase, BookIsSound
    <3> QED BY <1>0, <2>0, <2>2, <3>1, QuietKeeps DEF NextPhase, memVars, diskVars
  <2>3. CASE TickDone
    BY <1>0, <2>0, <2>3, QuietKeeps DEF TickDone, memVars, diskVars
  <2>4. CASE WriteLine
    BY <1>2, <2>4, WriteKeeps
  <2>5. CASE BookRestart
    BY <1>2, <2>5, RestartKeeps
  <2>6. ASSUME NEW p \in toCheck, PassPosition(p) PROVE BookIsSound'
    <3>1. toCheck' \subseteq book
      BY <1>0, <2>6 DEF PassPosition, Checked
    <3> QED BY <1>0, <2>0, <2>6, <3>1, QuietKeeps DEF PassPosition, memVars, diskVars
  <2>7. ASSUME NEW p \in toCheck, HoldPosition(p) PROVE BookIsSound'
    BY <1>2, <2>7, HoldKeeps
  <2>8. ASSUME NEW p \in toCheck, ClosePosition(p) PROVE BookIsSound'
    BY <1>2, <2>8, CloseKeeps
  <2>9. ASSUME NEW s \in toTake, SpendSignal(s) PROVE BookIsSound'
    <3>1. toTake' \subseteq toTake /\ UNCHANGED toCheck
      BY <2>9 DEF SpendSignal, Takes
    <3>2. UNCHANGED <<book, held, peak, restUntil, unwritten, bookLife, openedLog, closedLog, peakLog>>
      BY <2>9 DEF SpendSignal, Takes, diskVars
    <3> QED BY <1>0, <2>0, <3>1, <3>2, QuietKeeps
  <2>10. ASSUME NEW s \in toTake, OpenPosition(s) PROVE BookIsSound'
    BY <1>2, <2>10, OpenKeeps
  <2> QED BY <1>2, <2>1, <2>2, <2>3, <2>4, <2>5, <2>6, <2>7, <2>8, <2>9, <2>10, Zenon DEF BookStep
<1> QED BY <1>1, <1>2, BookFrame

\* The symbols taken for held are those of the positions, each with one, no more than the
\* limit, none closed in the logs, across deaths between a change and its line
\* (_try_open_position, _close_position, _restore_from_logs).
THEOREM SymbolsStayWithBook == MillSpec => []SymbolsMatchBook
<1>1. BookIsSound => SymbolsMatchBook
  <2>1. SUFFICES ASSUME BookIsSound PROVE SymbolsMatchBook
    OBVIOUS
  <2>2. \A p \in book, c \in closedLog : c.id # p.id
    BY <2>1 DEF BookIsSound, BookIsLogged, AllClosed
  <2> QED BY <2>1, <2>2, BookFitsSymbols DEF SymbolsMatchBook, BookIsSound, BookIsLogged
<1> QED BY <1>1, BookInitHolds, BookStepHolds, PTL DEF MillSpec

\* No symbol closed for lost momentum is entered again before its rest is over, in this life or
\* a later one, as far as the close reached the logs (_set_momentum_cooldown,
\* _restore_momentum_cooldowns).
THEOREM LostMomentumKeepsResting == MillSpec => []LostMomentumRests
<1>1. BookIsSound => LostMomentumRests
  BY DEF BookIsSound, RestsAreKnown, LostMomentumRests, AllOpened, AllClosed
<1> QED BY <1>1, BookInitHolds, BookStepHolds, PTL DEF MillSpec

\* The high a trailing stop hangs on does not fall below one in the logs, as long as no more
\* than one earlier life wrote one (_restore_from_logs).
THEOREM StopsStayUp == MillSpec => []StopsNeverFall
<1>1. BookIsSound => StopsNeverFall
  BY DEF BookIsSound
<1> QED BY <1>1, BookInitHolds, BookStepHolds, PTL DEF MillSpec

--------------------------------------------------------------------------------
(* Live execution. *)

\* While it tries to open a position the ant has no open order; and an order has
\* a number.
SightInv ==
  /\ sent \in Nat
  /\ liveStep \notin {"idle", "ended"} => openOrder = NoLiveOrder
  /\ NoLiveOrder \notin holdings
  /\ OneOrderInSight

\* An order with a number is an order.
LEMMA NewOrderIsOrder ==
  ASSUME sent \in Nat
  PROVE  NewOrder # NoLiveOrder
BY DEF NewOrder, NoLiveOrder

\* No order the ant knows of is forgotten, whatever fails, halts or restarts
\* (_try_open_position, _monitor_open_order).
THEOREM OrdersStayInSight == LiveSpec => []OneOrderInSight
<1>1. LiveInit => SightInv
  BY DEF LiveInit, SightInv, OneOrderInSight
<1>2. ASSUME SightInv, [LiveStep]_liveVars PROVE SightInv'
  <2> USE <1>2 DEF SightInv, OneOrderInSight, exchangeVars
  <2>1. CASE HaltOrRevoke
    BY <2>1 DEF HaltOrRevoke
  <2>2. CASE TryOpenPosition
    BY <2>2 DEF TryOpenPosition, FindCandidates
  <2>3. CASE NoneLeft \/ PassOver \/ Offer \/ LiveEnds
    BY <2>3 DEF NoneLeft, PassOver, Offer, LiveEnds
  <2>4. CASE CheckColony \/ CheckMission \/ CheckDataAndAdapter
    BY <2>4 DEF CheckColony, CheckMission, CheckDataAndAdapter, Accept, Reject
  <2>5. CASE ReadCapital \/ NotTaken
    BY <2>5 DEF ReadCapital, NotTaken, Reject
  <2>6. CASE MonitorOrder
    BY <2>6 DEF MonitorOrder, FindCandidates
  <2>7. CASE TakesOrder
    BY <2>7, NewOrderIsOrder DEF TakesOrder, Taken
  <2>8. CASE AdapterError
    BY <2>8, NewOrderIsOrder DEF AdapterError, Taken, Reject
  <2>9. CASE PositionEnds
    BY <2>9 DEF PositionEnds
  <2>10. CASE LiveRestart
    BY <2>10 DEF LiveRestart
  <2>11. CASE UNCHANGED liveVars
    BY <2>11 DEF liveVars
  <2>12. QED
    BY <2>1, <2>2, <2>3, <2>4, <2>5, <2>6, <2>7, <2>8, <2>9, <2>10, <2>11 DEF LiveStep
<1>3. SightInv => OneOrderInSight
  BY DEF SightInv
<1>4. QED
  BY <1>1, <1>2, <1>3, PTL DEF LiveSpec

\* After an order that came too late the ant is before the check that will refuse
\* the next: the first if the colony is halted, the second if the mission is over.
LateInv ==
  /\ colonyIs \in {"running", "halted"} /\ missionIs \in {"active", "over"}
  /\ sentSince \in Nat /\ sentSince <= 1
  /\ sentSince = 1 => Unwelcome /\ liveStep \in {"idle", "pick", "check 1", "check 2", "ended"}
  /\ sentSince = 1 /\ liveStep = "check 2" => missionIs = "over"

\* Of no orders there is not more than one.
LEMMA NoneIsFew == 0 \in Nat /\ 0 <= 1 /\ ~(0 = 1)
OBVIOUS

\* Of a kill or a revocation no more than one order escapes (LiveExecutionGate.execute).
THEOREM OneOrderAtMostIsLate == LiveSpec => []OneOrderSlipsThrough
<1>1. LiveInit => LateInv
  BY DEF LiveInit, LateInv
<1>2. ASSUME LateInv, [LiveStep]_liveVars PROVE LateInv'
  <2> USE <1>2 DEF LateInv, Unwelcome
  <2>1. CASE HaltOrRevoke
    BY <2>1 DEF HaltOrRevoke, exchangeVars
  <2>2. CASE TryOpenPosition \/ NoneLeft \/ PassOver \/ Offer \/ LiveEnds
    BY <2>2 DEF TryOpenPosition, NoneLeft, PassOver, Offer, LiveEnds, FindCandidates, controlVars, exchangeVars
  <2>3. CASE CheckColony \/ CheckMission \/ CheckDataAndAdapter
    BY <2>3 DEF CheckColony, CheckMission, CheckDataAndAdapter, Accept, Reject, controlVars, exchangeVars
  <2>4. CASE ReadCapital \/ NotTaken
    BY <2>4 DEF ReadCapital, NotTaken, Reject, controlVars, exchangeVars
  <2>5. CASE MonitorOrder
    BY <2>5 DEF MonitorOrder, FindCandidates, controlVars
  <2>6. CASE TakesOrder \/ AdapterError
    <3>1. liveStep = "send"
      BY <2>6, Zenon DEF TakesOrder, AdapterError
    <3>2. sentSince = 0
      BY <3>1
    <3>3. /\ ~Unwelcome => sentSince' = 0
          /\ Unwelcome => sentSince' = sentSince + 1
          /\ colonyIs' = colonyIs /\ missionIs' = missionIs
      BY <2>6, Zenon DEF TakesOrder, AdapterError, Taken, Unwelcome, controlVars
    <3>4. liveStep' \in {"idle", "pick"}
      BY <2>6, Zenon DEF TakesOrder, AdapterError, Reject
    <3>5. sentSince' \in Nat /\ sentSince' <= 1 /\ (sentSince' = 1 => Unwelcome)
      <4>1. CASE Unwelcome
        BY <3>2, <3>3, <4>1
      <4>2. CASE ~Unwelcome
        BY <3>2, <3>3, <4>2
      <4>3. QED
        BY <4>1, <4>2
    <3>6. QED
      BY <3>3, <3>4, <3>5
  <2>7. CASE PositionEnds \/ LiveRestart
    <3>1. CASE PositionEnds
      <4>1. UNCHANGED <<colonyIs, missionIs, liveStep, sentSince>>
        BY <3>1, Zenon DEF PositionEnds, controlVars
      <4>2. QED
        BY <4>1
    <3>2. CASE LiveRestart
      <4>1. colonyIs' = "running" /\ missionIs' = "active"
        BY <3>2, Zenon DEF LiveRestart
      <4>2. sentSince' = 0
        BY <3>2, Zenon DEF LiveRestart
      <4>3. sentSince' \in Nat /\ sentSince' <= 1 /\ ~(sentSince' = 1)
        BY <4>2, NoneIsFew, Zenon
      <4>4. QED
        BY <4>1, <4>3
    <3>3. QED
      BY <2>7, <3>1, <3>2
  <2>8. CASE UNCHANGED liveVars
    BY <2>8 DEF liveVars, controlVars, exchangeVars
  <2>9. QED
    BY <2>1, <2>2, <2>3, <2>4, <2>5, <2>6, <2>7, <2>8 DEF LiveStep
<1>3. LateInv => OneOrderSlipsThrough
  BY DEF LateInv, Unwelcome, OneOrderSlipsThrough
<1>4. QED
  BY <1>1, <1>2, <1>3, PTL DEF LiveSpec
================================================================================
