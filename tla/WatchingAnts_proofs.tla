------------------------- MODULE WatchingAnts_proofs --------------------------
(***************************************************************************)
(* What the provers show of the ants and threads that watch: the sync of   *)
(* the regime, the news ant, the audit ant, the Watchtower ant with the    *)
(* Queen's memory, and the session with the gateway of Interactive Brokers;*)
(* and what the advisor concludes of what it reads, whatever that is.      *)
(***************************************************************************)
EXTENDS CandidateMill_proofs

--------------------------------------------------------------------------------
(* The regime carried over. *)

\* A step of the colony is one of those that watch, or none of theirs.
LEMMA SenseFrame ==
  ASSUME [MillNext]_vars
  PROVE  SenseStep \/ UNCHANGED senseVars
  BY Zenon DEF MillNext, vars

\* To the sync of the regime a step is its own or none of its.
LEMMA SyncFrame ==
  ASSUME [MillNext]_vars
  PROVE  SyncStep \/ UNCHANGED syncVars
<1>1. CASE SenseStep
  BY <1>1, Zenon DEF SenseStep
<1>2. CASE UNCHANGED senseVars
  BY <1>2, Zenon DEF senseVars
<1> QED BY <1>1, <1>2, SenseFrame, Zenon

RsRegimes == {"RISK_ON", "NEUTRAL", "RISK_OFF", "CRISIS"}
SyncPcs  == {"idle", "lookup", "store", "compare", "write", "fallback", "signal"}

SyncTypes ==
  /\ rsLog \in Seq(RsRegimes)
  /\ syncPc \in [Syncers -> SyncPcs]
  /\ print \in [Syncers -> Nat] /\ since \in [Syncers -> Nat]
  /\ found \in [Syncers -> RsRegimes \cup {NoReading}]
  /\ rsCache \in Int \X (RsRegimes \cup {NoReading})

\* What is cached with the fingerprint of the log as it is was read from the log as it is.
CacheIsCurrent ==
  /\ rsCache[1] <= Len(rsLog)
  /\ rsCache[1] = Len(rsLog) => rsCache[2] \in {LatestReading, NoReading}

\* So was what a thread found, if its fingerprint is still that of the log.
FoundIsCurrent(s) ==
  /\ since[s] = print[s] /\ print[s] <= Len(rsLog)
  /\ print[s] = Len(rsLog) /\ syncPc[s] \in {"store", "compare", "write"} =>
       found[s] \in {LatestReading, NoReading}
  /\ syncPc[s] = "write" => QueenRegimeOf(found[s]) # NoReading

ReadingsAreCurrent ==
  /\ SyncTypes
  /\ CacheIsCurrent
  /\ \A s \in Syncers : FoundIsCurrent(s)
  /\ followed => rsLog # <<>> /\ queenRegime = QueenRegimeOf(LatestReading)

\* The last line of the log is a regime, if there is a line.
LEMMA LatestIsTyped ==
  ASSUME rsLog \in Seq(RsRegimes)
  PROVE  LatestReading \in RsRegimes \cup {NoReading} /\ Len(rsLog) \in Nat
  BY DEF LatestReading, Last

\* Without a reading no regime is named.
LEMMA NoRegimeUnread == QueenRegimeOf(NoReading) = NoReading
  BY SyncAssumption DEF QueenRegimeOf

\* What names a regime for the Queen was read from a line.
LEMMA LatestIsRead ==
  ASSUME rsLog \in Seq(RsRegimes), QueenRegimeOf(LatestReading) # NoReading
  PROVE  rsLog # <<>>
  BY NoRegimeUnread DEF LatestReading

\* No regime is known at first.
LEMMA SyncInitHolds == MillInit => ReadingsAreCurrent
  BY DEF MillInit, SyncInit, ReadingsAreCurrent, SyncTypes, CacheIsCurrent, FoundIsCurrent,
         Syncers, SyncPcs

\* What is cached, or in the hands of a thread, with the fingerprint of the log as it is, is
\* its last line's; and followed tells the truth.
LEMMA SyncStepHolds == ReadingsAreCurrent /\ [MillNext]_vars => ReadingsAreCurrent'
<1> SUFFICES ASSUME ReadingsAreCurrent, [MillNext]_vars PROVE ReadingsAreCurrent'
  OBVIOUS
<1> USE DEF ReadingsAreCurrent, SyncTypes
<1>0. LatestReading \in RsRegimes \cup {NoReading} /\ Len(rsLog) \in Nat
  BY LatestIsTyped
<1>1. CASE ReadMarket
  <2>1. PICK regime \in RsRegimes : rsLog' = Append(rsLog, regime)
    BY <1>1 DEF ReadMarket, Classified, RsRegimes
  <2>2. Len(rsLog') = Len(rsLog) + 1 /\ rsLog' \in Seq(RsRegimes)
    BY <2>1
  <2>3. /\ UNCHANGED <<rsCache, syncPc, print, found, since, queenRegime>>
        /\ ~ followed'
    BY <1>1 DEF ReadMarket
  <2>4. CacheIsCurrent'
    BY <2>2, <2>3, <1>0 DEF CacheIsCurrent
  <2>5. ASSUME NEW s \in Syncers PROVE FoundIsCurrent(s)'
    BY <2>2, <2>3, <1>0 DEF FoundIsCurrent
  <2> QED BY <2>2, <2>3, <2>4, <2>5
<1>2. ASSUME NEW s \in Syncers, SyncBegins(s) \/ LookUp(s) \/ Store(s) \/ Compare(s) \/ WriteRegime(s)
      PROVE ReadingsAreCurrent'
  <2>1. UNCHANGED rsLog /\ LatestReading' = LatestReading
    BY <1>2 DEF SyncBegins, LookUp, Store, Compare, WriteRegime, LatestReading
  <2>2. SyncTypes'
    <3>1. CASE SyncBegins(s)
      BY <1>0, <3>1 DEF SyncBegins, SyncGoto, SyncPcs, Fingerprint
    <3>5. CASE Store(s)
      <4>1. /\ rsCache' = <<print[s], found[s]>> /\ syncPc' = [syncPc EXCEPT ![s] = "compare"]
            /\ UNCHANGED <<rsLog, print, found, since>>
        BY <3>5 DEF Store, SyncGoto
      <4>2. print[s] \in Int /\ found[s] \in RsRegimes \cup {NoReading}
        OBVIOUS
      <4> QED BY <4>1, <4>2 DEF SyncPcs
    <3>2. CASE LookUp(s)
      <4>1. PICK read \in RsRegimes \cup {NoReading} :
                   /\ found' = [found EXCEPT ![s] = read] /\ UNCHANGED <<rsLog, rsCache, print, since>>
                   /\ \E pc \in {"compare", "store"} : syncPc' = [syncPc EXCEPT ![s] = pc]
        BY <1>0, <3>2 DEF LookUp, SyncGoto
      <4> QED BY <4>1 DEF SyncPcs
    <3>3. CASE Compare(s)
      BY <3>3 DEF Compare, SyncGoto, SyncPcs
    <3>4. CASE WriteRegime(s)
      BY <3>4 DEF WriteRegime, SyncGoto, SyncPcs
    <3> QED BY <1>2, <3>1, <3>2, <3>3, <3>4, <3>5
  <2>3. CacheIsCurrent'
    BY <1>2, <1>0, <2>1 DEF SyncBegins, LookUp, Store, Compare, WriteRegime, CacheIsCurrent, FoundIsCurrent
  <2>4. ASSUME NEW t \in Syncers PROVE FoundIsCurrent(t)'
    <3>1. CASE t # s
      BY <1>2, <2>1, <3>1 DEF SyncBegins, LookUp, Store, Compare, WriteRegime, SyncGoto, FoundIsCurrent
    <3>2. CASE t = s
      BY <1>2, <1>0, <2>1, <3>2 DEF SyncBegins, LookUp, Store, Compare, WriteRegime, SyncGoto,
            FoundIsCurrent, CacheIsCurrent, Fingerprint
    <3> QED BY <3>1, <3>2
  <2>5. followed' => rsLog' # <<>> /\ queenRegime' = QueenRegimeOf(LatestReading)
    <3>1. CASE Compare(s)
      <4>1. \/ followed' => followed /\ UNCHANGED queenRegime
            \/ /\ QueenRegimeOf(found[s]) # NoReading /\ queenRegime' = QueenRegimeOf(found[s])
               /\ UNCHANGED queenRegime /\ (followed' => followed \/ Current(s))
        BY <3>1, Zenon DEF Compare
      <4>2. syncPc[s] = "compare"
        BY <3>1 DEF Compare
      <4>3. Current(s) /\ QueenRegimeOf(found[s]) # NoReading => found[s] = LatestReading
        BY <1>0, <4>2, NoRegimeUnread DEF Current, FoundIsCurrent
      <4>4. followed => rsLog # <<>> /\ queenRegime = QueenRegimeOf(LatestReading)
        OBVIOUS
      <4>5. ASSUME Current(s), QueenRegimeOf(found[s]) # NoReading
            PROVE  rsLog # <<>> /\ QueenRegimeOf(found[s]) = QueenRegimeOf(LatestReading)
        BY <4>3, <4>5, LatestIsRead
      <4>6. UNCHANGED rsLog
        BY <2>1
      <4>7. ASSUME followed' PROVE rsLog # <<>> /\ queenRegime' = QueenRegimeOf(LatestReading)
        <5>1. CASE followed /\ UNCHANGED queenRegime
          BY <4>4, <5>1
        <5>2. CASE queenRegime' = QueenRegimeOf(found[s]) /\ Current(s) /\ QueenRegimeOf(found[s]) # NoReading
          BY <4>5, <5>2
        <5> QED BY <4>1, <4>7, <5>1, <5>2, Zenon
      <4> QED BY <4>6, <4>7, Zenon
    <3>2. CASE WriteRegime(s)
      <4>1. \/ UNCHANGED <<queenRegime, followed>>
            \/ queenRegime' = QueenRegimeOf(found[s]) /\ followed' = Current(s)
        BY <3>2, Zenon DEF WriteRegime
      <4>2. syncPc[s] = "write"
        BY <3>2 DEF WriteRegime
      <4>3. QueenRegimeOf(found[s]) # NoReading /\ (Current(s) => found[s] = LatestReading)
        BY <1>0, <4>2, NoRegimeUnread DEF Current, FoundIsCurrent
      <4> QED BY <2>1, <4>1, <4>3, LatestIsRead
    <3> QED BY <1>2, <3>1, <3>2 DEF SyncBegins, LookUp, Store
  <2> QED BY <2>1, <2>2, <2>3, <2>4, <2>5, Zenon
<1>3. CASE Fallback
  <2>1. UNCHANGED <<rsLog, rsCache, print, since, found>> /\ syncPc' = [syncPc EXCEPT !["advisor"] = "idle"]
        /\ (followed' => UNCHANGED <<followed, queenRegime>>)
    BY <1>3 DEF Fallback, SyncGoto
  <2>2. LatestReading' = LatestReading /\ "advisor" \in Syncers
    BY <2>1 DEF LatestReading, Syncers
  <2>3. ASSUME NEW s \in Syncers PROVE FoundIsCurrent(s)'
    BY <2>1, <2>2 DEF FoundIsCurrent
  <2>4. CacheIsCurrent' /\ SyncTypes'
    BY <2>1, <2>2 DEF CacheIsCurrent, SyncPcs
  <2>5. followed' => rsLog' # <<>> /\ queenRegime' = QueenRegimeOf(LatestReading)
    BY <2>1
  <2> QED BY <2>2, <2>3, <2>4, <2>5, Zenon
<1>4. CASE SignalMarket
  BY <1>4 DEF SignalMarket, SyncGoto, CacheIsCurrent, FoundIsCurrent, LatestReading, SyncPcs
<1>5. CASE SyncRestart
  BY <1>5, <1>0 DEF SyncRestart, CacheIsCurrent, FoundIsCurrent, LatestReading, SyncPcs
<1>6. CASE UNCHANGED syncVars
  BY <1>6 DEF syncVars, CacheIsCurrent, FoundIsCurrent, LatestReading
<1> QED BY <1>1, <1>2, <1>3, <1>4, <1>5, <1>6, SyncFrame, Zenon DEF SyncStep

\* Once a thread has looked since the ant's last line, and no sync from before it has written
\* after it, the paper ants read its regime (sync_rs_regime_once).
THEOREM RegimeStaysFollowed == MillSpec => []RegimeIsFollowed
<1>1. ReadingsAreCurrent => RegimeIsFollowed
  BY DEF ReadingsAreCurrent, RegimeIsFollowed, LatestReading
<1> QED BY <1>1, SyncInitHolds, SyncStepHolds, PTL DEF MillSpec

--------------------------------------------------------------------------------
(* The news ant. *)

\* To the news ant a step is its own or none of its.
LEMMA NewsFrame ==
  ASSUME [MillNext]_vars
  PROVE  NewsStep \/ UNCHANGED newsVars
<1>1. CASE SenseStep
  BY <1>1, Zenon DEF SenseStep
<1>2. CASE UNCHANGED senseVars
  BY <1>2, Zenon DEF senseVars
<1> QED BY <1>1, <1>2, SenseFrame, Zenon

NewsTypes ==
  /\ newsDay \in NewsDays /\ countedDay \in 0 .. newsDay
  /\ calls \in 0 .. CallLimit
  /\ usage \in [day : {-1} \cup 0 .. newsDay, calls : 0 .. CallLimit]
  /\ made \in [NewsDays -> Int] /\ uncounted \in [NewsDays -> Int]

\* The counter of today is in the file or in memory, and holds today's calls.
CallsAreCounted ==
  /\ NewsTypes
  /\ usage.day = newsDay => countedDay = newsDay
  /\ made[newsDay] - uncounted[newsDay] = IF countedDay = newsDay THEN calls ELSE 0
  /\ \A d \in NewsDays : d > newsDay => made[d] = 0 /\ uncounted[d] = 0
  /\ NewsCallsAreCounted

\* No call is made at first.
LEMMA NewsInitHolds == MillInit => CallsAreCounted
  BY NewsAssumption DEF MillInit, NewsInit, NoUsage, NewsDays, CallsAreCounted, NewsTypes,
     NewsCallsAreCounted

\* A count for one day goes up, the others stay.
LEMMA MoreOnADay ==
  ASSUME NEW f \in [NewsDays -> Int], NEW d \in NewsDays, NEW k \in Int,
         NEW g, g = [f EXCEPT ![d] = @ + k]
  PROVE  /\ g \in [NewsDays -> Int] /\ g[d] = f[d] + k
         /\ \A e \in NewsDays \ {d} : g[e] = f[e]
  OBVIOUS

\* Counts that change today only, and agree with the counter, stay below the limit.
LEMMA TodayIsCounted ==
  ASSUME CallsAreCounted, newsDay' = newsDay, NewsTypes',
         (usage.day = newsDay => countedDay = newsDay)',
         \A d \in NewsDays \ {newsDay} : made'[d] = made[d] /\ uncounted'[d] = uncounted[d],
         made'[newsDay] - uncounted'[newsDay] = IF countedDay' = newsDay THEN calls' ELSE 0
  PROVE  CallsAreCounted'
<1>1. /\ newsDay \in NewsDays /\ calls' \in 0 .. CallLimit /\ newsDay \in Nat
      /\ \A d \in NewsDays : d \in Nat
  BY NewsAssumption DEF CallsAreCounted, NewsTypes, NewsDays
<1>2. ASSUME NEW d \in NewsDays PROVE made'[d] - uncounted'[d] <= CallLimit
  <2>1. CASE d = newsDay
    BY <1>1, <2>1, NewsAssumption
  <2>2. CASE d # newsDay
    BY <2>2 DEF CallsAreCounted, NewsCallsAreCounted
  <2> QED BY <2>1, <2>2
<1>3. \A d \in NewsDays : d > newsDay => made'[d] = 0 /\ uncounted'[d] = 0
  <2>1. \A d \in NewsDays : d > newsDay => d # newsDay
    BY <1>1
  <2> QED BY <2>1 DEF CallsAreCounted
<1> QED BY <1>2, <1>3 DEF CallsAreCounted, NewsCallsAreCounted

\* A call is counted for its day in the file or in memory, or is one no counter holds.
LEMMA NewsStepHolds == CallsAreCounted /\ [MillNext]_vars => CallsAreCounted'
<1> SUFFICES ASSUME CallsAreCounted, [MillNext]_vars PROVE CallsAreCounted'
  OBVIOUS
<1>0. /\ NewsTypes /\ newsDay \in NewsDays /\ CallLimit \in Nat
      /\ made[newsDay] \in Int /\ uncounted[newsDay] \in Int
      /\ made \in [NewsDays -> Int] /\ uncounted \in [NewsDays -> Int]
      /\ made[newsDay] - uncounted[newsDay] = IF countedDay = newsDay THEN calls ELSE 0
      /\ usage.day = newsDay => countedDay = newsDay
  BY NewsAssumption DEF CallsAreCounted, NewsTypes
<1>1. CASE NewsTick
  <2>1. UNCHANGED <<newsDay, made, uncounted>>
    BY <1>1 DEF NewsTick
  <2>2. \/ newsDay = countedDay /\ UNCHANGED <<calls, countedDay, usage>>
        \/ newsDay # countedDay /\ calls' = 0 /\ countedDay' = newsDay
           /\ usage' \in {usage, NoUsage, [day |-> newsDay, calls |-> 0]}
    BY <1>1 DEF NewsTick, NewCount
  <2>3. calls' \in 0 .. CallLimit /\ countedDay' \in {countedDay, newsDay}
    BY <1>0, <2>2 DEF NewsTypes
  <2>4. usage' \in [day : {-1} \cup 0 .. newsDay, calls : 0 .. CallLimit]
    <3>1. newsDay \in 0 .. newsDay /\ 0 \in 0 .. CallLimit
      BY <1>0, NewsAssumption DEF NewsDays
    <3> QED BY <1>0, <2>2, <3>1 DEF NoUsage, NewsTypes
  <2>5. newsDay \in Nat
    BY <1>0, NewsAssumption DEF NewsDays
  <2>6. countedDay' \in 0 .. newsDay
    BY <1>0, <2>3, <2>5 DEF NewsTypes
  <2>7. NewsTypes'
    BY <1>0, <2>1, <2>3, <2>4, <2>6 DEF NewsTypes
  <2>8. (usage.day = newsDay => countedDay = newsDay)'
    BY <1>0, <2>1, <2>2, <2>5 DEF NoUsage
  <2>9. made'[newsDay] - uncounted'[newsDay] = IF countedDay' = newsDay THEN calls' ELSE 0
    BY <1>0, <2>1, <2>2
  <2>10. \A d \in NewsDays \ {newsDay} : made'[d] = made[d] /\ uncounted'[d] = uncounted[d]
    BY <2>1
  <2> QED BY <1>0, <2>1, <2>7, <2>8, <2>9, <2>10, TodayIsCounted
<1>2. CASE AskNews
  <2>1. /\ UNCHANGED <<newsDay, countedDay>>
        /\ made' = [made EXCEPT ![newsDay] = @ + 1]
        /\ calls < CallLimit
        /\ usage' \in {usage, NoUsage, [day |-> countedDay, calls |-> calls + 1]}
    BY <1>2 DEF AskNews, Made
  <2>2. PICK isCounted \in BOOLEAN :
          Made(isCounted) /\ calls' = (IF isCounted THEN calls + 1 ELSE calls)
    BY <1>2 DEF AskNews
  <2>3. calls' \in 0 .. CallLimit
    BY <1>0, <2>1, <2>2 DEF NewsTypes
  <2>4. usage' \in [day : {-1} \cup 0 .. newsDay, calls : 0 .. CallLimit]
    <3>1. calls + 1 \in 0 .. CallLimit /\ countedDay \in 0 .. newsDay /\ 0 \in 0 .. CallLimit
      BY <1>0, <2>1 DEF NewsTypes
    <3> QED BY <1>0, <2>1, <3>1 DEF NoUsage, NewsTypes
  <2>5. /\ made' \in [NewsDays -> Int] /\ made'[newsDay] = made[newsDay] + 1
        /\ \A e \in NewsDays \ {newsDay} : made'[e] = made[e]
    BY <1>0, <2>1, MoreOnADay
  <2>6. (usage.day = newsDay => countedDay = newsDay)'
    <3>1. newsDay \in Nat
      BY <1>0, NewsAssumption DEF NewsDays
    <3> QED BY <1>0, <2>1, <3>1 DEF NoUsage
  <2>7. CASE isCounted /\ countedDay = newsDay
    <3>1. uncounted' = uncounted /\ calls' = calls + 1
      BY <2>2, <2>7 DEF Made
    <3>2. NewsTypes'
      BY <1>0, <2>1, <2>3, <2>4, <2>5, <3>1 DEF NewsTypes
    <3>3. made'[newsDay] - uncounted'[newsDay] = calls'
      BY <1>0, <2>5, <2>7, <3>1 DEF NewsTypes
    <3> QED BY <2>1, <2>5, <2>6, <2>7, <3>1, <3>2, <3>3, TodayIsCounted
  <2>8. CASE ~(isCounted /\ countedDay = newsDay)
    <3>1. uncounted' = [uncounted EXCEPT ![newsDay] = @ + 1]
      BY <2>2, <2>8 DEF Made
    <3>2. /\ uncounted' \in [NewsDays -> Int] /\ uncounted'[newsDay] = uncounted[newsDay] + 1
          /\ \A e \in NewsDays \ {newsDay} : uncounted'[e] = uncounted[e]
      BY <1>0, <3>1, MoreOnADay
    <3>3. NewsTypes'
      BY <1>0, <2>1, <2>3, <2>4, <2>5, <3>2 DEF NewsTypes
    <3>4. made'[newsDay] - uncounted'[newsDay] = IF countedDay' = newsDay THEN calls' ELSE 0
      <4>1. made'[newsDay] - uncounted'[newsDay] = made[newsDay] - uncounted[newsDay]
        BY <1>0, <2>5, <3>2
      <4>2. countedDay' = countedDay /\ (countedDay = newsDay => calls' = calls)
        BY <2>1, <2>2, <2>8
      <4> QED BY <1>0, <4>1, <4>2
    <3> QED BY <2>1, <2>5, <2>6, <3>2, <3>3, <3>4, TodayIsCounted
  <2> QED BY <2>7, <2>8
<1>3. CASE NewsLimit \/ UNCHANGED newsVars
  <2>1. UNCHANGED <<newsDay, calls, countedDay, usage, made, uncounted>>
    BY <1>3 DEF NewsLimit, newsVars
  <2> QED BY <2>1 DEF CallsAreCounted, NewsTypes, NewsCallsAreCounted
<1>4. CASE Midnight
  <2>1. /\ newsDay' = newsDay + 1 /\ newsDay' \in NewsDays
        /\ UNCHANGED <<calls, countedDay, usage, made, uncounted>>
    BY <1>0, <1>4, NewsAssumption DEF Midnight, NewsDays
  <2>2. newsDay \in Nat /\ \A d \in NewsDays : d \in Nat
    BY <1>0, NewsAssumption DEF NewsDays
  <2>3. NewsTypes' /\ countedDay' # newsDay' /\ usage'.day # newsDay'
    BY <1>0, <2>1, <2>2 DEF NewsTypes
  <2>4. made'[newsDay'] = 0 /\ uncounted'[newsDay'] = 0
    BY <2>1, <2>2 DEF CallsAreCounted
  <2>5. \A d \in NewsDays : d > newsDay' => made'[d] = 0 /\ uncounted'[d] = 0
    BY <2>1, <2>2 DEF CallsAreCounted
  <2> QED BY <2>1, <2>3, <2>4, <2>5 DEF CallsAreCounted, NewsCallsAreCounted
<1>5. CASE NewsRestart
  <2> DEFINE known == IF countedDay = newsDay THEN calls ELSE 0
             kept  == IF usage.day = newsDay THEN usage.calls ELSE 0
  <2>1. /\ UNCHANGED <<newsDay, made, usage>> /\ countedDay' = newsDay /\ calls' = kept
        /\ uncounted' = [uncounted EXCEPT ![newsDay] = @ + known - kept]
    BY <1>5 DEF NewsRestart, LoadedCalls
  <2>2. known \in 0 .. CallLimit /\ kept \in 0 .. CallLimit
    BY <1>0 DEF NewsTypes
  <2>3. made[newsDay] - uncounted[newsDay] = known
    BY <1>0
  <2> HIDE DEF known, kept
  <2>4. PICK k \in Int : k = known - kept
    BY <2>2
  <2>5. uncounted' = [uncounted EXCEPT ![newsDay] = @ + k]
    <3>1. uncounted[newsDay] + known - kept = uncounted[newsDay] + k
      BY <1>0, <2>2, <2>4
    <3> QED BY <2>1, <3>1
  <2>6. /\ uncounted' \in [NewsDays -> Int] /\ uncounted'[newsDay] = uncounted[newsDay] + k
        /\ \A e \in NewsDays \ {newsDay} : uncounted'[e] = uncounted[e]
    BY <1>0, <2>5, MoreOnADay
  <2>7. made'[newsDay] - uncounted'[newsDay] = kept
    BY <1>0, <2>1, <2>2, <2>3, <2>4, <2>6
  <2>8. NewsTypes'
    BY <1>0, <2>1, <2>2, <2>6, NewsAssumption DEF NewsTypes, NewsDays
  <2> QED BY <2>1, <2>6, <2>7, <2>8, TodayIsCounted
<1> QED BY <1>1, <1>2, <1>3, <1>4, <1>5, NewsFrame, Zenon DEF NewsStep

\* Over all lives no day has more calls for news than the limit, but for those no counter held
\* (news_ant.py).
THEOREM NewsCallsStayCounted == MillSpec => []NewsCallsAreCounted
<1>1. CallsAreCounted => NewsCallsAreCounted
  BY DEF CallsAreCounted
<1> QED BY <1>1, NewsInitHolds, NewsStepHolds, PTL DEF MillSpec

--------------------------------------------------------------------------------
(* The audit ant. *)

\* To the audit ant a step is its own or none of its.
LEMMA AuditFrame ==
  ASSUME [MillNext]_vars
  PROVE  AuditStep \/ UNCHANGED auditVars
<1>1. CASE SenseStep
  BY <1>1, Zenon DEF SenseStep
<1>2. CASE UNCHANGED senseVars
  BY <1>2, Zenon DEF senseVars
<1> QED BY <1>1, <1>2, SenseFrame, Zenon

Numbers == 0 .. MaxSequence
AllGaps == AuditLogs \X Numbers \X Numbers

AuditTypes ==
  /\ logSequence \in Numbers /\ numbers \in [AuditLogs -> SUBSET Numbers]
  /\ toScan \subseteq AuditLogs
  /\ gaps \subseteq AllGaps /\ gapsFile \subseteq gaps /\ toTell \subseteq gaps
  /\ told \in Seq(AllGaps) /\ unkept \in Nat

Tellings(g) == {m \in DOMAIN told : told[m] = g}
Told(g)     == Cardinality(Tellings(g))

\* What a gap still has coming: to be told of by this tick, and to be found anew by a
\* later life if it is not in the file.
Coming(g) == (IF g \in toTell THEN 1 ELSE 0) + (IF g \in gapsFile THEN 0 ELSE 1)

GapsAreKept ==
  /\ AuditTypes
  /\ \A g \in AllGaps : Told(g) + Coming(g) <= 1 + unkept

\* The gaps of a log are gaps.
LEMMA GapsAreTyped ==
  ASSUME AuditTypes, NEW f \in AuditLogs
  PROVE  GapsOf(f) \subseteq AllGaps
  BY DEF AuditTypes, GapsOf, AllGaps

\* How often a gap was told of is a number.
LEMMA ToldCounts ==
  ASSUME AuditTypes, NEW g
  PROVE  Told(g) \in Nat
<1>1. IsFiniteSet(DOMAIN told)
  BY FS_Interval DEF AuditTypes
<1> QED BY <1>1, FS_Subset, FS_CardinalityType DEF Told, Tellings

\* Telling of one gap counts for this one only.
LEMMA ToldOnceMore ==
  ASSUME AuditTypes, NEW h \in AllGaps, told' = Append(told, h), NEW g
  PROVE  Told(g)' = IF g = h THEN Told(g) + 1 ELSE Told(g)
<1> DEFINE n == Len(told) + 1
<1>1. /\ DOMAIN told' = 1 .. n /\ DOMAIN told = 1 .. Len(told) /\ Len(told) \in Nat
      /\ \A m \in 1 .. Len(told) : told'[m] = told[m]
      /\ told'[n] = h
  BY AppendProperties DEF AuditTypes
<1>2. IsFiniteSet(Tellings(g))
  <2>1. IsFiniteSet(DOMAIN told) /\ Tellings(g) \subseteq DOMAIN told
    BY <1>1, FS_Interval DEF Tellings
  <2> QED BY <2>1, FS_Subset
<1>3. Tellings(g)' = IF g = h THEN Tellings(g) \cup {n} ELSE Tellings(g)
  BY <1>1 DEF Tellings
<1>4. n \notin Tellings(g)
  BY <1>1 DEF Tellings
<1> QED BY <1>2, <1>3, <1>4, FS_AddElement DEF Told

\* There is no gap at first.
LEMMA AuditInitHolds == MillInit => GapsAreKept
<1> SUFFICES ASSUME MillInit PROVE GapsAreKept
  OBVIOUS
<1>1. AuditTypes
  BY AuditAssumption DEF MillInit, AuditInit, AuditTypes, Numbers
<1>2. \A g : Tellings(g) = {}
  BY DEF MillInit, AuditInit, Tellings
<1> QED BY <1>1, <1>2, FS_EmptySet DEF GapsAreKept, Told, Coming, MillInit, AuditInit

\* How often a gap was told of and how often it may still be are no more than once, and once
\* for each time the file of gaps lost some.
LEMMA AuditStepHolds == GapsAreKept /\ [MillNext]_vars => GapsAreKept'
<1> SUFFICES ASSUME GapsAreKept, [MillNext]_vars PROVE GapsAreKept'
  OBVIOUS
<1>0. AuditTypes /\ \A g : Told(g) \in Nat
  BY ToldCounts DEF GapsAreKept
<1>1. CASE LogEvent
  <2>1. UNCHANGED <<gaps, gapsFile, toScan, toTell, told, unkept>>
    BY <1>1 DEF LogEvent
  <2>2. AuditTypes'
    BY <1>0, <1>1, <2>1, AuditAssumption DEF LogEvent, AuditTypes, Numbers
  <2>3. \A g : Told(g)' = Told(g) /\ Coming(g)' = Coming(g)
    BY <2>1 DEF Told, Tellings, Coming
  <2> QED BY <2>1, <2>2, <2>3 DEF GapsAreKept
<1>2. CASE AuditTick \/ UNCHANGED auditVars
  <2>1. UNCHANGED <<logSequence, numbers, gaps, gapsFile, toTell, told, unkept>>
        /\ toScan' \in {toScan, AuditLogs}
    BY <1>2 DEF AuditTick, auditVars
  <2>2. \A g : Told(g)' = Told(g) /\ Coming(g)' = Coming(g)
    BY <2>1 DEF Told, Tellings, Coming
  <2> QED BY <1>0, <2>1, <2>2 DEF GapsAreKept, AuditTypes
<1>3. CASE ScanLog
  <2>1. PICK f \in toScan : \E new \in {GapsOf(f) \ gaps} :
           /\ toScan' = toScan \ {f}
           /\ \/ UNCHANGED <<gaps, gapsFile, toTell, unkept>>
              \/ /\ gaps' = gaps \cup new /\ toTell' = toTell \cup new
                 /\ \/ gapsFile' = gaps \cup new /\ UNCHANGED unkept
                    \/ gapsFile' \in {gapsFile, {}} /\ unkept' = unkept + 1
    BY <1>3 DEF ScanLog
  <2> DEFINE new == GapsOf(f) \ gaps
  <2>2. UNCHANGED <<logSequence, numbers, told>>
    BY <1>3 DEF ScanLog
  <2>6. /\ toScan' = toScan \ {f}
        /\ \/ UNCHANGED <<gaps, gapsFile, toTell, unkept>>
           \/ /\ gaps' = gaps \cup new /\ toTell' = toTell \cup new
              /\ \/ gapsFile' = gaps \cup new /\ UNCHANGED unkept
                 \/ gapsFile' \in {gapsFile, {}} /\ unkept' = unkept + 1
    BY <2>1
  <2>3. new \subseteq AllGaps /\ new \cap gaps = {}
    BY <1>0, <2>1, GapsAreTyped DEF AuditTypes
  <2> HIDE DEF new
  <2>4. AuditTypes'
    BY <1>0, <2>6, <2>2, <2>3 DEF AuditTypes
  <2>5. ASSUME NEW g \in AllGaps PROVE (Told(g) + Coming(g) <= 1 + unkept)'
    <3>1. Told(g)' = Told(g) /\ Told(g) \in Nat
      BY <1>0, <2>2 DEF Told, Tellings
    <3>2. Told(g) + Coming(g) <= 1 + unkept
      BY DEF GapsAreKept
    <3> QED BY <1>0, <2>6, <2>3, <3>1, <3>2 DEF Coming, AuditTypes
  <2> QED BY <2>4, <2>5 DEF GapsAreKept
<1>4. CASE EmitFinding
  <2>1. PICK h \in toTell : told' = Append(told, h) /\ toTell' = toTell \ {h}
    BY <1>4 DEF EmitFinding
  <2>2. UNCHANGED <<logSequence, numbers, toScan, gaps, gapsFile, unkept>> /\ h \in AllGaps
    BY <1>0, <1>4, <2>1 DEF EmitFinding, AuditTypes
  <2>3. AuditTypes'
    BY <1>0, <2>1, <2>2 DEF AuditTypes
  <2>4. ASSUME NEW g \in AllGaps PROVE (Told(g) + Coming(g) <= 1 + unkept)'
    <3>1. Told(g)' = (IF g = h THEN Told(g) + 1 ELSE Told(g)) /\ Told(g) \in Nat
      BY <1>0, <2>1, <2>2, ToldOnceMore
    <3>2. Told(g) + Coming(g) <= 1 + unkept
      BY DEF GapsAreKept
    <3> QED BY <1>0, <2>1, <2>2, <3>1, <3>2 DEF Coming, AuditTypes
  <2> QED BY <2>3, <2>4 DEF GapsAreKept
<1>5. CASE AuditRestart
  <2>1. UNCHANGED <<numbers, gapsFile, told, unkept>> /\ logSequence' = 0
        /\ toScan' = {} /\ toTell' = {} /\ gaps' = gapsFile
    BY <1>5 DEF AuditRestart
  <2>2. AuditTypes'
    BY <1>0, <2>1, AuditAssumption DEF AuditTypes, Numbers
  <2>3. ASSUME NEW g \in AllGaps PROVE (Told(g) + Coming(g) <= 1 + unkept)'
    <3>1. Told(g)' = Told(g) /\ Told(g) \in Nat
      BY <1>0, <2>1 DEF Told, Tellings
    <3>2. Told(g) + Coming(g) <= 1 + unkept
      BY DEF GapsAreKept
    <3> QED BY <1>0, <2>1, <3>1, <3>2 DEF Coming, AuditTypes
  <2> QED BY <2>2, <2>3 DEF GapsAreKept
<1> QED BY <1>1, <1>2, <1>3, <1>4, <1>5, AuditFrame, Zenon DEF AuditStep

\* A gap is told of once over all lives of the ant, but as often more as the file of gaps lost
\* some (audit_ant.py).
THEOREM GapsStayToldOnce == MillSpec => []GapsAreToldOnce
<1>1. GapsAreKept => GapsAreToldOnce
  <2>1. SUFFICES ASSUME GapsAreKept, NEW n \in DOMAIN told PROVE Told(told[n]) <= 1 + unkept
    BY DEF GapsAreToldOnce, Told, Tellings
  <2>2. told[n] \in AllGaps /\ Told(told[n]) \in Nat
    BY <2>1, ToldCounts DEF GapsAreKept, AuditTypes
  <2> QED BY <2>1, <2>2 DEF GapsAreKept, Coming, AuditTypes
<1> QED BY <1>1, AuditInitHolds, AuditStepHolds, PTL DEF MillSpec

--------------------------------------------------------------------------------
(* The Queen's Watchtower memory. *)

\* A request is there or on its way whenever the memory has changed since the writer
\* last copied it; and one asks only of a writer that is there.
WriterInv ==
  /\ writer \in {"none", "waiting", "awake", "holding"}
  /\ writer = "none" => ~persistEvent
  /\ writer = "holding" /\ ~persistEvent /\ ~asking => copied = context
  /\ LatestContextIsWritten

\* Whatever is registered when, and however often the writer is interrupted, refused by
\* the disk or started anew (_watchtower_persist_loop).
THEOREM RequestsAreNotLost == ContextSpec => []LatestContextIsWritten
<1>1. ContextInit => WriterInv
  BY DEF ContextInit, WriterInv, LatestContextIsWritten
<1>2. ASSUME WriterInv, [ContextStep]_contextVars PROVE WriterInv'
  <2> USE <1>2 DEF WriterInv, LatestContextIsWritten
  <2>1. CASE \E event, time : Register(event, time)
    <3>1. asking' = TRUE /\ UNCHANGED <<contextFile, persistEvent, writer, copied, fileFailed>>
      BY <2>1, Zenon DEF Register
    <3>2. QED
      BY <3>1
  <2>2. CASE RequestPersist
    BY <2>2, Zenon DEF RequestPersist
  <2>3. CASE WriterWakes
    BY <2>3 DEF WriterWakes
  <2>4. CASE WriterCopies
    BY <2>4 DEF WriterCopies
  <2>5. CASE WriterWrites
    BY <2>5 DEF WriterWrites
  <2>6. CASE ContextRestart
    BY <2>6 DEF ContextRestart
  <2>7. CASE UNCHANGED contextVars
    BY <2>7 DEF contextVars
  <2>8. QED
    BY <2>1, <2>2, <2>3, <2>4, <2>5, <2>6, <2>7 DEF ContextStep, WriterStep
<1>3. WriterInv => LatestContextIsWritten
  BY DEF WriterInv
<1>4. QED
  BY <1>1, <1>2, <1>3, PTL DEF ContextSpec

--------------------------------------------------------------------------------
(* The Watchtower ant. *)

\* To the Watchtower ant a step is its own or none of its.
LEMMA WtFrame ==
  ASSUME [MillNext]_vars
  PROVE  WatchtowerStep \/ UNCHANGED wtVars
<1>1. CASE SenseStep
  BY <1>1, Zenon DEF SenseStep
<1>2. CASE UNCHANGED senseVars
  BY <1>2, Zenon DEF senseVars
<1> QED BY <1>1, <1>2, SenseFrame, Zenon

Polled    == UNION {ToSet(poll) : poll \in Polls}
LimitType == [day : Int, total : 0 .. MaxDaily, last : [WtAssets -> Int]]

WtTypes ==
  /\ wtNow \in Nat /\ wtAt \in 0 .. wtNow
  /\ wtPc \in {"idle", "filter", "route", "tell"}
  /\ wtTodo \in Seq(Polled) /\ wtPassed \in Seq(Polled)
  /\ wtLimits \in LimitType /\ limitsFile \in LimitType
  /\ lapses \in Nat /\ accepted \in Seq([asset : WtAssets, at : Nat, lapses : 0 .. lapses])

\* The lines of a day written after e losses of the limits.
OnDay(e, d) == {n \in DOMAIN accepted : accepted[n].lapses = e /\ WtToday(accepted[n].at) = d}
Of(a)       == {n \in DOMAIN accepted : accepted[n].lapses = lapses /\ accepted[n].asset = a}

\* The limits are of no later time than t.
NotAfter(limits, t) == limits.day <= WtToday(t) /\ \A a \in WtAssets : limits.last[a] <= t

\* The limits know of each line written since they were last lost.
Know(limits) ==
  /\ Cardinality(OnDay(lapses, limits.day)) <= limits.total
  /\ \A n \in DOMAIN accepted : accepted[n].lapses = lapses => WtToday(accepted[n].at) <= limits.day
  /\ \A a \in WtAssets : \A n \in Of(a) : accepted[n].at <= limits.last[a]

\* What the tick accepts is in its limits, besides what was written before it.
PassedAreIn ==
  /\ Cardinality(OnDay(lapses, wtLimits.day)) + Len(wtPassed) <= wtLimits.total
  /\ \A n \in DOMAIN wtPassed : wtLimits.last[wtPassed[n].asset] = wtAt
  /\ \A m, n \in DOMAIN wtPassed : wtPassed[m].asset = wtPassed[n].asset => m = n
  /\ \A n \in DOMAIN wtPassed : \A m \in Of(wtPassed[n].asset) : wtAt - accepted[m].at >= WtDay

LimitsKnow ==
  /\ WtTypes
  /\ NotAfter(limitsFile, IF wtPc = "idle" THEN wtNow ELSE wtAt)
  /\ wtPc # "tell" => Know(limitsFile)
  /\ wtPc \in {"route", "tell"} =>
       wtLimits.day = WtToday(wtAt) /\ NotAfter(wtLimits, wtAt) /\ Know(wtLimits)
  /\ wtPc = "route" => PassedAreIn
  /\ DailyLimitsHold

\* The date never goes back.
LEMMA TodayGrows ==
  ASSUME NEW t \in Nat, NEW u \in Nat, t <= u
  PROVE  WtToday(t) \in Nat /\ WtToday(t) <= WtToday(u)
  BY DivGrows, WatchtowerAssumption DEF WtToday

\* Signals that are polled are on known assets, the deduplicated ones among them.
LEMMA PolledTypes ==
  /\ \A s \in Polled : s.asset \in WtAssets
  /\ \A poll \in Polls : Deduped(poll) \subseteq Seq(Polled)
<1>1. ASSUME NEW s \in Polled PROVE s.asset \in WtAssets
  <2>1. PICK poll \in Polls : \E n \in DOMAIN poll : s = poll[n]
    BY DEF Polled, ToSet
  <2> QED BY <2>1, WatchtowerAssumption
<1>2. ASSUME NEW poll \in Polls PROVE Deduped(poll) \subseteq Seq(Polled)
  <2>1. ToSet(poll) \subseteq Polled /\ Len(poll) \in Nat
    BY WatchtowerAssumption DEF Polled
  <2>2. SeqOf(ToSet(poll), Len(poll)) \subseteq Seq(Polled)
    BY <2>1 DEF SeqOf
  <2> QED BY <2>2 DEF Deduped
<1> QED BY <1>1, <1>2

\* A line of candidates names an asset and a time there was.
LEMMA LinesAreTyped ==
  ASSUME WtTypes, NEW n \in DOMAIN accepted
  PROVE  /\ accepted[n].asset \in WtAssets /\ accepted[n].at \in Nat
         /\ accepted[n].lapses \in 0 .. lapses /\ WtToday(accepted[n].at) \in Nat
<1> DEFINE S == [asset : WtAssets, at : Nat, lapses : 0 .. lapses]
<1>1. accepted[n] \in S
  <2>1. accepted \in Seq(S)
    BY DEF WtTypes
  <2> HIDE DEF S
  <2> QED BY <2>1
<1>2. accepted[n].at \in Nat
  BY <1>1
<1> QED BY <1>1, <1>2, TodayGrows

\* There are finitely many lines of a day.
LEMMA DaysAreFinite ==
  ASSUME WtTypes, NEW e, NEW d
  PROVE  IsFiniteSet(OnDay(e, d)) /\ Cardinality(OnDay(e, d)) \in Nat
<1>1. IsFiniteSet(DOMAIN accepted) /\ OnDay(e, d) \subseteq DOMAIN accepted
  BY FS_Interval DEF WtTypes, OnDay
<1> QED BY <1>1, FS_Subset, FS_CardinalityType

\* Limits that are not from the future now will not be later.
LEMMA NotAfterGrows ==
  ASSUME NEW limits \in LimitType, NEW t \in Nat, NEW u \in Nat, t <= u, NotAfter(limits, t)
  PROVE  NotAfter(limits, u)
  BY TodayGrows DEF NotAfter, LimitType

\* Neither are limits that could not be read.
LEMMA UnreadIsOld ==
  ASSUME NEW t \in Nat
  PROVE  Unread \in LimitType /\ NotAfter(Unread, t)
<1>1. Never <= WtToday(t) /\ Never <= t /\ Never \in Int
  BY TodayGrows DEF Never
<1> QED BY <1>1, WatchtowerAssumption DEF Unread, NoLimits, NotAfter, LimitType

\* With the limits lost there is nothing to know.
LEMMA KnowAnew ==
  ASSUME WtTypes, UNCHANGED accepted, lapses' = lapses + 1, NEW limits \in LimitType
  PROVE  /\ Cardinality(OnDay(lapses', limits.day)) <= limits.total
         /\ \A n \in DOMAIN accepted : accepted[n].lapses # lapses'
<1>1. \A n \in DOMAIN accepted : accepted[n].lapses # lapses'
  <2>1. \A n \in DOMAIN accepted : accepted[n].lapses \in 0 .. lapses
    BY LinesAreTyped
  <2> QED BY <2>1 DEF WtTypes
<1>2. OnDay(lapses', limits.day) = {}
  BY <1>1 DEF OnDay
<1> QED BY <1>1, <1>2, FS_EmptySet DEF LimitType

\* A tick loads limits that know of every line.
LEMMA LoadedKnow ==
  ASSUME WtTypes, NotAfter(limitsFile, wtAt), Know(limitsFile)
  PROVE  /\ LoadedLimits \in LimitType /\ LoadedLimits.day = WtToday(wtAt)
         /\ NotAfter(LoadedLimits, wtAt) /\ Know(LoadedLimits)
<1>1. WtToday(wtAt) \in Nat
  BY TodayGrows DEF WtTypes
<1>2. CASE limitsFile.day = WtToday(wtAt)
  BY <1>2 DEF LoadedLimits, WtTypes
<1>3. CASE limitsFile.day # WtToday(wtAt)
  <2> DEFINE l == LoadedLimits
  <2>1. l \in LimitType /\ l.day = WtToday(wtAt) /\ l.total = 0 /\ l.last = limitsFile.last
    <3>1. PICK day \in Int, limits \in LimitType : day = WtToday(wtAt) /\ limits = limitsFile
      BY <1>1 DEF WtTypes
    <3>2. l = [limits EXCEPT !.day = day, !.total = 0]
      BY <1>3, <3>1 DEF LoadedLimits
    <3> HIDE DEF l
    <3>3. PICK dated : dated = [limits EXCEPT !.day = day]
      OBVIOUS
    <3>4. dated \in LimitType /\ dated.day = day /\ dated.last = limits.last
      BY <3>1, <3>3 DEF LimitType
    <3>5. l = [dated EXCEPT !.total = 0] /\ 0 \in 0 .. MaxDaily
      BY <3>2, <3>3, WatchtowerAssumption
    <3> QED BY <3>1, <3>4, <3>5 DEF LimitType
  <2>2. limitsFile.day < WtToday(wtAt) /\ limitsFile.day \in Int
    BY <1>1, <1>3 DEF NotAfter, WtTypes, LimitType
  <2>3. \A n \in DOMAIN accepted : WtToday(accepted[n].at) \in Nat
    BY LinesAreTyped
  <2>4. \A n \in DOMAIN accepted : accepted[n].lapses = lapses =>
          WtToday(accepted[n].at) < WtToday(wtAt)
    BY <1>1, <2>2, <2>3 DEF Know
  <2>5. OnDay(lapses, WtToday(wtAt)) = {}
    BY <1>1, <2>3, <2>4 DEF OnDay
  <2> HIDE DEF l
  <2>6. Know(l)
    BY <1>1, <2>1, <2>3, <2>4, <2>5, FS_EmptySet DEF Know
  <2>7. NotAfter(l, wtAt)
    BY <1>1, <2>1 DEF NotAfter
  <2> QED BY <2>1, <2>6, <2>7 DEF l
<1> QED BY <1>2, <1>3

\* No candidate is accepted at first.
LEMMA WtInitHolds == MillInit => LimitsKnow
<1> SUFFICES ASSUME MillInit PROVE LimitsKnow
  OBVIOUS
<1>1. /\ wtNow = 0 /\ wtAt = 0 /\ wtPc = "idle" /\ wtTodo = <<>> /\ wtPassed = <<>>
      /\ wtLimits = Unread /\ limitsFile = Unread /\ lapses = 0 /\ accepted = <<>>
  BY DEF MillInit, WtInit
<1>2. Unread \in LimitType /\ NotAfter(Unread, 0) /\ Unread.total = 0
  BY UnreadIsOld DEF Unread, NoLimits
<1>3. WtTypes
  BY <1>1, <1>2 DEF WtTypes
<1>4. \A e, d : OnDay(e, d) = {}
  BY <1>1 DEF OnDay
<1>5. Know(Unread)
  <2>1. DOMAIN accepted = {} /\ Cardinality(OnDay(lapses, Unread.day)) = 0
    BY <1>1, <1>4, FS_EmptySet
  <2> QED BY <1>2, <2>1 DEF Know, Of
<1>6. DailyLimitsHold
  BY <1>1 DEF DailyLimitsHold, ToSet
<1> QED BY <1>1, <1>2, <1>3, <1>5, <1>6 DEF LimitsKnow

\* What the tick has written is known to its limits.
LEMMA WrittenAreKnown ==
  ASSUME LimitsKnow, wtPc = "route", NEW fresh,
         fresh = [n \in DOMAIN wtPassed |->
                    [asset |-> wtPassed[n].asset, at |-> wtAt, lapses |-> lapses]],
         accepted' = accepted \o fresh, UNCHANGED <<lapses, wtLimits>>
  PROVE  /\ accepted' \in Seq([asset : WtAssets, at : Nat, lapses : 0 .. lapses])
         /\ Know(wtLimits)' /\ DailyLimitsHold'
<1>1. /\ WtTypes /\ PassedAreIn /\ Know(wtLimits) /\ NotAfter(wtLimits, wtAt)
      /\ wtLimits.day = WtToday(wtAt) /\ DailyLimitsHold
  BY DEF LimitsKnow
<1>0. PICK k \in Nat, p \in Nat, today \in Nat, e \in Nat :
        k = Len(accepted) /\ p = Len(wtPassed) /\ today = WtToday(wtAt) /\ e = lapses
  BY <1>1, TodayGrows DEF WtTypes
<1>2. /\ DOMAIN accepted = 1 .. k /\ DOMAIN wtPassed = 1 .. p /\ wtAt \in Nat
      /\ \A n \in 1 .. p : wtPassed[n].asset \in WtAssets
  <2>1. accepted \in Seq([asset : WtAssets, at : Nat, lapses : 0 .. lapses]) /\ wtPassed \in Seq(Polled)
        /\ wtAt \in Nat
    BY <1>1 DEF WtTypes
  <2> QED BY <1>0, <2>1, PolledTypes
<1>3. /\ fresh \in Seq([asset : WtAssets, at : Nat, lapses : 0 .. lapses]) /\ Len(fresh) = p
      /\ \A n \in 1 .. p : /\ fresh[n].asset = wtPassed[n].asset /\ fresh[n].at = wtAt
                           /\ fresh[n].lapses = e
  BY <1>0, <1>2
<1>4. /\ accepted' \in Seq([asset : WtAssets, at : Nat, lapses : 0 .. lapses])
      /\ Len(accepted') = k + p
  <2> DEFINE S == [asset : WtAssets, at : Nat, lapses : 0 .. lapses]
  <2>1. accepted \in Seq(S) /\ fresh \in Seq(S)
    BY <1>1, <1>3 DEF WtTypes
  <2> HIDE DEF S
  <2>2. accepted \o fresh \in Seq(S) /\ Len(accepted \o fresh) = k + p
    <3>1. \A q, r \in Seq(S) : q \o r \in Seq(S) /\ Len(q \o r) = Len(q) + Len(r)
      OBVIOUS
    <3> QED BY <1>0, <1>3, <2>1, <3>1
  <2> QED BY <2>2 DEF S
<1>5. /\ DOMAIN accepted' = 1 .. k + p
      /\ \A n \in 1 .. k : accepted'[n] = accepted[n]
      /\ \A n \in k + 1 .. k + p : accepted'[n] = fresh[n - k] /\ n - k \in 1 .. p
  <2>1. \A n \in 1 .. k + p : accepted'[n] = IF n <= k THEN accepted[n] ELSE fresh[n - k]
    BY <1>0, <1>1, <1>2, <1>3 DEF WtTypes
  <2> QED BY <1>0, <1>4, <2>1
<1>6. \A n \in k + 1 .. k + p :
        /\ accepted'[n].asset = wtPassed[n - k].asset /\ accepted'[n].at = wtAt
        /\ accepted'[n].lapses = e /\ n - k \in 1 .. p
  <2>1. ASSUME NEW n \in k + 1 .. k + p
        PROVE  /\ accepted'[n].asset = wtPassed[n - k].asset /\ accepted'[n].at = wtAt
               /\ accepted'[n].lapses = e /\ n - k \in 1 .. p
    <3>1. PICK i \in 1 .. p : i = n - k /\ accepted'[n] = fresh[i]
      BY <1>5
    <3> QED BY <1>3, <3>1
  <2> QED BY <2>1
<1>7. \A n \in k + 1 .. k + p : WtToday(accepted'[n].at) = today
  BY <1>0, <1>6
<1>8. OnDay(e, today)' \subseteq OnDay(e, today) \cup (k + 1 .. k + p)
  <2>1. ASSUME NEW n \in OnDay(e, today)', n \in 1 .. k PROVE n \in OnDay(e, today)
    BY <1>2, <1>5, <2>1 DEF OnDay
  <2>2. OnDay(e, today)' \subseteq 1 .. k + p
    BY <1>5 DEF OnDay
  <2> QED BY <1>0, <2>1, <2>2
<1>9. Cardinality(OnDay(e, today)') <= Cardinality(OnDay(e, today)) + p
      /\ Cardinality(OnDay(e, today)') \in Nat
  <2>1. IsFiniteSet(k + 1 .. k + p) /\ Cardinality(k + 1 .. k + p) = p
    <3>1. PICK a \in Int, b \in Int : a = k + 1 /\ b = k + p
      BY <1>0
    <3>2. IsFiniteSet(a .. b) /\ Cardinality(a .. b) = IF a > b THEN 0 ELSE b - a + 1
      BY FS_Interval
    <3> QED BY <1>0, <3>1, <3>2
  <2>2. IsFiniteSet(OnDay(e, today)) /\ Cardinality(OnDay(e, today)) \in Nat
    BY <1>1, DaysAreFinite
  <2> DEFINE both == OnDay(e, today) \cup (k + 1 .. k + p)
  <2>3. IsFiniteSet(both) /\ Cardinality(both) <= Cardinality(OnDay(e, today)) + p
        /\ Cardinality(both) \in Nat
    <3>1. OnDay(e, today) \cap (k + 1 .. k + p) = {}
      BY <1>2 DEF OnDay
    <3>2. /\ IsFiniteSet(both)
          /\ Cardinality(both) = Cardinality(OnDay(e, today)) + p - Cardinality({})
      BY <2>1, <2>2, <3>1, FS_Union
    <3> QED BY <1>0, <2>2, <3>2, FS_EmptySet
  <2> HIDE DEF both
  <2>4. OnDay(e, today)' \subseteq both
    BY <1>8 DEF both
  <2>5. /\ Cardinality(OnDay(e, today)') \in Nat
        /\ Cardinality(OnDay(e, today)') <= Cardinality(both)
    BY <2>3, <2>4, FS_Subset, FS_CardinalityType
  <2> QED BY <1>0, <2>2, <2>3, <2>5
<1>10. Cardinality(OnDay(e, today)') <= wtLimits.total /\ wtLimits.total \in 0 .. MaxDaily
  <2>1. /\ Cardinality(OnDay(e, today)) + p <= wtLimits.total
        /\ wtLimits.total \in 0 .. MaxDaily /\ Cardinality(OnDay(e, today)) \in Nat
    BY <1>0, <1>1, DaysAreFinite DEF PassedAreIn, WtTypes, LimitType
  <2> QED BY <1>0, <1>9, <2>1
<1>11. Know(wtLimits)'
  <2>1. ASSUME NEW n \in DOMAIN accepted', accepted'[n].lapses = lapses
        PROVE  WtToday(accepted'[n].at) <= wtLimits.day
    <3>1. CASE n \in 1 .. k
      BY <1>1, <1>2, <1>5, <2>1, <3>1 DEF Know
    <3>2. CASE n \in k + 1 .. k + p
      BY <1>0, <1>1, <1>7, <3>2
    <3> QED BY <1>0, <1>5, <3>1, <3>2
  <2>2. ASSUME NEW a \in WtAssets, NEW n \in Of(a)' PROVE accepted'[n].at <= wtLimits.last[a]
    <3>1. CASE n \in 1 .. k
      <4>1. n \in Of(a) /\ accepted'[n].at = accepted[n].at
        BY <1>2, <1>5, <2>2, <3>1 DEF Of
      <4> QED BY <1>1, <4>1 DEF Know
    <3>2. CASE n \in k + 1 .. k + p
      <4>1. n - k \in DOMAIN wtPassed /\ wtPassed[n - k].asset = a /\ accepted'[n].at = wtAt
        BY <1>2, <1>6, <2>2, <3>2 DEF Of
      <4>2. wtLimits.last[a] = wtAt
        BY <1>1, <4>1 DEF PassedAreIn
      <4>3. PICK t \in Nat : t = wtAt
        BY <1>2
      <4>4. accepted'[n].at = t /\ wtLimits.last[a] = t
        BY <4>1, <4>2, <4>3, Zenon
      <4>5. t <= t
        BY <4>3
      <4> QED BY <4>4, <4>5, Zenon
    <3> QED BY <1>0, <1>5, <2>2, <3>1, <3>2 DEF Of
  <2>3. Cardinality(OnDay(lapses, wtLimits.day)') <= wtLimits.total
    <3>1. lapses' = e /\ wtLimits'.day = today
      BY <1>0, <1>1
    <3>2. OnDay(lapses, wtLimits.day)' = OnDay(e, today)'
      BY <3>1 DEF OnDay
    <3> QED BY <1>10, <3>2
  <2> QED BY <2>1, <2>2, <2>3 DEF Know
<1>12. ASSUME NEW n \in DOMAIN accepted', NEW f, NEW d,
              f = accepted'[n].lapses, d = WtToday(accepted'[n].at)
       PROVE  Cardinality(OnDay(f, d)') <= MaxDaily
  <2>1. CASE f = e /\ d = today
    <3>1. wtLimits.total \in Nat /\ wtLimits.total <= MaxDaily /\ MaxDaily \in Nat
      BY <1>10, WatchtowerAssumption
    <3> QED BY <1>9, <1>10, <2>1, <3>1
  <2>2. CASE ~(f = e /\ d = today)
    <3>1. n \in 1 .. k
      BY <1>0, <1>5, <1>6, <1>7, <1>12, <2>2
    <3>2. n \in DOMAIN accepted /\ accepted'[n] = accepted[n]
      BY <1>2, <1>5, <3>1
    <3>3. OnDay(f, d)' = OnDay(f, d)
      <4>1. \A i \in k + 1 .. k + p : i \notin OnDay(f, d)'
        BY <1>6, <1>7, <2>2 DEF OnDay
      <4>2. \A i \in 1 .. k : i \in OnDay(f, d)' <=> i \in OnDay(f, d)
        BY <1>0, <1>2, <1>5 DEF OnDay
      <4>3. OnDay(f, d)' \subseteq 1 .. k + p /\ OnDay(f, d) \subseteq 1 .. k
        BY <1>2, <1>5 DEF OnDay
      <4>4. \A i \in 1 .. k + p : i \in 1 .. k \/ i \in k + 1 .. k + p
        BY <1>0
      <4>5. 1 .. k \subseteq 1 .. k + p /\ \A i \in 1 .. k : i \notin k + 1 .. k + p
        BY <1>0
      <4> QED BY <4>1, <4>2, <4>3, <4>4, <4>5, Zenon
    <3>4. Cardinality(OnDay(f, d)) <= MaxDaily
      BY <1>1, <1>12, <3>2 DEF DailyLimitsHold, ToSet, OnDay
    <3> QED BY <3>3, <3>4
  <2> QED BY <2>1, <2>2
<1>13. ASSUME NEW m \in DOMAIN accepted', NEW n \in DOMAIN accepted', m < n,
              accepted'[m].asset = accepted'[n].asset, accepted'[m].lapses = accepted'[n].lapses
       PROVE  accepted'[n].at - accepted'[m].at >= WtDay
  <2>1. CASE n \in 1 .. k
    <3>1. m \in 1 .. k
      BY <1>2, <1>5, <1>13, <2>1
    <3> QED BY <1>1, <1>2, <1>5, <1>13, <2>1, <3>1 DEF DailyLimitsHold
  <2>2. CASE n \in k + 1 .. k + p /\ m \in 1 .. k
    <3>1. m \in Of(wtPassed[n - k].asset) /\ n - k \in DOMAIN wtPassed
      BY <1>2, <1>5, <1>6, <1>13, <2>2 DEF Of
    <3>2. wtAt - accepted[m].at >= WtDay
      BY <1>1, <3>1 DEF PassedAreIn
    <3> QED BY <1>5, <1>6, <2>2, <3>2
  <2>3. CASE n \in k + 1 .. k + p /\ m \in k + 1 .. k + p
    <3>1. n - k = m - k
      BY <1>1, <1>2, <1>6, <1>13, <2>3 DEF PassedAreIn
    <3> QED BY <1>2, <1>13, <2>3, <3>1
  <2> QED BY <1>2, <1>5, <2>1, <2>2, <2>3
<1>14. DailyLimitsHold'
  <2>1. ASSUME NEW line \in ToSet(accepted')
        PROVE  Cardinality({n \in DOMAIN accepted' : accepted'[n].lapses = line.lapses
                 /\ WtToday(accepted'[n].at) = WtToday(line.at)}) <= MaxDaily
    <3>1. PICK n \in DOMAIN accepted' : line = accepted'[n]
      BY DEF ToSet
    <3>2. PICK f, d : f = line.lapses /\ d = WtToday(line.at)
      OBVIOUS
    <3>3. Cardinality(OnDay(f, d)') <= MaxDaily
      BY <1>12, <3>1, <3>2
    <3> QED BY <3>2, <3>3 DEF OnDay
  <2> QED BY <1>13, <2>1 DEF DailyLimitsHold
<1> QED BY <1>4, <1>11, <1>14

\* What is known stays known while lines, losses and limits do.
LEMMA StillKnown ==
  ASSUME UNCHANGED <<accepted, lapses>>
  PROVE  /\ UNCHANGED limitsFile => Know(limitsFile)' = Know(limitsFile)
         /\ UNCHANGED wtLimits => Know(wtLimits)' = Know(wtLimits)
         /\ limitsFile' = wtLimits => Know(limitsFile)' = Know(wtLimits)
         /\ DailyLimitsHold' = DailyLimitsHold
         /\ \A a : Of(a)' = Of(a)
<1>1. \A e, d : OnDay(e, d)' = OnDay(e, d)
  BY DEF OnDay
<1>2. \A a : Of(a)' = Of(a)
  BY DEF Of
<1>3. DailyLimitsHold' = DailyLimitsHold
  BY DEF DailyLimitsHold
<1>4. UNCHANGED limitsFile => Know(limitsFile)' = Know(limitsFile)
  BY DEF Know, OnDay, Of
<1>5. UNCHANGED wtLimits => Know(wtLimits)' = Know(wtLimits)
  BY DEF Know, OnDay, Of
<1>6. limitsFile' = wtLimits => Know(limitsFile)' = Know(wtLimits)
  BY DEF Know, OnDay, Of
<1> QED BY <1>2, <1>3, <1>4, <1>5, <1>6

\* Once the limits are lost, or the process, the next tick goes by its file.
LEMMA LimitsAreLost ==
  ASSUME LimitsKnow, wtPc = "tell", lapses' = lapses + 1, limitsFile' \in {limitsFile, Unread},
         TickEnds, UNCHANGED <<wtNow, accepted>>
  PROVE  LimitsKnow'
<1>1. /\ WtTypes /\ NotAfter(limitsFile, wtAt) /\ DailyLimitsHold
      /\ wtAt \in Nat /\ wtNow \in Nat /\ wtAt <= wtNow /\ limitsFile \in LimitType
  BY DEF LimitsKnow, WtTypes
<1>2. /\ Unread \in LimitType /\ NotAfter(Unread, wtNow)
      /\ limitsFile' \in LimitType /\ NotAfter(limitsFile', wtNow)
  BY <1>1, UnreadIsOld, NotAfterGrows
<1>3. WtTypes'
  <2> DEFINE S(n) == [asset : WtAssets, at : Nat, lapses : 0 .. n]
  <2>1. PICK n \in Nat : n = lapses
    BY <1>1 DEF WtTypes
  <2>2. accepted \in Seq(S(n))
    BY <1>1, <2>1 DEF WtTypes
  <2>3. S(n) \subseteq S(n + 1)
    BY <2>1
  <2> HIDE DEF S
  <2>4. accepted' \in Seq(S(n + 1)) /\ lapses' = n + 1
    BY <2>1, <2>2, <2>3
  <2>5. accepted' \in Seq([asset : WtAssets, at : Nat, lapses : 0 .. lapses'])
    BY <2>4 DEF S
  <2> QED BY <1>1, <1>2, <2>1, <2>4, <2>5 DEF WtTypes, TickEnds
<1>4. PICK limits \in LimitType, e \in Nat : limits = limitsFile' /\ e = lapses'
  BY <1>1, <1>2 DEF WtTypes
<1>5. /\ Cardinality(OnDay(e, limits.day)) <= limits.total
      /\ \A n \in DOMAIN accepted : accepted[n].lapses # e
  BY <1>1, <1>4, KnowAnew
<1>6. Know(limitsFile)'
  <2>1. OnDay(lapses, limitsFile.day)' = OnDay(e, limits.day)
    BY <1>4 DEF OnDay
  <2>2. \A a : Of(a)' = {}
    BY <1>4, <1>5 DEF Of
  <2> QED BY <1>4, <1>5, <2>1, <2>2 DEF Know
<1>7. DailyLimitsHold'
  BY <1>1 DEF DailyLimitsHold
<1>8. wtPc' = "idle"
  BY DEF TickEnds
<1>9. NotAfter(limitsFile, wtNow)'
  BY <1>2 DEF NotAfter
<1> QED BY <1>3, <1>6, <1>7, <1>8, <1>9 DEF LimitsKnow

\* Another signal is accepted when its asset was last accepted a day's length ago.
LEMMA OneMorePassed ==
  ASSUME LimitsKnow, wtPc = "route", NEW s \in Polled, Buildable(s),
         UNCHANGED <<wtNow, limitsFile, accepted, lapses, wtPc, wtAt>>,
         wtTodo' \in Seq(Polled), wtPassed' = Append(wtPassed, s), wtPassed' \in Seq(Polled),
         s.asset \in WtAssets, wtLimits' \in LimitType,
         wtLimits'.day = wtLimits.day, wtLimits'.total = wtLimits.total + 1,
         wtLimits'.last = [wtLimits.last EXCEPT ![s.asset] = wtAt],
         NotAfter(limitsFile, wtAt)', Know(limitsFile)', DailyLimitsHold'
  PROVE  LimitsKnow'
<1>0. /\ WtTypes /\ PassedAreIn /\ Know(wtLimits) /\ NotAfter(wtLimits, wtAt)
      /\ wtLimits.day = WtToday(wtAt)
  BY DEF LimitsKnow
<1>1. PICK a \in WtAssets, last \in [WtAssets -> Int], t \in Nat, k \in Nat :
        a = s.asset /\ last = wtLimits.last /\ t = wtAt /\ k = Len(wtPassed)
  <2>1. wtLimits.last \in [WtAssets -> Int] /\ wtAt \in Nat /\ wtPassed \in Seq(Polled)
    BY <1>0 DEF WtTypes, LimitType
  <2>2. Len(wtPassed) \in Nat
    BY <2>1
  <2> QED BY <2>1, <2>2
<1>2. /\ wtLimits'.last = [last EXCEPT ![a] = t] /\ last[a] <= t
      /\ \A b \in WtAssets : last[b] <= t
  BY <1>0, <1>1 DEF NotAfter
<1>3. \A m \in Of(a) : t - accepted[m].at >= WtDay
  <2>1. SUFFICES ASSUME NEW m \in Of(a) PROVE t - accepted[m].at >= WtDay
    OBVIOUS
  <2>2. PICK at \in Nat : at = accepted[m].at /\ at <= last[a]
    BY <1>0, <1>1, <2>1, LinesAreTyped DEF Of, Know
  <2>3. last[a] # Never => ~(0 <= t - last[a] /\ t - last[a] < WtDay)
    BY <1>1 DEF Buildable
  <2>4. WtDay \in Nat /\ last[a] \in Int
    BY WatchtowerAssumption
  <2> QED BY <1>2, <2>2, <2>3, <2>4 DEF Never
<1>4. last[a] # t
  BY <1>1, WatchtowerAssumption DEF Buildable, Never
<1>5. /\ DOMAIN wtPassed' = 1 .. k + 1 /\ DOMAIN wtPassed = 1 .. k
      /\ \A n \in 1 .. k : wtPassed'[n] = wtPassed[n] /\ wtPassed[n].asset \in WtAssets
      /\ wtPassed'[k + 1] = s
  <2>1. wtPassed \in Seq(Polled)
    BY <1>0 DEF WtTypes
  <2> QED BY <1>1, <2>1, PolledTypes
<1>6. \A n \in 1 .. k : wtPassed[n].asset # a
  <2>1. \A n \in 1 .. k : wtLimits.last[wtPassed[n].asset] = wtAt
    BY <1>0, <1>5 DEF PassedAreIn
  <2> QED BY <1>1, <1>4, <2>1
<1>7. PassedAreIn'
  <2>1. Cardinality(OnDay(lapses, wtLimits.day)') + (k + 1) <= wtLimits'.total
    <3>1. OnDay(lapses, wtLimits.day)' = OnDay(lapses, wtLimits.day)
      BY DEF OnDay
    <3>2. PICK c \in Nat : c = Cardinality(OnDay(lapses, wtLimits.day))
      BY <1>0, DaysAreFinite
    <3>3. c + k <= wtLimits.total /\ wtLimits.total \in Nat
      BY <1>0, <1>1, <3>2 DEF PassedAreIn, WtTypes, LimitType
    <3> QED BY <3>1, <3>2, <3>3
  <2>2. ASSUME NEW n \in 1 .. k + 1 PROVE wtLimits'.last[wtPassed'[n].asset] = t
    <3>1. CASE n \in 1 .. k
      <4>1. wtLimits.last[wtPassed[n].asset] = wtAt
        BY <1>0, <1>5, <3>1 DEF PassedAreIn
      <4>2. PICK b \in WtAssets : b = wtPassed[n].asset /\ b # a /\ wtPassed'[n] = wtPassed[n]
        BY <1>5, <1>6, <3>1
      <4> QED BY <1>1, <1>2, <4>1, <4>2
    <3>2. CASE n = k + 1
      BY <1>1, <1>2, <1>5, <3>2
    <3> QED BY <1>1, <3>1, <3>2
  <2>3. ASSUME NEW m \in 1 .. k + 1, NEW n \in 1 .. k + 1, wtPassed'[m].asset = wtPassed'[n].asset
        PROVE  m = n
    <3>1. CASE m \in 1 .. k /\ n \in 1 .. k
      BY <1>0, <1>5, <2>3, <3>1 DEF PassedAreIn
    <3>2. CASE m \notin 1 .. k \/ n \notin 1 .. k
      BY <1>1, <1>5, <1>6, <2>3, <3>2
    <3> QED BY <3>1, <3>2
  <2>4. ASSUME NEW n \in 1 .. k + 1, NEW m \in Of(wtPassed'[n].asset)
        PROVE  t - accepted[m].at >= WtDay
    <3>1. CASE n \in 1 .. k
      BY <1>0, <1>1, <1>5, <2>4, <3>1 DEF PassedAreIn
    <3>2. CASE n = k + 1
      BY <1>1, <1>3, <1>5, <2>4, <3>2
    <3> QED BY <3>1, <3>2
  <2>5. \A b : Of(b)' = Of(b)
    BY DEF Of
  <2>6. Len(wtPassed') = k + 1
    BY <1>0, <1>1 DEF WtTypes
  <2> QED BY <1>1, <1>5, <2>1, <2>2, <2>3, <2>4, <2>5, <2>6 DEF PassedAreIn
<1>8. \A b \in WtAssets : wtLimits'.last[b] <= t /\ last[b] <= wtLimits'.last[b]
  <2>1. SUFFICES ASSUME NEW b \in WtAssets PROVE wtLimits'.last[b] <= t /\ last[b] <= wtLimits'.last[b]
    OBVIOUS
  <2>2. last[b] \in Int /\ last[b] <= t /\ t \in Nat
    BY <1>1, <1>2
  <2>3. CASE b = a
    BY <1>1, <1>2, <2>2, <2>3
  <2>4. CASE b # a
    BY <1>1, <1>2, <2>2, <2>4
  <2> QED BY <2>3, <2>4
<1>9. Know(wtLimits)'
  <2>1. Cardinality(OnDay(lapses, wtLimits.day)') <= wtLimits'.total
    <3>1. OnDay(lapses, wtLimits.day)' = OnDay(lapses, wtLimits.day)
      BY DEF OnDay
    <3>2. PICK c \in Nat : c = Cardinality(OnDay(lapses, wtLimits.day))
      BY <1>0, DaysAreFinite
    <3>3. c <= wtLimits.total /\ wtLimits.total \in Nat
      BY <1>0, <3>2 DEF Know, WtTypes, LimitType
    <3> QED BY <3>1, <3>2, <3>3
  <2>2. ASSUME NEW b \in WtAssets, NEW n \in Of(b) PROVE accepted[n].at <= wtLimits'.last[b]
    <3>1. accepted[n].at \in Nat /\ accepted[n].at <= last[b]
      BY <1>0, <1>1, LinesAreTyped DEF Of, Know
    <3>2. wtLimits'.last[b] \in Int /\ last[b] \in Int
      BY <1>1, <1>2
    <3> QED BY <1>8, <3>1, <3>2
  <2>3. \A b : Of(b)' = Of(b)
    BY DEF Of
  <2> QED BY <1>0, <2>1, <2>2, <2>3 DEF Know
<1>10. NotAfter(wtLimits, wtAt)'
  BY <1>0, <1>1, <1>8 DEF NotAfter
<1>11. WtTypes'
  BY <1>0 DEF WtTypes
<1> QED BY <1>0, <1>7, <1>9, <1>10, <1>11 DEF LimitsKnow

\* The limits of a tick, and those in the file, know of every candidate accepted since the
\* limits were last lost.
LEMMA WtStepHolds == LimitsKnow /\ [MillNext]_vars => LimitsKnow'
<1> SUFFICES ASSUME LimitsKnow, [MillNext]_vars PROVE LimitsKnow'
  OBVIOUS
<1>0. /\ WtTypes /\ DailyLimitsHold
      /\ wtAt \in Nat /\ wtNow \in Nat /\ wtAt <= wtNow
      /\ limitsFile \in LimitType /\ wtLimits \in LimitType
      /\ wtTodo \in Seq(Polled) /\ wtPassed \in Seq(Polled)
      /\ wtPc = "idle" => NotAfter(limitsFile, wtNow)
      /\ wtPc # "idle" => NotAfter(limitsFile, wtAt)
      /\ wtPc # "tell" => Know(limitsFile)
  BY DEF LimitsKnow, WtTypes
<1>00. Unread \in LimitType /\ NotAfter(limitsFile, wtNow)
  BY <1>0, UnreadIsOld, NotAfterGrows
<1>1. CASE Poll
  <2>1. UNCHANGED <<wtNow, limitsFile, accepted, lapses>> /\ wtPc = "idle"
    BY <1>1 DEF Poll
  <2>2. CASE UNCHANGED <<wtPc, wtTickVars>>
    <3>1. UNCHANGED <<wtPc, wtAt, wtTodo, wtPassed, wtLimits>>
      BY <2>2 DEF wtTickVars
    <3> QED BY <1>0, <2>1, <3>1, StillKnown DEF LimitsKnow, WtTypes, NotAfter
  <2>3. CASE ~ UNCHANGED <<wtPc, wtTickVars>>
    <3>1. PICK poll \in Polls, signals \in Seq(Polled) : wtPc' = "filter" /\ wtAt' = wtNow
            /\ wtTodo' = signals /\ UNCHANGED <<wtPassed, wtLimits>>
      BY <1>1, <2>3, PolledTypes DEF Poll
    <3>2. WtTypes'
      BY <1>0, <2>1, <3>1 DEF WtTypes
    <3>3. NotAfter(limitsFile, wtAt)' /\ Know(limitsFile)' /\ DailyLimitsHold'
      BY <1>0, <2>1, <3>1, StillKnown DEF NotAfter
    <3> QED BY <3>1, <3>2, <3>3 DEF LimitsKnow
  <2> QED BY <2>2, <2>3
<1>2. CASE FilterSignal
  <2>1. /\ UNCHANGED <<wtNow, limitsFile, accepted, lapses, wtPc, wtAt, wtLimits>>
        /\ wtPc = "filter" /\ wtTodo # <<>> /\ wtTodo' = Tail(wtTodo)
        /\ wtPassed' \in {wtPassed, Append(wtPassed, Head(wtTodo))}
    BY <1>2 DEF FilterSignal, fileVars
  <2>2. WtTypes'
    <3>1. wtTodo' \in Seq(Polled) /\ wtPassed' \in Seq(Polled)
      BY <1>0, <2>1
    <3> QED BY <1>0, <2>1, <3>1 DEF WtTypes
  <2>3. NotAfter(limitsFile, wtAt)' /\ Know(limitsFile)' /\ DailyLimitsHold'
    BY <1>0, <2>1, StillKnown DEF NotAfter
  <2> QED BY <2>1, <2>2, <2>3 DEF LimitsKnow
<1>3. CASE Route
  <2>1. /\ UNCHANGED <<wtNow, limitsFile, accepted, lapses, wtAt>>
        /\ wtPc = "filter" /\ wtPc' = "route" /\ wtTodo' = wtPassed /\ wtPassed' = <<>>
        /\ wtLimits' = LoadedLimits
    BY <1>3 DEF Route, fileVars
  <2>2. /\ LoadedLimits \in LimitType /\ LoadedLimits.day = WtToday(wtAt)
        /\ NotAfter(LoadedLimits, wtAt) /\ Know(LoadedLimits)
    BY <1>0, <2>1, LoadedKnow
  <2>3. WtTypes'
    BY <1>0, <2>1, <2>2 DEF WtTypes
  <2>4. NotAfter(limitsFile, wtAt)' /\ Know(limitsFile)' /\ DailyLimitsHold'
    BY <1>0, <2>1, StillKnown DEF NotAfter
  <2>5. NotAfter(wtLimits, wtAt)' /\ wtLimits'.day = WtToday(wtAt')
    BY <2>1, <2>2 DEF NotAfter
  <2>6. Know(wtLimits)'
    BY <2>1, <2>2 DEF Know, OnDay, Of
  <2>7. PassedAreIn'
    <3>1. Cardinality(OnDay(lapses, wtLimits.day)') <= wtLimits'.total
          /\ Cardinality(OnDay(lapses, wtLimits.day)') \in Nat
      <4>1. PICK e, d : e = lapses /\ d = wtLimits'.day
        OBVIOUS
      <4>2. OnDay(lapses, wtLimits.day)' = OnDay(e, d)
        BY <2>1, <4>1 DEF OnDay
      <4>3. Cardinality(OnDay(e, d)) \in Nat
        BY <1>0, DaysAreFinite
      <4> QED BY <2>6, <4>2, <4>3 DEF Know
    <3> QED BY <2>1, <3>1 DEF PassedAreIn
  <2> QED BY <2>1, <2>3, <2>4, <2>5, <2>6, <2>7 DEF LimitsKnow
<1>4. CASE RouteSignal
  <2>1. /\ UNCHANGED <<wtNow, limitsFile, accepted, lapses, wtPc, wtAt>>
        /\ wtPc = "route" /\ wtTodo # <<>> /\ wtTodo' = Tail(wtTodo)
    BY <1>4 DEF RouteSignal, fileVars
  <2>2. wtTodo' \in Seq(Polled) /\ Head(wtTodo) \in Polled
    BY <1>0, <2>1
  <2>3. PICK s \in Polled : s = Head(wtTodo)
    BY <2>2
  <2>4. NotAfter(limitsFile, wtAt)' /\ Know(limitsFile)' /\ DailyLimitsHold'
    BY <1>0, <2>1, StillKnown DEF NotAfter
  <2>5. CASE UNCHANGED <<wtPassed, wtLimits>>
    <3>1. WtTypes'
      BY <1>0, <2>1, <2>2, <2>5 DEF WtTypes
    <3>2. (PassedAreIn <=> PassedAreIn') /\ NotAfter(wtLimits, wtAt)' = NotAfter(wtLimits, wtAt)
      BY <2>1, <2>5 DEF PassedAreIn, OnDay, Of, NotAfter
    <3> QED BY <2>1, <2>4, <2>5, <3>1, <3>2, StillKnown DEF LimitsKnow
  <2>6. CASE /\ Buildable(s) /\ wtPassed' = Append(wtPassed, s)
             /\ wtLimits' = [wtLimits EXCEPT !.total = @ + 1, !.last[s.asset] = wtAt]
    <3>1. /\ wtPassed' \in Seq(Polled) /\ s.asset \in WtAssets
          /\ wtLimits'.day = wtLimits.day /\ wtLimits'.total = wtLimits.total + 1
          /\ wtLimits'.last = [wtLimits.last EXCEPT ![s.asset] = wtAt]
          /\ wtLimits' \in LimitType
      <4>1. PICK limits \in LimitType : limits = wtLimits
        BY <1>0
      <4>2. /\ limits.day \in Int /\ limits.total \in 0 .. MaxDaily
            /\ limits.last \in [WtAssets -> Int] /\ limits.total < MaxDaily
        BY <2>6, <4>1 DEF LimitType, Buildable
      <4>3. PICK a \in WtAssets, t \in Int : a = s.asset /\ t = wtAt
        BY <1>0, PolledTypes
      <4>4. PICK more : more = [limits EXCEPT !.total = @ + 1]
        OBVIOUS
      <4>5. /\ more \in LimitType /\ more.day = limits.day /\ more.total = limits.total + 1
            /\ more.last = limits.last
        BY <4>1, <4>2, <4>4, WatchtowerAssumption DEF LimitType
      <4>6. wtLimits' = [more EXCEPT !.last[a] = t]
        BY <2>6, <4>1, <4>3, <4>4
      <4>7. /\ wtLimits' \in LimitType /\ wtLimits'.day = more.day /\ wtLimits'.total = more.total
            /\ wtLimits'.last = [more.last EXCEPT ![a] = t]
        BY <4>3, <4>5, <4>6 DEF LimitType
      <4>8. wtPassed' \in Seq(Polled)
        BY <1>0, <2>6
      <4> QED BY <4>1, <4>3, <4>5, <4>7, <4>8
    <3> QED BY <1>0, <2>1, <2>2, <2>3, <2>4, <2>6, <3>1, OneMorePassed
  <2> QED BY <1>4, <2>3, <2>5, <2>6 DEF RouteSignal
<1>5. CASE WriteCandidates
  <2>1. /\ UNCHANGED <<wtNow, limitsFile, lapses>> /\ wtPc = "route"
    BY <1>5 DEF WriteCandidates
  <2>2. CASE wtPassed = <<>>
    <3>1. TickEnds /\ accepted' = accepted
      <4>1. TickEnds /\ (accepted' = accepted \o [n \in DOMAIN wtPassed |->
              [asset |-> wtPassed[n].asset, at |-> wtAt, lapses |-> lapses]])
        BY <1>5, <2>2 DEF WriteCandidates
      <4>2. DOMAIN wtPassed = {}
        BY <2>2
      <4>3. [n \in DOMAIN wtPassed |->
              [asset |-> wtPassed[n].asset, at |-> wtAt, lapses |-> lapses]] = <<>>
        BY <4>2
      <4>4. accepted \o <<>> = accepted
        BY <1>0 DEF WtTypes
      <4> QED BY <4>1, <4>3, <4>4
    <3>2. WtTypes'
      BY <1>0, <1>00, <2>1, <3>1 DEF WtTypes, TickEnds
    <3>3. NotAfter(limitsFile, wtNow)' /\ Know(limitsFile)' /\ DailyLimitsHold'
      BY <1>0, <1>00, <2>1, <3>1, StillKnown DEF NotAfter
    <3> QED BY <3>1, <3>2, <3>3 DEF LimitsKnow, TickEnds
  <2>3. CASE wtPassed # <<>>
    <3>1. wtPc' = "tell" /\ wtPassed' = <<>> /\ UNCHANGED <<wtAt, wtTodo, wtLimits>>
      BY <1>5, <2>3 DEF WriteCandidates
    <3>2. /\ accepted' \in Seq([asset : WtAssets, at : Nat, lapses : 0 .. lapses])
          /\ Know(wtLimits)' /\ DailyLimitsHold'
      <4>1. CASE accepted' = accepted
        BY <1>0, <2>1, <3>1, <4>1, StillKnown DEF LimitsKnow, WtTypes
      <4>2. CASE accepted' # accepted
        <5>1. PICK fresh : fresh = [n \in DOMAIN wtPassed |->
              [asset |-> wtPassed[n].asset, at |-> wtAt, lapses |-> lapses]]
          OBVIOUS
        <5>2. accepted' = accepted \o fresh
          BY <1>5, <4>2, <5>1 DEF WriteCandidates
        <5> QED BY <2>1, <3>1, <5>1, <5>2, WrittenAreKnown
      <4> QED BY <4>1, <4>2
    <3>3. WtTypes'
      BY <1>0, <2>1, <3>1, <3>2 DEF WtTypes
    <3>4. NotAfter(limitsFile, wtAt)' /\ NotAfter(wtLimits, wtAt)' /\ wtLimits'.day = WtToday(wtAt')
      BY <1>0, <2>1, <3>1 DEF NotAfter, LimitsKnow
    <3> QED BY <3>1, <3>2, <3>3, <3>4 DEF LimitsKnow
  <2> QED BY <2>2, <2>3
<1>6. CASE TellAccepted
  <2>1. UNCHANGED <<wtNow, limitsFile, accepted, lapses, wtPc, wtAt, wtTodo, wtPassed, wtLimits>>
        /\ wtPc = "tell"
    BY <1>6 DEF TellAccepted, fileVars
  <2> QED BY <1>0, <2>1, StillKnown DEF LimitsKnow, WtTypes, NotAfter
<1>7. CASE SaveLimits
  <2>1. wtPc = "tell" /\ TickEnds /\ UNCHANGED <<wtNow, accepted>>
    BY <1>7 DEF SaveLimits
  <2>2. CASE limitsFile' = wtLimits /\ UNCHANGED lapses
    <3>1. NotAfter(wtLimits, wtAt) /\ Know(wtLimits)
      BY <2>1 DEF LimitsKnow
    <3>2. NotAfter(wtLimits, wtNow)
      BY <1>0, <3>1, NotAfterGrows
    <3>3. WtTypes'
      BY <1>0, <1>00, <2>1, <2>2 DEF WtTypes, TickEnds
    <3>4. NotAfter(limitsFile, wtNow)' /\ Know(limitsFile)' /\ DailyLimitsHold'
      BY <1>0, <2>1, <2>2, <3>1, <3>2, StillKnown DEF NotAfter
    <3> QED BY <2>1, <3>3, <3>4 DEF LimitsKnow, TickEnds
  <2>3. CASE lapses' = lapses + 1 /\ limitsFile' \in {limitsFile, Unread}
    BY <2>1, <2>3, LimitsAreLost
  <2> QED BY <1>7, <2>2, <2>3 DEF SaveLimits
<1>8. CASE WtCrash
  <2>1. TickEnds /\ UNCHANGED <<wtNow, accepted>>
    BY <1>8 DEF WtCrash
  <2>2. CASE wtPc = "tell"
    <3>1. lapses' = lapses + 1 /\ limitsFile' \in {limitsFile, Unread}
      BY <1>8, <2>2 DEF WtCrash
    <3> QED BY <2>1, <2>2, <3>1, LimitsAreLost
  <2>3. CASE wtPc # "tell"
    <3>1. UNCHANGED <<limitsFile, lapses>>
      BY <1>8, <2>3 DEF WtCrash
    <3>2. WtTypes'
      BY <1>0, <1>00, <2>1, <3>1 DEF WtTypes, TickEnds
    <3>3. NotAfter(limitsFile, wtNow)' /\ Know(limitsFile)' /\ DailyLimitsHold'
      BY <1>0, <1>00, <2>1, <2>3, <3>1, StillKnown DEF NotAfter
    <3> QED BY <2>1, <3>2, <3>3 DEF LimitsKnow, TickEnds
  <2> QED BY <2>2, <2>3
<1>9. CASE WtTime
  <2>1. /\ wtNow' = wtNow + 1
        /\ UNCHANGED <<limitsFile, accepted, lapses, wtPc, wtAt, wtTodo, wtPassed, wtLimits>>
    BY <1>9 DEF WtTime, wtTickVars, fileVars
  <2>2. WtTypes'
    BY <1>0, <2>1 DEF WtTypes
  <2>3. PICK n \in Nat : n = wtNow /\ wtNow' = n + 1
    BY <1>0, <2>1
  <2>4. NotAfter(limitsFile, n + 1)
    BY <1>0, <1>00, <2>3, NotAfterGrows
  <2>5. NotAfter(limitsFile, wtNow)'
    BY <2>1, <2>3, <2>4 DEF NotAfter
  <2>6. (PassedAreIn <=> PassedAreIn')
    BY <2>1 DEF PassedAreIn, OnDay, Of
  <2>7. NotAfter(limitsFile, wtAt)' = NotAfter(limitsFile, wtAt)
        /\ NotAfter(wtLimits, wtAt)' = NotAfter(wtLimits, wtAt)
    BY <2>1 DEF NotAfter
  <2> QED BY <1>0, <2>1, <2>2, <2>5, <2>6, <2>7, StillKnown DEF LimitsKnow
<1>10. CASE UNCHANGED <<wtNow, polls, wtPc, wtTickVars, fileVars>>
  <2>1. UNCHANGED <<wtNow, limitsFile, accepted, lapses, wtPc, wtAt, wtTodo, wtPassed, wtLimits>>
    BY <1>10 DEF wtTickVars, fileVars
  <2>2. (PassedAreIn <=> PassedAreIn')
    BY <2>1 DEF PassedAreIn, OnDay, Of
  <2> QED BY <1>0, <2>1, <2>2, StillKnown DEF LimitsKnow, WtTypes, NotAfter
<1>11. CASE UNCHANGED wtVars
  <2>1. UNCHANGED <<wtNow, polls, wtPc, wtTickVars, fileVars>>
    BY <1>11 DEF wtVars, wtTickVars, fileVars
  <2> QED BY <1>10, <2>1
<1> QED BY <1>1, <1>2, <1>3, <1>4, <1>5, <1>6, <1>7, <1>8, <1>9, <1>10, <1>11, WtFrame, Zenon
        DEF WatchtowerStep

\* Between two losses of the limits no day has more candidates than the limit, and no asset two
\* within a day's length (watchtower_ant.py, _load_daily_limits and _save_daily_limits).
THEOREM DailyLimitsStay == MillSpec => []DailyLimitsHold
<1>1. LimitsKnow => DailyLimitsHold
  BY DEF LimitsKnow
<1> QED BY <1>1, WtInitHolds, WtStepHolds, PTL DEF MillSpec

--------------------------------------------------------------------------------
(* Limits that outlive crashes. *)

\* The limits that are kept in files hold across crashes and midnights, but for what a file
\* lost, whichever of the three ants is killed when: candidates of the Watchtower
\* (watchtower_ant.py), calls for news (news_ant.py), gaps told of (audit_ant.py).
THEOREM LimitsStay == MillSpec => []LimitsOutliveCrashes
  BY DailyLimitsStay, NewsCallsStayCounted, GapsStayToldOnce, PTL DEF LimitsOutliveCrashes

--------------------------------------------------------------------------------
(* The session with the gateway. *)

ClientSteps == {"idle", "call", "lock", "ensure", "request"}
ThreadStates == {"none", "trying", "ending"}

\* Who asks the gateway holds the lock, as does the thread that connects, and the one whose
\* request the session was lost in will take it up.
SessionInv ==
  /\ clientPc \in [Clients -> ClientSteps] /\ thread \in ThreadStates
  /\ \A c \in Clients : clientPc[c] \in {"ensure", "request"} => ibLock = c
  /\ ibLock = "reconnect" => thread = "trying"
  /\ session # "up" /\ thread # "trying" /\ causes = {} => \E c \in Clients : clientPc[c] = "request"

\* Whoever asks for the thread has it at work, or notes that it is done.
LEMMA TakenUpOrNoted ==
  ASSUME thread \in ThreadStates, StartReconnect
  PROVE  /\ thread' \in ThreadStates /\ (thread = "trying" => thread' = "trying")
         /\ thread' = "trying" \/ causes' # {}
BY Zenon DEF StartReconnect, ThreadStates

\* For any number of clients, losses and attempts (_reconnect_loop, get_candles).
THEOREM StallsAreExplained == IbSpec => []StallHasACause
<1> USE SessionAssumption
<1>1. IbInit => SessionInv
  BY DEF IbInit, SessionInv, ClientSteps, ThreadStates
<1>2. ASSUME SessionInv, [IbStep]_ibVars PROVE SessionInv'
  <2> USE <1>2 DEF SessionInv, ClientSteps
  <2>1. CASE LoseSession
    BY <2>1 DEF LoseSession
  <2>2. CASE AskAvailable
    BY <2>2 DEF AskAvailable, reconnectVars
  <2>3. CASE Reconnect
    <3>1. /\ thread = "trying" /\ ibLock = NoOne /\ ibLock' = "reconnect"
          /\ UNCHANGED <<session, thread, causes, clientPc>>
      BY <2>3, Zenon DEF Reconnect, reconnectVars
    <3>2. QED
      BY <3>1
  <2>4. CASE Reconnected
    <3>1. ibLock = "reconnect" /\ ibLock' = NoOne /\ UNCHANGED clientPc
      BY <2>4, Zenon DEF Reconnected
    <3>2. \A c \in Clients : clientPc[c] \notin {"ensure", "request"}
      BY <3>1
    <3>3. \/ session' = "up" /\ thread' = "ending"
          \/ thread' = "ending" /\ causes' # {}
          \/ UNCHANGED <<thread, causes>>
      BY <2>4, Zenon DEF Reconnected
    <3>4. thread = "trying"
      BY <3>1
    <3>5. QED
      BY <3>1, <3>2, <3>3, <3>4 DEF ThreadStates
  <2>5. CASE ThreadEnds
    BY <2>5 DEF ThreadEnds, ThreadStates
  <2>6. ASSUME NEW c \in Clients, TickOver(c) PROVE SessionInv'
    BY <2>6 DEF TickOver, IbGoto, reconnectVars
  <2>7. ASSUME NEW c \in Clients, CallCandles(c) PROVE SessionInv'
    <3>1. CASE StartReconnect /\ Served(c)
      BY <2>7, <3>1, TakenUpOrNoted DEF CallCandles, Served, IbGoto
    <3>2. CASE UNCHANGED reconnectVars /\ \E pc \in {"lock", "call"} : IbGoto(c, pc)
      BY <2>7, <3>2 DEF CallCandles, IbGoto, reconnectVars
    <3>3. QED
      BY <2>7, <3>1, <3>2 DEF CallCandles, Served
  <2>8. ASSUME NEW c \in Clients, TakeLock(c) PROVE SessionInv'
    BY <2>8 DEF TakeLock, Served, IbGoto, reconnectVars
  <2>9. ASSUME NEW c \in Clients, EnsureConnected(c) PROVE SessionInv'
    BY <2>9, TakenUpOrNoted DEF EnsureConnected, Served, IbGoto, reconnectVars
  <2>10. ASSUME NEW c \in Clients, RequestFails(c) PROVE SessionInv'
    BY <2>10, TakenUpOrNoted DEF RequestFails, Served, IbGoto
  <2>11. ASSUME NEW c \in Clients, RequestEnds(c) PROVE SessionInv'
    BY <2>11 DEF RequestEnds, Served, IbGoto, reconnectVars
  <2>12. CASE UNCHANGED ibVars
    BY <2>12 DEF ibVars, reconnectVars
  <2>13. QED
    BY <2>1, <2>2, <2>3, <2>4, <2>5, <2>6, <2>7, <2>8, <2>9, <2>10, <2>11, <2>12 DEF IbStep
<1>3. SessionInv => StallHasACause
  BY DEF SessionInv, StallHasACause
<1>4. QED
  BY <1>1, <1>2, <1>3, PTL DEF IbSpec

--------------------------------------------------------------------------------
(* What advise concludes: numbers sorted by their keys, and a fold over the list. *)

\* Numbers can be put in the order of their keys, equals as they were.
Sorts(f, n, key) ==
  \A i, j \in 1 .. n : i < j =>
    key[f[i]] > key[f[j]] \/ (key[f[i]] = key[f[j]] /\ f[i] < f[j])

LEMMA SortExists ==
  ASSUME NEW n \in Nat, NEW key \in [1 .. n -> Int]
  PROVE  \E f \in [1 .. n -> 1 .. n] : Sorts(f, n, key)
<1> DEFINE D == 1 .. n
           Over(i, j) == key[i] > key[j] \/ (key[i] = key[j] /\ i < j)
           before(i) == {j \in D : Over(j, i)}
           pos == [i \in D |-> Cardinality(before(i)) + 1]
<1>1. IsFiniteSet(D) /\ Cardinality(D) = n
  BY FS_Interval
<1>2. ASSUME NEW i \in D, NEW j \in D
      PROVE  /\ ~ Over(i, i)
             /\ Over(i, j) \/ Over(j, i) \/ i = j
             /\ Over(i, j) => before(i) \subseteq before(j)
  OBVIOUS
<1> HIDE DEF Over
<1>3. ASSUME NEW i \in D
      PROVE  /\ IsFiniteSet(before(i)) /\ Cardinality(before(i)) \in Nat
             /\ Cardinality(before(i)) < n
  <2>1. before(i) \in SUBSET D /\ before(i) # D
    BY <1>2
  <2>2. IsFiniteSet(before(i)) /\ Cardinality(before(i)) <= Cardinality(D)
        /\ (Cardinality(D) = Cardinality(before(i)) => D = before(i))
    BY <1>1, <2>1, FS_Subset
  <2>3. Cardinality(before(i)) \in Nat
    BY <2>2, FS_CardinalityType
  <2>4. QED
    BY <1>1, <2>1, <2>2, <2>3
<1>4. pos \in [D -> D]
  <2>1. ASSUME NEW i \in D PROVE Cardinality(before(i)) + 1 \in D
    <3>1. Cardinality(before(i)) \in Nat /\ Cardinality(before(i)) < n
      BY <1>3
    <3> HIDE DEF before
    <3>2. QED
      BY <3>1
  <2> HIDE DEF before, D
  <2>2. QED
    BY <2>1
<1>5. ASSUME NEW i \in D, NEW j \in D, Over(i, j) PROVE pos[i] < pos[j]
  <2>1. before(i) \in SUBSET before(j) /\ before(i) # before(j)
    BY <1>2, <1>5
  <2>2. Cardinality(before(i)) <= Cardinality(before(j))
        /\ Cardinality(before(i)) # Cardinality(before(j))
    <3>1. IsFiniteSet(before(j))
      BY <1>3
    <3>2. QED
      BY <2>1, <3>1, FS_Subset
  <2>3. Cardinality(before(i)) \in Nat /\ Cardinality(before(j)) \in Nat
    BY <1>3
  <2>4. QED
    BY <2>2, <2>3
<1> HIDE DEF before, pos
<1>6. pos \in Injection(D, D)
  <2>1. ASSUME NEW i \in D, NEW j \in D, pos[i] = pos[j] PROVE i = j
    <3>1. pos[i] \in Nat /\ pos[j] \in Nat
      BY <1>4
    <3>2. ~ Over(i, j) /\ ~ Over(j, i)
      BY <1>5, <2>1, <3>1
    <3>3. QED
      BY <1>2, <3>2
  <2>2. QED
    BY <1>4, <2>1 DEF Injection, IsInjective
<1>7. pos \in Surjection(D, D)
  BY <1>1, <1>6, FS_Injection
<1>8. \A k \in D : \E i \in D : pos[i] = k
  BY <1>7 DEF Surjection
<1> DEFINE f == [k \in D |-> CHOOSE i \in D : pos[i] = k]
<1>9. f \in [D -> D] /\ \A k \in D : pos[f[k]] = k
  BY <1>8
<1> HIDE DEF f
<1>10. ASSUME NEW i \in D, NEW j \in D, i < j PROVE Over(f[i], f[j])
  <2>1. f[i] \in D /\ f[j] \in D /\ pos[f[i]] = i /\ pos[f[j]] = j
    BY <1>9
  <2>2. f[i] # f[j]
    BY <1>10, <2>1
  <2>3. ~ Over(f[j], f[i])
    <3>1. Over(f[j], f[i]) => pos[f[j]] < pos[f[i]]
      BY <1>5, <2>1
    <3>2. QED
      BY <1>10, <2>1, <3>1
  <2>4. QED
    BY <1>2, <2>1, <2>2, <2>3
<1>11. Sorts(f, n, key)
  BY <1>10 DEF Sorts, Over
<1>12. QED
  BY <1>9, <1>11

\* An order of the kind leaves nobody out.
LEMMA SortsAll ==
  ASSUME NEW n \in Nat, NEW key \in [1 .. n -> Int], NEW f \in [1 .. n -> 1 .. n], Sorts(f, n, key)
  PROVE  \A i \in 1 .. n : \E m \in 1 .. n : f[m] = i
<1>1. ASSUME NEW i \in 1 .. n, NEW j \in 1 .. n, f[i] = f[j] PROVE i = j
  <2>1. f[i] \in 1 .. n /\ key[f[i]] \in Int
    OBVIOUS
  <2>2. (i < j \/ j < i) => key[f[i]] > key[f[i]] \/ f[i] < f[i]
    BY <1>1, Zenon DEF Sorts
  <2>3. ~ (key[f[i]] > key[f[i]]) /\ ~ (f[i] < f[i])
    BY <2>1
  <2>4. ~ (i < j) /\ ~ (j < i)
    BY <2>2, <2>3, Zenon
  <2>5. QED
    BY <2>4
<1>2. f \in Injection(1 .. n, 1 .. n)
  BY <1>1 DEF Injection, IsInjective
<1>3. f \in Surjection(1 .. n, 1 .. n)
  <2>1. IsFiniteSet(1 .. n)
    BY FS_Interval
  <2>2. QED
    BY <1>2, <2>1, FS_Injection
<1>4. QED
  BY <1>3 DEF Surjection

\* What 0 has and each number hands to the next, all up to n have.
LEMMA InductionTo ==
  ASSUME NEW n \in Nat, NEW P, 0 \in P, \A k \in 1 .. n : k - 1 \in P => k \in P
  PROVE  0 .. n \subseteq P
<1> DEFINE Missing == {k \in 0 .. n : k \notin P}
<1> SUFFICES ASSUME Missing # {} PROVE FALSE
  OBVIOUS
<1>1. PICK k \in Missing : \A l \in Missing : k <= l
  <2>1. Missing \subseteq Nat
    OBVIOUS
  <2>2. QED
    BY <2>1, LeastOf
<1>2. k \in 1 .. n /\ k - 1 \in 0 .. n
  BY <1>1
<1>3. k - 1 \notin Missing
  BY <1>1, <1>2
<1>4. QED
  BY <1>2, <1>3

\* A fold over the numbers up to n, the greatest of a set first.
FoldsUp(g, n, first, next) ==
  g = [s \in SUBSET (1 .. n) |-> IF s = {} THEN first ELSE next[<<Max(s), g[s \ {Max(s)}]>>]]

\* Max of some of the numbers up to n is the greatest of them.
LEMMA GreatestIn ==
  ASSUME NEW n \in Nat, NEW s \in SUBSET (1 .. n), s # {}
  PROVE  Max(s) \in s /\ \A k \in s : Max(s) >= k
<1>1. IsFiniteSet(1 .. n)
  BY FS_Interval
<1>2. IsFiniteSet(s)
  BY <1>1, FS_Subset
<1>3. s \subseteq Int
  OBVIOUS
<1>4. QED
  BY <1>2, <1>3, MaxOf

\* Such a fold has values: from the sets up to one number they are those up to the next.
LEMMA FoldExists ==
  ASSUME NEW n \in Nat, NEW V, NEW first \in V, NEW next,
         \A k \in 1 .. n, v \in V : next[<<k, v>>] \in V
  PROVE  \E g \in [SUBSET (1 .. n) -> V] : FoldsUp(g, n, first, next)
<1> DEFINE P == {m \in 0 .. n : \E g \in [SUBSET (1 .. m) -> V] : FoldsUp(g, m, first, next)}
<1>1. 0 \in P
  <2> DEFINE g == [s \in SUBSET (1 .. 0) |-> first]
  <2>1. \A s \in SUBSET (1 .. 0) : s = {}
    OBVIOUS
  <2>2. g = [s \in SUBSET (1 .. 0) |-> IF s = {} THEN first ELSE next[<<Max(s), g[s \ {Max(s)}]>>]]
    BY <2>1
  <2>3. g \in [SUBSET (1 .. 0) -> V]
    OBVIOUS
  <2> HIDE DEF g
  <2>4. FoldsUp(g, 0, first, next)
    BY <2>2, Zenon DEF FoldsUp
  <2>5. \E x \in [SUBSET (1 .. 0) -> V] : FoldsUp(x, 0, first, next)
    BY <2>3, <2>4, Zenon
  <2>6. 0 \in 0 .. n
    OBVIOUS
  <2>7. QED
    BY <2>5, <2>6, Zenon
<1>2. ASSUME NEW m \in 1 .. n, m - 1 \in P PROVE m \in P
  <2>1. PICK g \in [SUBSET (1 .. m - 1) -> V] : FoldsUp(g, m - 1, first, next)
    BY <1>2, Zenon
  <2> DEFINE h == [s \in SUBSET (1 .. m) |-> IF m \in s THEN next[<<m, g[s \ {m}]>>] ELSE g[s]]
  <2>2. \A s \in SUBSET (1 .. m) : s \ {m} \in SUBSET (1 .. m - 1)
    OBVIOUS
  <2>3. h \in [SUBSET (1 .. m) -> V]
    <3>1. ASSUME NEW s \in SUBSET (1 .. m) PROVE h[s] \in V
      <4>1. g[s \ {m}] \in V
        BY <2>2
      <4>2. CASE m \in s
        <5>1. next[<<m, g[s \ {m}]>>] \in V
          BY <4>1
        <5>2. QED
          BY <4>2, <5>1
      <4>3. CASE m \notin s
        BY <4>1, <4>3
      <4>4. QED
        BY <4>2, <4>3
    <3>2. QED
      BY <3>1
  <2>4. ASSUME NEW s \in SUBSET (1 .. m)
        PROVE  h[s] = IF s = {} THEN first ELSE next[<<Max(s), h[s \ {Max(s)}]>>]
    <3>1. CASE m \in s
      <4>1. m \in Nat /\ s \in SUBSET (1 .. m) /\ s # {}
        BY <3>1
      <4>2. Max(s) = m
        <5>1. Max(s) \in s /\ \A k \in s : Max(s) >= k
          BY <4>1, GreatestIn
        <5>2. Max(s) \in 1 .. m /\ Max(s) >= m
          BY <3>1, <4>1, <5>1
        <5>3. QED
          BY <5>2
      <4>3. h[s \ {m}] = g[s \ {m}]
        BY <2>2
      <4>4. h[s] = next[<<m, g[s \ {m}]>>]
        BY <3>1
      <4> HIDE DEF h
      <4>5. QED
        BY <3>1, <4>2, <4>3, <4>4
    <3>2. CASE m \notin s
      <4>1. s \in SUBSET (1 .. m - 1) /\ h[s] = g[s]
        BY <3>2
      <4>2. g[s] = IF s = {} THEN first ELSE next[<<Max(s), g[s \ {Max(s)}]>>]
        <5> DEFINE same == [q \in SUBSET (1 .. m - 1) |->
                              IF q = {} THEN first ELSE next[<<Max(q), g[q \ {Max(q)}]>>]]
        <5>1. same[s] = IF s = {} THEN first ELSE next[<<Max(s), g[s \ {Max(s)}]>>]
          BY <4>1
        <5>2. g = same
          BY <2>1, Zenon DEF FoldsUp
        <5>3. QED
          BY <5>1, <5>2, Zenon
      <4>3. h[s \ {Max(s)}] = g[s \ {Max(s)}]
        BY <3>2
      <4> HIDE DEF h
      <4>4. QED
        BY <4>1, <4>2, <4>3
    <3>3. QED
      BY <3>1, <3>2
  <2>5. FoldsUp(h, m, first, next)
    <3>1. h = [s \in SUBSET (1 .. m) |-> h[s]]
      BY <2>3
    <3> HIDE DEF h
    <3>2. QED
      BY <2>4, <3>1 DEF FoldsUp
  <2> HIDE DEF h
  <2>6. \E x \in [SUBSET (1 .. m) -> V] : FoldsUp(x, m, first, next)
    BY <2>3, <2>5, Zenon
  <2>7. m \in 0 .. n
    OBVIOUS
  <2>8. QED
    BY <2>6, <2>7, Zenon
<1>3. 0 .. n \subseteq P
  <2> HIDE DEF P
  <2>1. QED
    BY <1>1, <1>2, InductionTo
<1>4. n \in P
  <2> HIDE DEF P
  <2>1. QED
    BY <1>3
<1>5. QED
  BY <1>4, Zenon

\* What each candidate's place goes by.
Standings(candidates, prefer, avoid) ==
  [i \in 1 .. Len(candidates) |-> AdjustedSharpe(candidates[i], prefer, avoid)]

\* The order select_diverse_top_n goes through the candidates in is sorted, as there is one.
LEMMA BestFirstSorts ==
  ASSUME NEW C, NEW candidates \in Seq(C), \A c \in C : c.sharpe \in Int, NEW prefer, NEW avoid
  PROVE  /\ Standings(candidates, prefer, avoid) \in [1 .. Len(candidates) -> Int]
         /\ BestFirst(candidates, prefer, avoid) \in [1 .. Len(candidates) -> 1 .. Len(candidates)]
         /\ Sorts(BestFirst(candidates, prefer, avoid), Len(candidates), Standings(candidates, prefer, avoid))
<1> DEFINE N == Len(candidates)
           key == Standings(candidates, prefer, avoid)
           Key(i) == AdjustedSharpe(candidates[i], prefer, avoid)
           Best(f) == \A i, j \in 1 .. N : i < j =>
                        Key(f[i]) > Key(f[j]) \/ (Key(f[i]) = Key(f[j]) /\ f[i] < f[j])
<1>1. N \in Nat /\ DOMAIN candidates = 1 .. N /\ \A i \in 1 .. N : candidates[i] \in C
  OBVIOUS
<1>2. key \in [1 .. N -> Int]
  <2>1. ASSUME NEW i \in 1 .. N PROVE Key(i) \in Int
    <3>1. candidates[i].sharpe \in Int
      BY <1>1
    <3>2. QED
      BY <3>1 DEF AdjustedSharpe
  <2> HIDE DEF Key
  <2>2. key = [i \in 1 .. N |-> Key(i)]
    BY Zenon DEF Key, Standings
  <2>3. QED
    BY <2>1, <2>2
<1> HIDE DEF N
<1>3. BestFirst(candidates, prefer, avoid) = CHOOSE f \in [1 .. N -> 1 .. N] : Best(f)
  BY <1>1, Zenon DEF BestFirst
<1>4. \A i \in 1 .. N : key[i] = Key(i)
  BY DEF N, Standings
<1> HIDE DEF Key
<1>5. ASSUME NEW f \in [1 .. N -> 1 .. N] PROVE Best(f) <=> Sorts(f, N, key)
  <2>1. \A i \in 1 .. N : key[f[i]] = Key(f[i])
    BY <1>4
  <2>2. ASSUME NEW i \in 1 .. N, NEW j \in 1 .. N
        PROVE  (Key(f[i]) > Key(f[j]) \/ (Key(f[i]) = Key(f[j]) /\ f[i] < f[j]))
                 <=> (key[f[i]] > key[f[j]] \/ (key[f[i]] = key[f[j]] /\ f[i] < f[j]))
    <3>1. key[f[i]] = Key(f[i]) /\ key[f[j]] = Key(f[j])
      BY <2>1
    <3>2. QED
      BY <3>1, Zenon
  <2>3. QED
    BY <2>2, Zenon DEF Sorts
<1> HIDE DEF Best
<1>6. \E f \in [1 .. N -> 1 .. N] : Best(f)
  BY <1>1, <1>2, <1>5, SortExists
<1>7. BestFirst(candidates, prefer, avoid) \in [1 .. N -> 1 .. N] /\ Best(BestFirst(candidates, prefer, avoid))
  BY <1>3, <1>6, Zenon
<1>8. QED
  BY <1>2, <1>5, <1>7 DEF N

\* What select_diverse_top_n makes of one more candidate.
TopWith(chosen, c, n) ==
  IF Len(chosen) >= n \/ \E d \in ToSet(chosen) : Clash(c, d) THEN chosen ELSE Append(chosen, c)

\* Who is chosen of the first k, as k grows.
TakenUp(tops, candidates, n, prefer, avoid) ==
  /\ tops[{}] = <<>>
  /\ \A k \in 1 .. Len(candidates) :
       tops[1 .. k] = TopWith(tops[1 .. (k - 1)], candidates[BestFirst(candidates, prefer, avoid)[k]], n)
  /\ DiverseTop(candidates, n, prefer, avoid) = tops[1 .. Len(candidates)]

\* What select_diverse_top_n returns comes of one candidate after the other.
LEMMA TopIsTaken ==
  ASSUME NEW C, NEW candidates \in Seq(C), NEW n \in Nat, NEW prefer, NEW avoid,
         BestFirst(candidates, prefer, avoid) \in [1 .. Len(candidates) -> 1 .. Len(candidates)]
  PROVE  \E tops : TakenUp(tops, candidates, n, prefer, avoid)
<1> DEFINE N == Len(candidates)
           order == BestFirst(candidates, prefer, avoid)
           Folded(g) == g = [s \in SUBSET (1 .. N) |->
                              IF s = {} THEN <<>>
                              ELSE TopWith(g[s \ {Max(s)}], candidates[order[Max(s)]], n)]
           tops == CHOOSE g : Folded(g)
           next == [p \in (1 .. N) \X Seq(C) |-> TopWith(p[2], candidates[order[p[1]]], n)]
<1>1. N \in Nat /\ DOMAIN order = 1 .. N /\ \A k \in 1 .. N : candidates[order[k]] \in C
  OBVIOUS
<1> HIDE DEF N, order
<1>2. DiverseTop(candidates, n, prefer, avoid) = tops[1 .. N]
  <2>1. DiverseTop(candidates, n, prefer, avoid)
          = (CHOOSE g : g = [s \in SUBSET (DOMAIN order) |->
                              IF s = {} THEN <<>>
                              ELSE TopWith(g[s \ {Max(s)}], candidates[order[Max(s)]], n)])[DOMAIN order]
    BY Zenon DEF DiverseTop, FoldLeft, MapThenFoldSet, TopWith, order
  <2>2. QED
    BY <1>1, <2>1, Zenon
<1>3. Folded(tops)
  <2>1. ASSUME NEW k \in 1 .. N, NEW v \in Seq(C) PROVE next[<<k, v>>] \in Seq(C)
    <3>1. next[<<k, v>>] = TopWith(v, candidates[order[k]], n)
      OBVIOUS
    <3>2. TopWith(v, candidates[order[k]], n) \in Seq(C)
      BY <1>1 DEF TopWith
    <3>3. QED
      BY <3>1, <3>2
  <2>2. <<>> \in Seq(C)
    OBVIOUS
  <2>3. \E g \in [SUBSET (1 .. N) -> Seq(C)] : FoldsUp(g, N, <<>>, next)
    <3> HIDE DEF next
    <3>1. QED
      BY <1>1, <2>1, <2>2, FoldExists
  <2>4. PICK g \in [SUBSET (1 .. N) -> Seq(C)] : FoldsUp(g, N, <<>>, next)
    BY <2>3
  <2>5. ASSUME NEW s \in SUBSET (1 .. N)
        PROVE  (IF s = {} THEN <<>> ELSE next[<<Max(s), g[s \ {Max(s)}]>>])
                 = IF s = {} THEN <<>> ELSE TopWith(g[s \ {Max(s)}], candidates[order[Max(s)]], n)
    <3>1. CASE s # {}
      <4>1. Max(s) \in 1 .. N
        BY <1>1, <3>1, GreatestIn
      <4>2. g[s \ {Max(s)}] \in Seq(C)
        OBVIOUS
      <4>3. next[<<Max(s), g[s \ {Max(s)}]>>] = TopWith(g[s \ {Max(s)}], candidates[order[Max(s)]], n)
        BY <4>1, <4>2
      <4>4. QED
        BY <4>3, Zenon
    <3>2. QED
      BY <3>1, Zenon
  <2> HIDE DEF next
  <2>6. [s \in SUBSET (1 .. N) |-> IF s = {} THEN <<>> ELSE next[<<Max(s), g[s \ {Max(s)}]>>]]
          = [s \in SUBSET (1 .. N) |-> IF s = {} THEN <<>>
                                       ELSE TopWith(g[s \ {Max(s)}], candidates[order[Max(s)]], n)]
    BY <2>5, Zenon
  <2>7. Folded(g)
    BY <2>4, <2>6, Zenon DEF FoldsUp
  <2> HIDE DEF Folded
  <2>8. QED
    BY <2>7, Zenon
<1> HIDE DEF tops
<1>4. ASSUME NEW s \in SUBSET (1 .. N)
      PROVE  tops[s] = IF s = {} THEN <<>>
                       ELSE TopWith(tops[s \ {Max(s)}], candidates[order[Max(s)]], n)
  <2> DEFINE same == [q \in SUBSET (1 .. N) |->
                        IF q = {} THEN <<>> ELSE TopWith(tops[q \ {Max(q)}], candidates[order[Max(q)]], n)]
  <2>1. same[s] = IF s = {} THEN <<>> ELSE TopWith(tops[s \ {Max(s)}], candidates[order[Max(s)]], n)
    OBVIOUS
  <2>2. tops = same
    BY <1>3, Zenon
  <2>3. QED
    BY <2>1, <2>2, Zenon
<1>5. tops[{}] = <<>>
  BY <1>4
<1>6. ASSUME NEW k \in 1 .. N PROVE tops[1 .. k] = TopWith(tops[1 .. (k - 1)], candidates[order[k]], n)
  <2>1. 1 .. k \in SUBSET (1 .. N) /\ 1 .. k # {} /\ k \in 1 .. k
    <3>1. N \in Nat
      BY <1>1
    <3>2. QED
      BY <3>1
  <2>2. Max(1 .. k) \in 1 .. k /\ Max(1 .. k) >= k
    BY <1>1, <2>1, GreatestIn
  <2>3. Max(1 .. k) = k
    BY <2>2
  <2>4. (1 .. k) \ {k} = 1 .. (k - 1)
    BY <1>1
  <2>5. tops[1 .. k] = TopWith(tops[(1 .. k) \ {Max(1 .. k)}], candidates[order[Max(1 .. k)]], n)
    BY <1>4, <2>1, Zenon
  <2>6. QED
    BY <2>3, <2>4, <2>5, Zenon
<1>7. QED
  BY <1>2, <1>5, <1>6, Zenon DEF N, order, TakenUp

\* What holds of the chosen once k have been looked at: they come from those, in their
\* order, no two clash, and nobody was left out but for one as good or because all places
\* were taken by such.
ChosenWell(chosen, k, candidates, order, n, key) ==
  /\ Len(chosen) <= n
  /\ \A i \in DOMAIN chosen : \E m \in 1 .. k : chosen[i] = candidates[order[m]]
  /\ \A i, j \in DOMAIN chosen : i < j => ~ Clash(chosen[i], chosen[j]) /\ key[chosen[j]] <= key[chosen[i]]
  /\ \A m \in 1 .. k :
       \/ candidates[order[m]] \in ToSet(chosen)
       \/ Len(chosen) = n /\ \A d \in ToSet(chosen) : key[candidates[order[m]]] <= key[d]
       \/ \E d \in ToSet(chosen) : key[candidates[order[m]]] <= key[d] /\ Clash(candidates[order[m]], d)

\* One candidate more, no better than those before.
LEMMA TakenWell ==
  ASSUME NEW C, NEW candidates \in Seq(C), NEW n \in Nat, NEW key \in [C -> Int],
         NEW order \in [1 .. Len(candidates) -> 1 .. Len(candidates)],
         NEW k \in 1 .. Len(candidates),
         \A m \in 1 .. (k - 1) : key[candidates[order[k]]] <= key[candidates[order[m]]],
         NEW chosen \in Seq(C), ChosenWell(chosen, k - 1, candidates, order, n, key),
         NEW more, more = TopWith(chosen, candidates[order[k]], n)
  PROVE  more \in Seq(C) /\ ChosenWell(more, k, candidates, order, n, key)
<1> DEFINE c == candidates[order[k]]
<1>1. c \in C /\ key[c] \in Int /\ k \in Nat \ {0}
  <2>1. order[k] \in 1 .. Len(candidates) /\ k \in Nat \ {0}
    OBVIOUS
  <2>2. c \in C
    BY <2>1
  <2> HIDE DEF c
  <2>3. QED
    BY <2>1, <2>2
<1>2. \A d \in ToSet(chosen) : d \in C /\ key[d] \in Int /\ key[c] <= key[d]
  <2>1. ASSUME NEW d \in ToSet(chosen) PROVE d \in C /\ key[c] <= key[d]
    <3>1. PICK i \in DOMAIN chosen : d = chosen[i]
      BY Zenon DEF ToSet
    <3>2. PICK m \in 1 .. (k - 1) : chosen[i] = candidates[order[m]]
      BY <3>1, Zenon DEF ChosenWell
    <3>3. chosen[i] \in C
      BY <3>1
    <3>4. key[c] <= key[candidates[order[m]]]
      BY <3>2
    <3>5. QED
      BY <3>1, <3>2, <3>3, <3>4, Zenon
  <2>2. QED
    BY <2>1
<1>3. 1 .. k = (1 .. (k - 1)) \cup {k}
  OBVIOUS
<1>4. /\ Len(chosen) <= n
      /\ \A i \in DOMAIN chosen : \E m \in 1 .. (k - 1) : chosen[i] = candidates[order[m]]
      /\ \A i, j \in DOMAIN chosen : i < j => ~ Clash(chosen[i], chosen[j]) /\ key[chosen[j]] <= key[chosen[i]]
      /\ \A m \in 1 .. (k - 1) :
           \/ candidates[order[m]] \in ToSet(chosen)
           \/ Len(chosen) = n /\ \A d \in ToSet(chosen) : key[candidates[order[m]]] <= key[d]
           \/ \E d \in ToSet(chosen) : key[candidates[order[m]]] <= key[d] /\ Clash(candidates[order[m]], d)
  BY Zenon DEF ChosenWell
<1>5. Len(chosen) \in Nat
  OBVIOUS
<1>6. CASE Len(chosen) >= n \/ \E d \in ToSet(chosen) : Clash(c, d)
  <2>1. more = chosen
    BY <1>6, Zenon DEF TopWith
  <2>2. \/ Len(chosen) = n /\ \A d \in ToSet(chosen) : key[c] <= key[d]
        \/ \E d \in ToSet(chosen) : key[c] <= key[d] /\ Clash(c, d)
    BY <1>2, <1>4, <1>5, <1>6
  <2>3. \A i \in DOMAIN chosen : \E m \in 1 .. k : chosen[i] = candidates[order[m]]
    BY <1>3, <1>4, Zenon
  <2>4. \A m \in 1 .. k :
           \/ candidates[order[m]] \in ToSet(chosen)
           \/ Len(chosen) = n /\ \A d \in ToSet(chosen) : key[candidates[order[m]]] <= key[d]
           \/ \E d \in ToSet(chosen) : key[candidates[order[m]]] <= key[d] /\ Clash(candidates[order[m]], d)
    <3>1. ASSUME NEW m \in 1 .. k, m \notin 1 .. (k - 1) PROVE m = k
      BY <1>3, <3>1
    <3>2. QED
      BY <1>4, <2>2, <3>1, Zenon
  <2>5. ChosenWell(chosen, k, candidates, order, n, key)
    BY <1>4, <2>3, <2>4, Zenon DEF ChosenWell
  <2>6. QED
    BY <2>1, <2>5
<1>7. CASE ~ (Len(chosen) >= n \/ \E d \in ToSet(chosen) : Clash(c, d))
  <2>1. more = Append(chosen, c)
    BY <1>7, Zenon DEF TopWith
  <2>2. Len(chosen) < n /\ \A d \in ToSet(chosen) : ~ Clash(c, d) /\ ~ Clash(d, c)
    <3>1. \A d : Clash(d, c) => Clash(c, d)
      BY Zenon DEF Clash
    <3>2. \A d \in ToSet(chosen) : ~ Clash(c, d) /\ ~ Clash(d, c)
      BY <1>7, <3>1, Zenon
    <3>3. Len(chosen) < n
      BY <1>5, <1>7
    <3>4. QED
      BY <3>2, <3>3
  <2> HIDE DEF c
  <2>3. /\ more \in Seq(C) /\ Len(more) = Len(chosen) + 1 /\ DOMAIN more = 1 .. Len(more)
        /\ DOMAIN chosen = 1 .. Len(chosen)
        /\ more[Len(more)] = c /\ \A i \in DOMAIN chosen : more[i] = chosen[i]
    BY <1>1, <2>1
  <2>4. \A i \in DOMAIN more : i \in DOMAIN chosen \/ i = Len(more)
    BY <1>5, <2>3
  <2>5. ToSet(more) = ToSet(chosen) \cup {c}
    <3>1. DOMAIN more = DOMAIN chosen \cup {Len(more)}
      BY <1>5, <2>3
    <3>2. ToSet(more) = {more[i] : i \in DOMAIN chosen} \cup {more[Len(more)]}
      BY <3>1 DEF ToSet
    <3>3. {more[i] : i \in DOMAIN chosen} = ToSet(chosen)
      BY <2>3 DEF ToSet
    <3>4. QED
      BY <2>3, <3>2, <3>3, Zenon
  <2>6. Len(more) <= n
    BY <1>5, <2>2, <2>3
  <2>7. \A i \in DOMAIN more : \E m \in 1 .. k : more[i] = candidates[order[m]]
    <3>1. ASSUME NEW i \in DOMAIN chosen PROVE \E m \in 1 .. k : more[i] = candidates[order[m]]
      <4>1. more[i] = chosen[i] /\ \E m \in 1 .. (k - 1) : chosen[i] = candidates[order[m]]
        BY <1>4, <2>3, Zenon
      <4>2. QED
        BY <1>3, <4>1, Zenon
    <3>2. more[Len(more)] = candidates[order[k]] /\ k \in 1 .. k
      BY <1>1, <2>3 DEF c
    <3>3. QED
      BY <2>4, <3>1, <3>2, Zenon
  <2>8. ASSUME NEW i \in DOMAIN more, NEW j \in DOMAIN more, i < j
        PROVE  ~ Clash(more[i], more[j]) /\ key[more[j]] <= key[more[i]]
    <3>1. i \in DOMAIN chosen
      BY <1>5, <2>3, <2>8
    <3>2. CASE j \in DOMAIN chosen
      BY <1>4, <2>3, <2>8, <3>1, <3>2
    <3>3. CASE j = Len(more)
      <4>1. more[i] = chosen[i] /\ more[j] = c /\ chosen[i] \in ToSet(chosen)
        BY <2>3, <3>1, <3>3 DEF ToSet
      <4>2. QED
        BY <1>2, <2>2, <4>1
    <3>4. QED
      BY <2>4, <3>2, <3>3
  <2>9. ASSUME NEW m \in 1 .. k
        PROVE  \/ candidates[order[m]] \in ToSet(more)
               \/ Len(more) = n /\ \A d \in ToSet(more) : key[candidates[order[m]]] <= key[d]
               \/ \E d \in ToSet(more) : key[candidates[order[m]]] <= key[d] /\ Clash(candidates[order[m]], d)
    <3>1. CASE m = k
      BY <2>5, <3>1 DEF c
    <3>2. CASE m \in 1 .. (k - 1)
      <4>1. \/ candidates[order[m]] \in ToSet(chosen)
            \/ \E d \in ToSet(chosen) : key[candidates[order[m]]] <= key[d] /\ Clash(candidates[order[m]], d)
        <5>1. Len(chosen) # n
          BY <1>5, <2>2
        <5>2. QED
          BY <1>4, <3>2, <5>1, Zenon
      <4>2. QED
        BY <2>5, <4>1
    <3>3. QED
      BY <1>3, <3>1, <3>2
  <2>10. ChosenWell(more, k, candidates, order, n, key)
    BY <2>6, <2>7, <2>8, <2>9, Zenon DEF ChosenWell
  <2>11. QED
    BY <2>3, <2>10
<1>8. QED
  BY <1>6, <1>7

\* For every list of candidates the best are chosen as select_diverse_top_n says: no two share a symbol
\* or a type, and whoever is left out is no better than one chosen that shares one of them with
\* it, or than n others.
THEOREM BestAreDiverse ==
  ASSUME NEW C, NEW candidates \in Seq(C), \A c \in C : c.sharpe \in Int,
         NEW n \in Nat, NEW prefer, NEW avoid
  PROVE  TopIsDiverse(candidates, n, prefer, avoid)
<1> DEFINE N == Len(candidates)
           order == BestFirst(candidates, prefer, avoid)
           key == [c \in C |-> AdjustedSharpe(c, prefer, avoid)]
           place == Standings(candidates, prefer, avoid)
           top == DiverseTop(candidates, n, prefer, avoid)
<1>1. N \in Nat /\ DOMAIN candidates = 1 .. N /\ \A i \in 1 .. N : candidates[i] \in C
  OBVIOUS
<1>2. key \in [C -> Int]
  BY DEF AdjustedSharpe
<1>3. place \in [1 .. N -> Int] /\ order \in [1 .. N -> 1 .. N] /\ Sorts(order, N, place)
  BY BestFirstSorts
<1>4. \A i \in 1 .. N : place[i] = key[candidates[i]]
  BY <1>1 DEF Standings
<1>5. ASSUME NEW c \in C, NEW d \in C
      PROVE  (AdjustedSharpe(c, prefer, avoid) <= AdjustedSharpe(d, prefer, avoid)) <=> key[c] <= key[d]
  OBVIOUS
<1> HIDE DEF place, key, order
<1>6. PICK tops : /\ tops[{}] = <<>>
                  /\ \A k \in 1 .. N : tops[1 .. k] = TopWith(tops[1 .. (k - 1)], candidates[order[k]], n)
                  /\ top = tops[1 .. N]
  <2>1. PICK tops : TakenUp(tops, candidates, n, prefer, avoid)
    BY <1>3, TopIsTaken DEF order
  <2>2. QED
    BY <2>1, Zenon DEF TakenUp, order
<1> HIDE DEF top, N
<1>7. ASSUME NEW k \in 1 .. N, NEW m \in 1 .. (k - 1)
      PROVE  key[candidates[order[k]]] <= key[candidates[order[m]]]
  <2>1. m \in 1 .. N /\ m < k
    BY <1>1
  <2>2. place[order[m]] \in Int /\ place[order[k]] \in Int
    BY <1>3, <2>1
  <2>3. place[order[m]] > place[order[k]] \/ place[order[m]] = place[order[k]]
    BY <1>3, <2>1, Zenon DEF Sorts
  <2>4. order[m] \in 1 .. N /\ order[k] \in 1 .. N
    BY <1>3, <2>1
  <2>5. QED
    BY <1>4, <2>2, <2>3, <2>4
<1> DEFINE P == {k \in 0 .. N : tops[1 .. k] \in Seq(C)
                                  /\ ChosenWell(tops[1 .. k], k, candidates, order, n, key)}
<1>8. 0 \in P
  <2>1. 1 .. 0 = {} /\ tops[1 .. 0] = <<>>
    BY <1>6
  <2>2. DOMAIN <<>> = {} /\ Len(<<>>) = 0 /\ <<>> \in Seq(C)
    OBVIOUS
  <2>3. ChosenWell(<<>>, 0, candidates, order, n, key)
    BY <2>1, <2>2 DEF ChosenWell
  <2>4. QED
    <3>1. 0 \in 0 .. N
      BY <1>1
    <3>2. QED
      BY <2>1, <2>2, <2>3, <3>1, Zenon
<1>9. ASSUME NEW k \in 1 .. N, k - 1 \in P PROVE k \in P
  <2>1. tops[1 .. (k - 1)] \in Seq(C) /\ ChosenWell(tops[1 .. (k - 1)], k - 1, candidates, order, n, key)
    BY <1>9, Zenon
  <2>2. tops[1 .. k] = TopWith(tops[1 .. (k - 1)], candidates[order[k]], n)
    BY <1>6
  <2>3. tops[1 .. k] \in Seq(C) /\ ChosenWell(tops[1 .. k], k, candidates, order, n, key)
    BY <1>2, <1>3, <1>7, <2>1, <2>2, TakenWell DEF N
  <2>4. QED
    BY <1>1, <2>3
<1>10. top \in Seq(C) /\ ChosenWell(top, N, candidates, order, n, key)
  <2>1. 0 .. N \subseteq P
    <3> HIDE DEF P
    <3>1. QED
      BY <1>1, <1>8, <1>9, InductionTo
  <2>2. N \in P
    <3> HIDE DEF P
    <3>1. QED
      BY <1>1, <2>1
  <2>3. QED
    BY <1>6, <2>2, Zenon
<1> HIDE DEF P
<1>11. \A i \in DOMAIN top : top[i] \in C
  BY <1>10
<1>12. Len(top) <= n
       /\ \A i, j \in DOMAIN top : i < j =>
            ~ Clash(top[i], top[j])
            /\ AdjustedSharpe(top[j], prefer, avoid) <= AdjustedSharpe(top[i], prefer, avoid)
  BY <1>5, <1>10, <1>11, Zenon DEF ChosenWell
<1>13. ASSUME NEW c \in ToSet(candidates) \ ToSet(top)
       PROVE  \/ Len(top) = n
                 /\ \A d \in ToSet(top) :
                      AdjustedSharpe(c, prefer, avoid) <= AdjustedSharpe(d, prefer, avoid)
              \/ \E d \in ToSet(top) :
                   AdjustedSharpe(c, prefer, avoid) <= AdjustedSharpe(d, prefer, avoid) /\ Clash(c, d)
  <2>1. PICK i \in 1 .. N : c = candidates[i]
    BY <1>1 DEF ToSet
  <2>2. PICK m \in 1 .. N : order[m] = i
    BY <1>1, <1>3, SortsAll
  <2>3. \/ Len(top) = n /\ \A d \in ToSet(top) : key[c] <= key[d]
        \/ \E d \in ToSet(top) : key[c] <= key[d] /\ Clash(c, d)
    BY <1>10, <1>13, <2>1, <2>2 DEF ChosenWell
  <2>4. c \in C /\ \A d \in ToSet(top) : d \in C
    BY <1>1, <1>11, <2>1 DEF ToSet
  <2>5. QED
    BY <1>5, <2>3, <2>4, Zenon
<1>14. QED
  BY <1>12, <1>13, Zenon DEF TopIsDiverse, top

\* For all it may read, advise puts no candidate first and last at once but on the Watchtower's
\* word, has more capital for every mission on the symbol of one put first, and more and less only
\* for a mission of several symbols.
THEOREM AdviceStaysConsistent ==
  ASSUME NEW candidates, NEW stats, NEW scopes, NEW advices, NEW prefer, NEW avoid,
         \A s \in DOMAIN stats : stats[s].trades \in Nat /\ stats[s].wins \in Nat
  PROVE  AdviceIsConsistent(candidates, stats, scopes, advices, prefer, avoid)
<1> DEFINE silent == [asset |-> "", class |-> "", regime |-> "", flags |-> {}, score |-> 0, fresh |-> FALSE]
           d == Decision(candidates, stats, scopes, advices, silent, "SIDEWAYS", prefer, avoid)
<1>1. /\ d.first = Confirmed(candidates, stats, advices) \cup WatchedFirst(candidates, silent, "SIDEWAYS")
      /\ d.last = Stagnant(candidates, stats, prefer, avoid)
                    \cup {c \in ToSet(candidates) : c.symbol \in Lowered(stats)}
                    \cup WatchedLast(candidates, silent)
      /\ d.more = MissionsOn(scopes, Raised(stats)) /\ d.less = MissionsOn(scopes, Lowered(stats))
  BY DEF Decision
<1>2. WatchedFirst(candidates, silent, "SIDEWAYS") = {} /\ WatchedLast(candidates, silent) = {}
  BY DEF WatchedFirst, WatchedLast
<1> HIDE DEF d, silent
<1>3. ASSUME NEW c \in Confirmed(candidates, stats, advices)
      PROVE  c.symbol \in DOMAIN stats /\ stats[c.symbol].trades >= 20 /\ WinsOver(stats[c.symbol], 60)
  <2>1. Trades(stats, c.symbol) >= 20 /\ WinsOver(stats[c.symbol], 60)
    BY <1>3 DEF Confirmed
  <2>2. QED
    BY <2>1 DEF Trades
<1>4. ASSUME NEW c \in Stagnant(candidates, stats, prefer, avoid) PROVE Trades(stats, c.symbol) = 0
  BY <1>4, Zenon DEF Stagnant
<1>5. ASSUME NEW s \in DOMAIN stats, s \in Lowered(stats), NEW rate \in {55, 60}, WinsOver(stats[s], rate)
      PROVE  FALSE
  <2>1. stats[s].trades \in Nat /\ stats[s].wins \in Nat /\ stats[s].trades >= 10
    BY <1>5 DEF Lowered
  <2>2. 100 * stats[s].wins < 30 * stats[s].trades /\ 100 * stats[s].wins > rate * stats[s].trades
    BY <1>5 DEF Lowered, WinsOver, WinsUnder
  <2>3. QED
    BY <2>1, <2>2
<1>6. d.first \cap d.last = {}
  <2>1. SUFFICES ASSUME NEW c \in d.first, c \in d.last PROVE FALSE
    OBVIOUS
  <2>2. c \in Confirmed(candidates, stats, advices)
    BY <1>1, <1>2, <2>1
  <2>3. c.symbol \in DOMAIN stats /\ stats[c.symbol].trades >= 20 /\ WinsOver(stats[c.symbol], 60)
    BY <1>3, <2>2
  <2>4. c \notin Stagnant(candidates, stats, prefer, avoid)
    BY <1>4, <2>3 DEF Trades
  <2>5. c.symbol \notin Lowered(stats)
    BY <1>5, <2>3
  <2>6. QED
    BY <1>1, <1>2, <2>1, <2>4, <2>5
<1>7. ASSUME NEW c \in d.first, NEW m \in DOMAIN scopes, c.symbol \in scopes[m] PROVE m \in d.more
  <2>1. c.symbol \in DOMAIN stats /\ stats[c.symbol].trades >= 20 /\ WinsOver(stats[c.symbol], 60)
    BY <1>1, <1>2, <1>3
  <2>2. stats[c.symbol].trades \in Nat /\ stats[c.symbol].wins \in Nat
    BY <2>1
  <2>3. stats[c.symbol].trades >= 10 /\ 100 * stats[c.symbol].wins > 55 * stats[c.symbol].trades
    BY <2>1, <2>2 DEF WinsOver
  <2>4. c.symbol \in Raised(stats)
    BY <2>1, <2>3 DEF Raised, WinsOver
  <2>5. QED
    BY <1>1, <1>7, <2>4 DEF MissionsOn
<1>8. ASSUME NEW m \in d.more \cap d.less PROVE \E s, t \in scopes[m] : s # t
  <2>1. PICK s \in scopes[m] : s \in Raised(stats)
    BY <1>1 DEF MissionsOn
  <2>2. PICK t \in scopes[m] : t \in Lowered(stats)
    BY <1>1 DEF MissionsOn
  <2>3. s # t
    BY <1>5, <2>1, <2>2 DEF Raised, Lowered
  <2>4. QED
    BY <2>3
<1>9. QED
  BY <1>6, <1>7, <1>8, Zenon DEF AdviceIsConsistent, d, silent
================================================================================
