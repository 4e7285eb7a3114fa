-------------------------- MODULE AntSupervision_proofs --------------------------
(* Theorems about ColonyScheduler, for every set of agents and every threshold;   *)
(* and about AntSupervision: it implements the scheduler with open ants, so what  *)
(* holds there holds here, punctual ants are not falsely aborted, and restarts    *)
(* keep to their budget.                                                          *)
EXTENDS AntSupervision, FiniteSetTheorems, SequenceTheorems, WellFoundedInduction, TLAPS

--------------------------------------------------------------------------------
(* The scheduler. *)

LEMMA SoonerBound ==
  ASSUME NEW limit \in Nat, NEW x \in 0 .. limit
  PROVE  Sooner(x, limit) \in 0 .. limit
BY DEF Sooner

LEMMA InitTyped == Init => TypeOK
BY SchedulerAssumption DEF Init, TypeOK, FreshRecord, AntStatus, StaleAge, TickThreads

\* Every step keeps the scheduler's records, locks, clocks and history well typed.
THEOREM TypeCorrect == Spec => []TypeOK
<1>1. Init => TypeOK
  BY InitTyped
<1>2. ASSUME TypeOK, [Next]_vars PROVE TypeOK'
  <2> USE <1>2, SchedulerAssumption DEF TypeOK, AntStatus, tickVars, clockVars, killVars
  <2>1. CASE LoopTurn
    BY <2>1 DEF LoopTurn, Goto, TickThreads
  <2>2. ASSUME NEW t \in TickThreads, TickStep(t) PROVE TypeOK'
    <3>1. CASE TickEnter(t)
      BY <3>1 DEF TickEnter, Goto
    <3>2. CASE TickAcquire(t)
      BY <3>2 DEF TickAcquire, Goto
    <3>3. CASE CheckHeartbeat(t)
      BY <3>3 DEF CheckHeartbeat, Visit
    <3>4. CASE EnforceTTL(t)
      BY <3>4 DEF EnforceTTL, Visit
    <3>5. CASE AbortDoomed(t)
      BY <3>5 DEF AbortDoomed, AbortAgent
    <3>6. CASE HeartbeatsChecked(t)
      BY <3>6 DEF HeartbeatsChecked, Goto
    <3>7. CASE TickComplete(t)
      BY <3>7 DEF TickComplete, Goto
    <3>8. CASE TickRelease(t)
      BY <3>8 DEF TickRelease, Goto
    <3>9. QED
      BY <2>2, <3>1, <3>2, <3>3, <3>4, <3>5, <3>6, <3>7, <3>8 DEF TickStep
  <2>3. CASE WatchdogStep
    BY <2>3 DEF WatchdogStep, WatchdogWake, WatchdogProbe, WatchdogUnprobe, WatchdogExit,
                Goto, TickThreads
  <2>4. CASE KillStep
    BY <2>4 DEF KillStep, NodeWalked, KillTarget, KillDone, AbortAgent
  <2>5. CASE Operator
    <3>1. CASE KillColony
      BY <3>1 DEF KillColony
    <3>2. ASSUME NEW a \in Agents, KillAgent(a) PROVE TypeOK'
      BY <3>2 DEF KillAgent, AbortAgent
    <3>3. ASSUME NEW n \in Nodes, KillNode(n) PROVE TypeOK'
      BY <3>3 DEF KillNode
    <3>4. QED
      BY <2>5, <3>1, <3>2, <3>3 DEF Operator
  <2>6. CASE AntCalls
    <3>1. ASSUME NEW a \in Agents, RegisterAgent(a) PROVE TypeOK'
      BY <3>1 DEF RegisterAgent, FreshRecord, StaleAge
    <3>2. ASSUME NEW a \in Agents, NEW reported \in {"running", "paused"},
                 NEW lag \in 0 .. MaxLag, RecordHeartbeat(a, reported, lag)
          PROVE  TypeOK'
      <4>1. /\ record[a] \in [status : AntStatus, age : 0 .. TTL, silence : 0 .. StaleAge]
            /\ lag \in 0 .. StaleAge
            /\ reported \in AntStatus
        BY <3>2 DEF StaleAge
      <4>2. record' \in [Agents -> [status : AntStatus, age : 0 .. TTL, silence : 0 .. StaleAge]]
        BY <3>2, <4>1 DEF RecordHeartbeat
      <4>3. QED
        BY <3>2, <4>2 DEF RecordHeartbeat
    <3>3. QED
      BY <2>6, <3>1, <3>2 DEF AntCalls
  <2>7. CASE Elapse
    <3>1. \A a \in Agents : /\ Sooner(record[a].age, TTL) \in 0 .. TTL
                            /\ Sooner(record[a].silence, StaleAge) \in 0 .. StaleAge
      BY SoonerBound DEF StaleAge
    <3>2. record' \in [Agents -> [status : AntStatus, age : 0 .. TTL, silence : 0 .. StaleAge]]
      BY <2>7, <3>1 DEF Elapse
    <3>3. /\ sinceTick' \in 0 .. WatchdogThreshold + 1
          /\ sinceRecovery' \in 0 .. WatchdogThreshold
      <4>1. WatchdogThreshold \in Nat /\ WatchdogThreshold + 1 \in Nat
        OBVIOUS
      <4>2. Sooner(sinceTick, WatchdogThreshold + 1) \in 0 .. WatchdogThreshold + 1
        BY <4>1, SoonerBound
      <4>3. Sooner(sinceRecovery, WatchdogThreshold) \in 0 .. WatchdogThreshold
        BY <4>1, SoonerBound
      <4>4. QED
        BY <2>7, <4>2, <4>3 DEF Elapse
    <3>4. QED
      BY <2>7, <3>2, <3>3 DEF Elapse
  <2>8. CASE UNCHANGED vars
    BY <2>8 DEF vars
  <2>9. QED
    BY <1>2, <2>1, <2>2, <2>3, <2>4, <2>5, <2>6, <2>7, <2>8 DEF Next, SchedulerStep
<1>3. QED
  BY <1>1, <1>2, PTL DEF Spec

--------------------------------------------------------------------------------
(* The lock serialises the ticks: whoever is past TickAcquire, and the       *)
(* watchdog between its probe and its tick, is the owner of the lock.        *)
HoldsLock(t) == InTick(t) \/ pc[t] = "probed"

LockInv == \A t \in TickThreads : HoldsLock(t) <=> lock = t

\* The loop and the watchdog are never in a tick together
\* (tick and _watchdog_recover_if_stale).
THEOREM TicksAreSerial == Spec => []OneTickAtATime
<1>1. Init => LockInv
  BY SchedulerAssumption DEF Init, LockInv, HoldsLock, InTick, TickThreads
<1>2. ASSUME TypeOK, LockInv, [Next]_vars PROVE LockInv'
  <2> USE <1>2, SchedulerAssumption
      DEF TypeOK, LockInv, HoldsLock, InTick, TickThreads, tickVars, clockVars, killVars, Goto
  <2>1. CASE LoopTurn
    BY <2>1 DEF LoopTurn
  <2>2. ASSUME NEW t \in TickThreads, TickStep(t) PROVE LockInv'
    <3>1. CASE TickEnter(t)
      BY <3>1 DEF TickEnter
    <3>2. CASE TickAcquire(t)
      BY <3>2 DEF TickAcquire
    <3>3. CASE CheckHeartbeat(t) \/ EnforceTTL(t)
      BY <3>3 DEF CheckHeartbeat, EnforceTTL, Visit
    <3>4. CASE AbortDoomed(t)
      BY <3>4 DEF AbortDoomed
    <3>5. CASE HeartbeatsChecked(t)
      BY <3>5 DEF HeartbeatsChecked, PhaseDone
    <3>6. CASE TickComplete(t)
      BY <3>6 DEF TickComplete, PhaseDone
    <3>7. CASE TickRelease(t)
      BY <3>7 DEF TickRelease
    <3>8. QED
      BY <2>2, <3>1, <3>2, <3>3, <3>4, <3>5, <3>6, <3>7 DEF TickStep
  <2>3. CASE WatchdogStep
    BY <2>3 DEF WatchdogStep, WatchdogWake, WatchdogProbe, WatchdogUnprobe, WatchdogExit
  <2>4. CASE KillStep \/ Operator
    BY <2>4 DEF KillStep, NodeWalked, KillTarget, KillDone,
                Operator, KillColony, KillAgent, KillNode
  <2>5. CASE AntCalls \/ Elapse
    BY <2>5 DEF AntCalls, RegisterAgent, RecordHeartbeat, Elapse
  <2>6. CASE UNCHANGED vars
    BY <2>6 DEF vars
  <2>7. QED
    BY <1>2, <2>1, <2>2, <2>3, <2>4, <2>5, <2>6 DEF Next, SchedulerStep
<1>3. LockInv => OneTickAtATime
  BY DEF LockInv, OneTickAtATime, HoldsLock
<1>4. QED
  BY <1>1, <1>2, <1>3, TypeCorrect, PTL DEF Spec

--------------------------------------------------------------------------------
(* What a colony kill reaches.  The property needs to know that a kill only  *)
(* sees agents that are registered (so that a registration cannot replace    *)
(* the record of one) and that no record is ever "completed": a heartbeat    *)
(* would otherwise overwrite that too.                                       *)
KillInv ==
  /\ \A a \in Agents : record[a].status # "completed"
  /\ condemned \subseteq agents
  /\ ColonyKillReachesAll

\* An agent that a colony kill saw and that is not aborted sent a heartbeat
\* after its abort (_kill_colony, record_heartbeat).
THEOREM ColonyKillIsThorough == Spec => []ColonyKillReachesAll
<1>1. Init => KillInv
  BY DEF Init, KillInv, ColonyKillReachesAll, Reached, FreshRecord
<1>2. ASSUME TypeOK, KillInv, [Next]_vars PROVE KillInv'
  <2> USE <1>2 DEF TypeOK, KillInv, ColonyKillReachesAll, Reached, tickVars, clockVars, killVars
  <2>1. CASE LoopTurn
    BY <2>1 DEF LoopTurn
  <2>2. ASSUME NEW t \in TickThreads, TickStep(t) PROVE KillInv'
    <3>1. CASE AbortDoomed(t)
      BY <3>1 DEF AbortDoomed, AbortAgent
    <3>2. CASE TickEnter(t) \/ TickAcquire(t) \/ CheckHeartbeat(t) \/ EnforceTTL(t)
      BY <3>2 DEF TickEnter, TickAcquire, CheckHeartbeat, EnforceTTL, Visit
    <3>3. CASE HeartbeatsChecked(t) \/ TickComplete(t) \/ TickRelease(t)
      BY <3>3 DEF HeartbeatsChecked, TickComplete, TickRelease
    <3>4. QED
      BY <2>2, <3>1, <3>2, <3>3 DEF TickStep
  <2>3. CASE WatchdogStep
    BY <2>3 DEF WatchdogStep, WatchdogWake, WatchdogProbe, WatchdogUnprobe, WatchdogExit
  <2>4. CASE KillStep
    <3>1. CASE NodeWalked
      BY <3>1 DEF NodeWalked
    <3>2. CASE KillTarget
      BY <3>2 DEF KillTarget, AbortAgent
    <3>3. CASE KillDone
      BY <3>3 DEF KillDone
    <3>4. QED
      BY <2>4, <3>1, <3>2, <3>3 DEF KillStep
  <2>5. CASE Operator
    <3>1. CASE KillColony
      BY <3>1 DEF KillColony
    <3>2. ASSUME NEW a \in Agents, KillAgent(a) PROVE KillInv'
      BY <3>2 DEF KillAgent, AbortAgent
    <3>3. ASSUME NEW n \in Nodes, KillNode(n) PROVE KillInv'
      BY <3>3 DEF KillNode
    <3>4. QED
      BY <2>5, <3>1, <3>2, <3>3 DEF Operator
  <2>6. CASE AntCalls
    <3>1. ASSUME NEW a \in Agents, RegisterAgent(a) PROVE KillInv'
      BY <3>1 DEF RegisterAgent, FreshRecord
    <3>2. ASSUME NEW a \in Agents, NEW reported \in {"running", "paused"},
                 NEW lag \in 0 .. MaxLag, RecordHeartbeat(a, reported, lag)
          PROVE  KillInv'
      BY <3>2 DEF RecordHeartbeat
    <3>3. QED
      BY <2>6, <3>1, <3>2 DEF AntCalls
  <2>7. CASE Elapse
    BY <2>7 DEF Elapse
  <2>8. CASE UNCHANGED vars
    BY <2>8 DEF vars
  <2>9. QED
    BY <1>2, <2>1, <2>2, <2>3, <2>4, <2>5, <2>6, <2>7, <2>8 DEF Next, SchedulerStep
<1>3. QED
  BY <1>1, <1>2, TypeCorrect, PTL DEF Spec, KillInv

--------------------------------------------------------------------------------
(* The ants and their supervisors. *)

WaitedOK == waited \in [Agents -> 0 .. StaleAge]

LEMMA StaleAgeNat == StaleAge \in Nat
BY SchedulerAssumption DEF StaleAge

LEMMA WaitedStep ==
  ASSUME WaitedOK, [SupNext]_allVars
  PROVE  WaitedOK'
<1> USE StaleAgeNat DEF WaitedOK, antVars
<1>1. CASE ColonyStep(SchedulerStep) \/ ColonyStep(KillStep) \/ ColonyStep(Operator)
  BY <1>1 DEF ColonyStep
<1>2. ASSUME NEW s \in Slots, Supervise(s) PROVE WaitedOK'
  BY <1>2 DEF Supervise, SuperviseStart, SuperviseFail, SuperviseGiveUp, SuperviseReturn
<1>3. ASSUME NEW a \in Agents, AntStep(a) \/ AntFail(a) PROVE WaitedOK'
  BY <1>3 DEF AntStep, AntExpire, AntFail, AntEnd, AntLastWord, BeatWake, BeatReport
<1>4. CASE SupElapse
  <2>1. \A a \in Agents : Sooner(waited[a], StaleAge) \in 0 .. StaleAge
    BY SoonerBound
  <2>2. QED
    BY <1>4, <2>1 DEF SupElapse
<1>5. CASE UNCHANGED allVars
  BY <1>5 DEF allVars
<1>6. QED
  BY <1>1, <1>2, <1>3, <1>4, <1>5 DEF SupNext, AntsNext

\* Every step of the ants and their supervisors is, to the scheduler, one of the
\* calls it is open to, or nothing.
LEMMA SupervisionStep ==
  ASSUME WaitedOK, [SupNext]_allVars
  PROVE  [Next]_vars
<1>1. CASE ColonyStep(SchedulerStep) \/ ColonyStep(KillStep) \/ ColonyStep(Operator)
  BY <1>1 DEF ColonyStep, Next
<1>2. ASSUME NEW s \in Slots, Supervise(s) PROVE [Next]_vars
  <2>1. CASE SuperviseStart(s)
    BY <2>1 DEF SuperviseStart, Next, AntCalls
  <2>2. CASE SuperviseFail(s) \/ SuperviseGiveUp(s) \/ SuperviseReturn(s)
    BY <2>2 DEF SuperviseFail, SuperviseGiveUp, SuperviseReturn, schedulerVars
  <2>3. QED
    BY <1>2, <2>1, <2>2 DEF Supervise
<1>3. ASSUME NEW a \in Agents, AntStep(a) \/ AntFail(a) PROVE [Next]_vars
  <2>1. CASE AntExpire(a) \/ AntFail(a) \/ BeatWake(a)
    BY <2>1 DEF AntExpire, AntFail, AntEnd, BeatWake, schedulerVars
  <2>2. CASE AntLastWord(a)
    <3>1. RecordHeartbeat(a, "paused", 0) /\ 0 \in 0 .. MaxLag
      BY <2>2, SupervisionAssumption, StaleAgeNat DEF AntLastWord
    <3>2. QED
      BY <3>1 DEF Next, AntCalls
  <2>3. CASE BeatReport(a)
    <3>1. RecordHeartbeat(a, "running", waited[a]) /\ waited[a] \in 0 .. MaxLag
      BY <2>3, SupervisionAssumption DEF BeatReport, WaitedOK
    <3>2. QED
      BY <3>1 DEF Next, AntCalls
  <2>4. QED
    BY <1>3, <2>1, <2>2, <2>3 DEF AntStep
<1>4. CASE SupElapse
  BY <1>4 DEF SupElapse, Next
<1>5. CASE UNCHANGED allVars
  BY <1>5 DEF allVars, schedulerVars
<1>6. QED
  BY <1>1, <1>2, <1>3, <1>4, <1>5 DEF SupNext, AntsNext

LEMMA WaitedInit == SupInit => WaitedOK
BY StaleAgeNat DEF SupInit, WaitedOK

\* The colony with its ants implements the scheduler whose ants are left open
\* (_start_supervised_ant and HeartbeatThread against ColonyScheduler).
THEOREM SupervisionImplementsScheduler == SupSpec => Spec
<1>1. SupInit => Init
  BY DEF SupInit
<1>2. QED
  BY <1>1, WaitedInit, WaitedStep, SupervisionStep, PTL DEF SupSpec, Spec

\* So the serial ticks and the reach of a colony kill carry over.
THEOREM SupervisedKillIsThorough == SupSpec => [](OneTickAtATime /\ ColonyKillReachesAll)
BY SupervisionImplementsScheduler, TicksAreSerial, ColonyKillIsThorough, PTL

--------------------------------------------------------------------------------
(* No false abort.  An ant at work is registered and has a thread that waits *)
(* or reports; the silence the scheduler sees is bounded by how long that    *)
(* thread is at it, and whatever a tick has found due for an abort and is at *)
(* work has expired.                                                         *)

ThreadsOK ==
  /\ TypeOK
  /\ ant \in [Agents -> {"unmade", "running", "joining", "returned"}]
  /\ beat \in [Agents -> {"off", "waiting", "reporting", "stopped"}]
  /\ WaitedOK

Heard(a) ==
  \/ /\ beat[a] = "waiting"
     /\ waited[a] <= HeartbeatInterval + WakeSlack
     /\ record[a].silence <= waited[a] + ReportSlack
  \/ /\ beat[a] = "reporting"
     /\ waited[a] <= ReportSlack
     /\ record[a].silence <= waited[a] + HeartbeatInterval + WakeSlack + ReportSlack

PunctualInv ==
  /\ \A t \in TickThreads : doomed[t] \subseteq agents
  /\ \A t \in TickThreads : \A a \in doomed[t] : ant[a] = "running" => IsExpired(a)
  /\ \A a \in Agents : ant[a] = "running" => a \in agents /\ Heard(a)
  /\ NoFalseAbort

\* What is heard in time is not stale: two late deliveries and a late wake fit
\* into the second interval.
LEMMA HeardIsFresh ==
  ASSUME ThreadsOK, NEW a \in Agents, Heard(a)
  PROVE  ~IsStale(a)
BY SchedulerAssumption, SupervisionAssumption
   DEF ThreadsOK, TypeOK, WaitedOK, Heard, IsStale, StaleAge

LEMMA PunctualSchedulerStep ==
  ASSUME ThreadsOK, PunctualInv, SchedulerStep, UNCHANGED antVars
  PROVE  PunctualInv'
<1> USE DEF ThreadsOK, PunctualInv, NoFalseAbort, antVars, Heard, IsExpired,
            tickVars, clockVars, killVars
<1>1. CASE LoopTurn
  BY <1>1 DEF LoopTurn
<1>2. ASSUME NEW t \in TickThreads, TickStep(t) PROVE PunctualInv'
  <2>1. CASE TickEnter(t) \/ TickAcquire(t) \/ HeartbeatsChecked(t)
             \/ TickComplete(t) \/ TickRelease(t)
    BY <2>1 DEF TickEnter, TickAcquire, HeartbeatsChecked, TickComplete, TickRelease
  <2>2. CASE CheckHeartbeat(t)
    <3>1. \A a \in Agents : ant[a] = "running" => ~IsStale(a)
      BY HeardIsFresh
    <3>2. \A a \in doomed'[t] : a \in agents /\ IsStale(a)
      BY <2>2 DEF CheckHeartbeat, Visit, TypeOK
    <3>3. \A a \in doomed'[t] : a \in agents /\ ant[a] # "running"
      BY <3>1, <3>2 DEF TypeOK
    <3>4. QED
      BY <2>2, <3>3 DEF CheckHeartbeat, Visit, TypeOK
  <2>3. CASE EnforceTTL(t)
    BY <2>3 DEF EnforceTTL, Visit, TypeOK
  <2>4. CASE AbortDoomed(t)
    <3>1. PICK a \in doomed[t] : AbortAgent(a)
      BY <2>4 DEF AbortDoomed
    <3>2. \A b \in Agents : /\ record'[b].age = record[b].age
                            /\ record'[b].silence = record[b].silence
                            /\ b # a => record'[b] = record[b]
      BY <3>1 DEF AbortAgent, TypeOK
    <3>3. ant[a] = "running" => IsExpired(a)
      BY <3>1
    <3>4. doomed' = [doomed EXCEPT ![t] = {}] /\ agents' = agents
      BY <2>4 DEF AbortDoomed
    <3>5. QED
      BY <3>2, <3>3, <3>4 DEF TypeOK
  <2>5. QED
    BY <1>2, <2>1, <2>2, <2>3, <2>4 DEF TickStep
<1>3. CASE WatchdogStep
  BY <1>3 DEF WatchdogStep, WatchdogWake, WatchdogProbe, WatchdogUnprobe, WatchdogExit
<1>4. QED
  BY <1>1, <1>2, <1>3 DEF SchedulerStep

LEMMA PunctualElapse ==
  ASSUME ThreadsOK, PunctualInv, Punctual, SupElapse
  PROVE  PunctualInv'
<1>1. /\ HeartbeatInterval \in Nat /\ WakeSlack \in Nat /\ ReportSlack \in Nat /\ TTL \in Nat
      /\ WakeSlack + 2 * ReportSlack <= HeartbeatInterval
  BY SchedulerAssumption, SupervisionAssumption
<1>2. ASSUME NEW a \in Agents
      PROVE  /\ record[a].age \in 0 .. TTL
             /\ record[a].silence \in 0 .. StaleAge
             /\ waited[a] \in 0 .. StaleAge
             /\ a \in agents => /\ record'[a].age = Sooner(record[a].age, TTL)
                               /\ record'[a].silence = Sooner(record[a].silence, StaleAge)
             /\ record'[a].status = record[a].status
             /\ a \notin agents => record'[a] = record[a]
             /\ beat[a] \in {"waiting", "reporting"} => waited'[a] = Sooner(waited[a], StaleAge)
  BY DEF ThreadsOK, TypeOK, WaitedOK, SupElapse, Elapse
<1>3. agents' = agents /\ doomed' = doomed /\ ant' = ant /\ beat' = beat
  BY DEF SupElapse, Elapse, tickVars
<1>4. ASSUME NEW a \in Agents, IsExpired(a) PROVE IsExpired(a)'
  <2>1. a \in agents => record'[a].age >= record[a].age
    BY <1>1, <1>2 DEF Sooner
  <2>2. record'[a].age >= TTL
    BY <1>1, <1>2, <1>4, <2>1 DEF IsExpired
  <2>3. QED
    BY <2>2 DEF IsExpired
<1>5. ASSUME NEW a \in Agents, ant[a] = "running" PROVE Heard(a)'
  <2>1. a \in agents /\ Heard(a)
    BY <1>5 DEF PunctualInv
  <2>2. record'[a].silence <= record[a].silence + 1
    BY <1>2, <2>1, StaleAgeNat DEF Sooner
  <2>3. waited[a] < StaleAge /\ beat[a] \in {"waiting", "reporting"}
    BY <1>1, <1>2, <2>1 DEF Heard, StaleAge
  <2>4. waited'[a] = waited[a] + 1
    BY <1>2, <2>3 DEF Sooner
  <2>5. record'[a].silence \in Nat
    BY <1>2, <2>1, StaleAgeNat DEF Sooner
  <2>6. CASE beat[a] = "waiting"
    BY <1>1, <1>2, <1>3, <2>1, <2>2, <2>4, <2>5, <2>6 DEF Heard, Punctual
  <2>7. CASE beat[a] = "reporting"
    BY <1>1, <1>2, <1>3, <2>1, <2>2, <2>4, <2>5, <2>7 DEF Heard, Punctual
  <2>8. QED
    BY <2>3, <2>6, <2>7
<1>6. NoFalseAbort'
  BY <1>2, <1>3, <1>4 DEF NoFalseAbort, PunctualInv
<1>7. \A t \in TickThreads : doomed[t] \subseteq Agents
  BY DEF ThreadsOK, TypeOK
<1>8. QED
  BY <1>3, <1>4, <1>5, <1>6, <1>7 DEF PunctualInv

LEMMA PunctualStep ==
  ASSUME ThreadsOK, PunctualInv, [PunctualNext]_allVars
  PROVE  PunctualInv'
<1> USE SchedulerAssumption, SupervisionAssumption
<1>1. CASE ColonyStep(SchedulerStep)
  BY <1>1, PunctualSchedulerStep DEF ColonyStep
<1>2. ASSUME NEW s \in Slots, Supervise(s) PROVE PunctualInv'
  <2>1. CASE SuperviseStart(s)
    <3> USE DEF ThreadsOK, PunctualInv, TypeOK, WaitedOK, tickVars
    <3>1. PICK a \in Agents :
            /\ RegisterAgent(a)
            /\ ant' = [ant EXCEPT ![a] = "running"]
            /\ beat' = [beat EXCEPT ![a] = "waiting"]
            /\ waited' = [waited EXCEPT ![a] = 0]
      BY <2>1 DEF SuperviseStart
    <3>2. Heard(a)' /\ a \in agents'
      BY <3>1 DEF RegisterAgent, FreshRecord, Heard
    <3>3. \A b \in Agents \ {a} : Heard(b) => Heard(b)'
      BY <3>1 DEF RegisterAgent, Heard
    <3>4. \A t \in TickThreads : a \notin doomed[t]
      BY <3>1 DEF RegisterAgent
    <3>5. \A b \in Agents \ {a} : IsExpired(b)' <=> IsExpired(b)
      BY <3>1 DEF RegisterAgent, IsExpired
    <3>6. NoFalseAbort'
      BY <3>1, <3>5 DEF NoFalseAbort, RegisterAgent, FreshRecord
    <3>7. doomed' = doomed /\ agents' = agents \cup {a}
      BY <3>1 DEF RegisterAgent
    <3>8. QED
      BY <3>1, <3>2, <3>3, <3>4, <3>5, <3>6, <3>7
  <2>2. CASE SuperviseFail(s) \/ SuperviseGiveUp(s) \/ SuperviseReturn(s)
    BY <2>2 DEF SuperviseFail, SuperviseGiveUp, SuperviseReturn, schedulerVars, vars, antVars,
                tickVars, PunctualInv, NoFalseAbort, Heard, IsExpired
  <2>3. QED
    BY <1>2, <2>1, <2>2 DEF Supervise
<1>3. ASSUME NEW a \in Agents, AntStep(a) \/ AntFail(a) PROVE PunctualInv'
  <2> USE DEF ThreadsOK, PunctualInv, NoFalseAbort, TypeOK, WaitedOK, Heard, IsExpired,
              schedulerVars, vars, tickVars
  <2>1. CASE AntExpire(a) \/ AntFail(a)
    BY <2>1 DEF AntExpire, AntFail, AntEnd
  <2>2. CASE AntLastWord(a)
    BY <2>2 DEF AntLastWord, RecordHeartbeat
  <2>3. CASE BeatWake(a)
    BY <2>3 DEF BeatWake
  <2>4. CASE BeatReport(a)
    BY <2>4 DEF BeatReport, RecordHeartbeat
  <2>5. QED
    BY <1>3, <2>1, <2>2, <2>3, <2>4 DEF AntStep
<1>4. CASE Punctual /\ SupElapse
  BY <1>4, PunctualElapse
<1>5. CASE UNCHANGED allVars
  BY <1>5 DEF allVars, schedulerVars, vars, antVars, tickVars,
              PunctualInv, NoFalseAbort, Heard, IsExpired
<1>6. QED
  BY <1>1, <1>2, <1>3, <1>4, <1>5 DEF PunctualNext, AntsNext

LEMMA ThreadsOKStep ==
  ASSUME ThreadsOK, TypeOK', [PunctualNext]_allVars
  PROVE  ThreadsOK'
<1>1. [SupNext]_allVars
  BY DEF PunctualNext, SupNext
<1>2. WaitedOK'
  BY <1>1, WaitedStep DEF ThreadsOK
<1> USE DEF ThreadsOK, antVars
<1>3. CASE ColonyStep(SchedulerStep) \/ SupElapse \/ UNCHANGED allVars
  BY <1>2, <1>3 DEF ColonyStep, SupElapse, allVars
<1>4. ASSUME NEW s \in Slots, Supervise(s) PROVE ThreadsOK'
  BY <1>2, <1>4 DEF Supervise, SuperviseStart, SuperviseFail, SuperviseGiveUp, SuperviseReturn
<1>5. ASSUME NEW a \in Agents, AntStep(a) \/ AntFail(a) PROVE ThreadsOK'
  BY <1>2, <1>5 DEF AntStep, AntExpire, AntFail, AntEnd, AntLastWord, BeatWake, BeatReport
<1>6. QED
  BY <1>3, <1>4, <1>5 DEF PunctualNext, AntsNext

\* While its threads are punctual an ant at work is aborted for its TTL only,
\* never for its silence (_check_heartbeats against HeartbeatThread.run).
THEOREM PunctualAntsAreSafe == PunctualSpec => []NoFalseAbort
<1>1. SupInit => ThreadsOK /\ PunctualInv
  <2> SUFFICES ASSUME SupInit PROVE ThreadsOK /\ PunctualInv
    OBVIOUS
  <2>1. TypeOK
    BY InitTyped DEF SupInit
  <2>2. \A a \in Agents : ant[a] = "unmade"
    BY DEF SupInit
  <2>3. ThreadsOK
    BY <2>1, WaitedInit DEF ThreadsOK, SupInit
  <2>4. \A t \in TickThreads : doomed[t] = {}
    BY DEF SupInit, Init
  <2>5. QED
    BY <2>2, <2>3, <2>4 DEF PunctualInv, NoFalseAbort
<1>2. [PunctualNext]_allVars => [SupNext]_allVars
  BY DEF PunctualNext, SupNext
<1>3. PunctualSpec => SupSpec
  BY <1>2, PTL DEF PunctualSpec, SupSpec
<1>4. PunctualSpec => []TypeOK
  BY <1>3, SupervisionImplementsScheduler, TypeCorrect, PTL
<1>5. ThreadsOK /\ PunctualInv /\ TypeOK' /\ [PunctualNext]_allVars => (ThreadsOK /\ PunctualInv)'
  BY ThreadsOKStep, PunctualStep
<1>6. PunctualInv => NoFalseAbort
  BY DEF PunctualInv
<1>7. QED
  BY <1>1, <1>4, <1>5, <1>6, PTL DEF PunctualSpec

--------------------------------------------------------------------------------
(* Restarts. *)

LessNat == {pair \in Nat \X Nat : pair[1] < pair[2]}

\* A set of natural numbers has a least one.
LEMMA LeastNat ==
  ASSUME NEW S, S \subseteq Nat, S # {}
  PROVE  \E x \in S : \A y \in S : x <= y
<1>1. IsWellFoundedOn(LessNat, Nat)
  BY NatLessThanWellFounded, Zenon DEF OpToRel, LessNat
<1>2. PICK x \in S : \A y \in S : ~ (<<y, x>> \in LessNat)
  BY <1>1, WFMin, Zenon
<1>3. \A y \in S : y \in Nat /\ x \in Nat /\ (y < x => <<y, x>> \in LessNat)
  BY DEF LessNat
<1>4. \A y \in S : ~ (y < x)
  BY <1>2, <1>3, Zenon
<1> QED BY <1>3, <1>4

\* Never more restarts are remembered than may be made.
BudgetInv ==
  \A s \in Slots : restarts[s] \in Seq(Nat) /\ Len(restarts[s]) <= MaxRestarts

\* What is left after the old ones at the head are dropped is there, and is no more.
LEMMA RecentAreFewer ==
  ASSUME NEW s, restarts[s] \in Seq(Nat)
  PROVE  /\ RecentRestarts(s) \in Seq(Nat)
         /\ Len(RecentRestarts(s)) \in Nat /\ Len(RecentRestarts(s)) <= Len(restarts[s])
<1> DEFINE times == restarts[s]
           IsCut(k) == /\ \A i \in 1 .. k : times[i] > Window
                       /\ k < Len(times) => times[k + 1] <= Window
           Ends == {k \in Nat : k = Len(times) \/ (k < Len(times) /\ times[k + 1] <= Window)}
           old == CHOOSE k \in 0 .. Len(times) : IsCut(k)
<1>0. Len(times) \in Nat /\ Window \in Nat /\ \A i \in 1 .. Len(times) : times[i] \in Nat
  BY SupervisionAssumption
<1>1. PICK k \in Ends : \A j \in Ends : k <= j
  <2>1. Len(times) \in Ends /\ Ends \subseteq Nat
    BY <1>0
  <2> HIDE DEF Ends
  <2> QED BY <2>1, LeastNat
<1>2. k \in 0 .. Len(times)
  BY <1>0, <1>1
<1>3. \A i \in 1 .. k : times[i] > Window
  <2>1. SUFFICES ASSUME NEW i \in 1 .. k, ~ (times[i] > Window) PROVE FALSE
    OBVIOUS
  <2>2. i - 1 \in Ends
    BY <1>0, <1>2, <2>1
  <2> QED BY <1>1, <1>2, <2>1, <2>2
<1>4. IsCut(k)
  BY <1>0, <1>1, <1>3
<1> HIDE DEF IsCut
<1>5. old \in 0 .. Len(times)
  BY <1>2, <1>4, Zenon
<1>6. RecentRestarts(s) = SubSeq(times, old + 1, Len(times))
  BY DEF RecentRestarts, IsCut
<1> HIDE DEF old, times
<1>7. /\ SubSeq(times, old + 1, Len(times)) \in Seq(Nat)
      /\ Len(SubSeq(times, old + 1, Len(times))) = Len(times) - old
  BY <1>0, <1>5, SubSeqProperties DEF times
<1> QED BY <1>0, <1>5, <1>6, <1>7 DEF times

\* A restart is counted only where there was room for it.
LEMMA CountedIsAllowed ==
  ASSUME BudgetInv, NEW s \in Slots, MayStart(s), CountRestart(s)
  PROVE  BudgetInv'
<1> USE SupervisionAssumption
<1>1. restarts[s] \in Seq(Nat) /\ Len(restarts[s]) <= MaxRestarts
  BY DEF BudgetInv
<1>2. CASE begun[s]
  <2> DEFINE kept == RecentRestarts(s)
  <2>1. kept \in Seq(Nat) /\ Len(kept) \in Nat /\ Len(kept) < MaxRestarts
    BY <1>1, <1>2, RecentAreFewer DEF MayStart
  <2>2. restarts' = [restarts EXCEPT ![s] = Append(kept, 0)]
    BY <1>2 DEF CountRestart
  <2> HIDE DEF kept
  <2>3. Append(kept, 0) \in Seq(Nat) /\ Len(Append(kept, 0)) <= MaxRestarts
    BY <2>1, AppendProperties
  <2> QED BY <2>2, <2>3 DEF BudgetInv
<1>3. CASE ~ begun[s]
  BY <1>1, <1>3 DEF CountRestart, BudgetInv
<1> QED BY <1>2, <1>3

\* Every step keeps what is remembered within the budget.
LEMMA BudgetStep ==
  ASSUME BudgetInv, [SupNext \/ PunctualNext]_allVars
  PROVE  BudgetInv'
<1>1. ASSUME UNCHANGED restarts PROVE BudgetInv'
  BY <1>1 DEF BudgetInv
<1>2. ASSUME NEW s \in Slots, Supervise(s) PROVE BudgetInv'
  <2>1. CASE SuperviseStart(s) \/ SuperviseFail(s)
    BY <2>1, CountedIsAllowed DEF SuperviseStart, SuperviseFail
  <2>2. CASE SuperviseGiveUp(s)
    <3>1. restarts[s] \in Seq(Nat) /\ Len(restarts[s]) <= MaxRestarts
      BY DEF BudgetInv
    <3>2. restarts' = [restarts EXCEPT ![s] = RecentRestarts(s)]
      BY <2>2 DEF SuperviseGiveUp
    <3>3. RecentRestarts(s) \in Seq(Nat) /\ Len(RecentRestarts(s)) <= MaxRestarts
      BY <3>1, RecentAreFewer, SupervisionAssumption
    <3> QED BY <3>2, <3>3 DEF BudgetInv
  <2>3. CASE SuperviseReturn(s)
    BY <2>3, <1>1 DEF SuperviseReturn
  <2> QED BY <1>2, <2>1, <2>2, <2>3 DEF Supervise
<1>3. CASE SupElapse
  <2>1. ASSUME NEW s \in Slots PROVE restarts'[s] \in Seq(Nat) /\ Len(restarts'[s]) <= MaxRestarts
    <3> DEFINE times == restarts[s]
               aged  == [i \in DOMAIN times |-> Sooner(times[i], Window + 1)]
    <3>1. times \in Seq(Nat) /\ Len(times) <= MaxRestarts
      BY DEF BudgetInv
    <3>2. Len(times) \in Nat /\ DOMAIN times = 1 .. Len(times) /\ \A i \in DOMAIN times : times[i] \in Nat
      BY <3>1
    <3>3. \A i \in DOMAIN times : Sooner(times[i], Window + 1) \in Nat
      BY <3>2, SupervisionAssumption DEF Sooner
    <3>4. restarts'[s] = aged
      BY <1>3 DEF SupElapse
    <3> HIDE DEF times
    <3>5. aged \in Seq(Nat) /\ Len(aged) = Len(times)
      <4>1. aged \in [1 .. Len(times) -> Nat]
        BY <3>2, <3>3
      <4> HIDE DEF aged
      <4> QED BY <3>2, <4>1, SeqDef, LenProperties
    <3> QED BY <3>1, <3>4, <3>5
  <2> QED BY <2>1 DEF BudgetInv
<1>4. CASE ColonyStep(SchedulerStep) \/ ColonyStep(KillStep) \/ ColonyStep(Operator)
  BY <1>4, <1>1 DEF ColonyStep, supVars
<1>5. ASSUME NEW a \in Agents, AntStep(a) \/ AntFail(a) PROVE BudgetInv'
  BY <1>5, <1>1 DEF AntStep, AntFail, AntExpire, AntEnd, AntLastWord, BeatWake, BeatReport, supVars
<1>6. CASE UNCHANGED allVars
  BY <1>6, <1>1 DEF allVars, supVars
<1> QED BY <1>2, <1>3, <1>4, <1>5, <1>6 DEF SupNext, PunctualNext, AntsNext

\* No supervisor ever makes more than MaxRestarts restarts in a window of time
\* (_start_supervised_ant), whatever its ants and the rest of the colony do.
THEOREM RestartsAreBudgeted == (SupSpec => []RestartBudget) /\ (PunctualSpec => []RestartBudget)
<1>1. SupInit => BudgetInv
  BY SupervisionAssumption, EmptySeq DEF SupInit, BudgetInv
<1>2. BudgetInv => RestartBudget
  <2> SUFFICES ASSUME BudgetInv, NEW s \in Slots
               PROVE  Cardinality({i \in DOMAIN restarts[s] : restarts[s][i] <= Window}) <= MaxRestarts
    BY DEF RestartBudget
  <2> DEFINE recent == {i \in DOMAIN restarts[s] : restarts[s][i] <= Window}
  <2>1. restarts[s] \in Seq(Nat) /\ Len(restarts[s]) <= MaxRestarts /\ Len(restarts[s]) \in Nat
    BY DEF BudgetInv
  <2>2. recent \subseteq 1 .. Len(restarts[s])
    BY <2>1
  <2>3. IsFiniteSet(1 .. Len(restarts[s])) /\ Cardinality(1 .. Len(restarts[s])) = Len(restarts[s])
    BY <2>1, FS_Interval
  <2> HIDE DEF recent
  <2>4. Cardinality(recent) \in Nat /\ Cardinality(recent) <= Len(restarts[s])
    BY <2>2, <2>3, FS_Subset, FS_CardinalityType
  <2> QED BY <2>1, <2>4, SupervisionAssumption DEF recent
<1>3. BudgetInv /\ [SupNext]_allVars => BudgetInv'
  BY BudgetStep
<1>4. BudgetInv /\ [PunctualNext]_allVars => BudgetInv'
  BY BudgetStep
<1> QED BY <1>1, <1>2, <1>3, <1>4, PTL DEF SupSpec, PunctualSpec
================================================================================
