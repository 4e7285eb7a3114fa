---------------------------- MODULE AntSupervision ----------------------------
(***************************************************************************)
(* The ants and their supervisors on top of the scheduler                  *)
(* (scripts/start_colony.py _start_supervised_ant, ants/_heartbeat.py and  *)
(* the run method every ant shares).                                       *)
(*                                                                         *)
(* A supervisor makes an ant under a fresh id, registers it and runs it to *)
(* its end, then does so again, at most MaxRestarts times per Window.  A   *)
(* running ant has a thread that reports to the scheduler every interval;  *)
(* the ant stops it, waits for it no longer than a timeout, and reports    *)
(* once more itself.  Nothing here reads the scheduler's verdicts: the     *)
(* colony is started without an agent_stopper.                             *)
(***************************************************************************)
EXTENDS ColonyScheduler, Sequences

CONSTANTS
  Slots,         \* the supervised ants of the bootstrap, by label
  MaxRestarts,   \* _MAX_RESTARTS_PER_HOUR
  Window,        \* the hour, in units of time
  WakeSlack,     \* how late a punctual thread wakes from its wait
  ReportSlack    \* how long a punctual thread takes to deliver a report

ASSUME SupervisionAssumption ==
  /\ MaxRestarts \in Nat \ {0} /\ Window \in Nat \ {0}
  /\ MaxLag = StaleAge
  /\ WakeSlack \in Nat /\ ReportSlack \in Nat
  /\ WakeSlack + 2 * ReportSlack <= HeartbeatInterval

VARIABLES
  sup,       \* sup[s]: where the supervisor of s is
  current,   \* current[s]: the ant it runs
  begun,     \* begun[s]: whether restart_count > 0
  restarts,  \* restarts[s]: ages of the restarts in restart_times
  ant,       \* ant[a]: where the thread of a is
  beat,      \* beat[a]: where its HeartbeatThread is
  waited     \* waited[a]: how long that thread has waited, or its report is on its way

supVars == <<sup, current, begun, restarts>>
antVars == <<ant, beat, waited>>
schedulerVars == vars
allVars == <<schedulerVars, supVars, antVars>>

SupInit ==
  /\ Init
  /\ sup = [s \in Slots |-> "starting"]
  /\ current = [s \in Slots |-> None]
  /\ begun = [s \in Slots |-> FALSE]
  /\ restarts = [s \in Slots |-> <<>>]
  /\ ant = [a \in Agents |-> "unmade"]
  /\ beat = [a \in Agents |-> "off"]
  /\ waited = [a \in Agents |-> 0]

--------------------------------------------------------------------------------
(* The supervisor loop. *)

\* Those at the head that are out of the window are dropped.
RecentRestarts(s) ==
  LET times == restarts[s]
      old   == CHOOSE k \in 0 .. Len(times) :
                 /\ \A i \in 1 .. k : times[i] > Window
                 /\ k < Len(times) => times[k + 1] <= Window
  IN SubSeq(times, old + 1, Len(times))

\* Mutant: the restart is counted without a look at those before it.
MayStart_Always(s) == ~begun[s] \/ Len(restarts[s]) >= 0

\* A first start is free; a restart is counted, and refused once the window is full.
MayStart(s) == ~begun[s] \/ Len(RecentRestarts(s)) < MaxRestarts

CountRestart(s) ==
  restarts' = [restarts EXCEPT ![s] = IF begun[s] THEN Append(RecentRestarts(s), 0) ELSE @]

\* A fresh ant_id, register_agent, and the call of run, which starts the
\* HeartbeatThread: nobody asks whether the colony was halted or the mission
\* revoked.  Agents bounds the number of starts.
SuperviseStart(s) ==
  /\ sup[s] = "starting" /\ MayStart(s)
  /\ \E a \in Agents :
       /\ RegisterAgent(a)
       /\ current' = [current EXCEPT ![s] = a]
       /\ ant' = [ant EXCEPT ![a] = "running"]
       /\ beat' = [beat EXCEPT ![a] = "waiting"]
       /\ waited' = [waited EXCEPT ![a] = 0]
  /\ CountRestart(s)
  /\ sup' = [sup EXCEPT ![s] = "running"]
  /\ UNCHANGED begun

\* make_ant or on_start raises: caught, and tried again as a restart.
SuperviseFail(s) ==
  /\ sup[s] = "starting" /\ MayStart(s)
  /\ CountRestart(s)
  /\ begun' = [begun EXCEPT ![s] = TRUE]
  /\ UNCHANGED <<schedulerVars, sup, current, antVars>>

SuperviseGiveUp(s) ==
  /\ sup[s] = "starting" /\ ~MayStart(s)
  /\ sup' = [sup EXCEPT ![s] = "gone"]
  /\ restarts' = [restarts EXCEPT ![s] = RecentRestarts(s)]
  /\ UNCHANGED <<schedulerVars, current, begun, antVars>>

\* run has returned, whatever the status; after a pause the loop turns.
SuperviseReturn(s) ==
  /\ sup[s] = "running"
  /\ ant[current[s]] = "returned"
  /\ sup' = [sup EXCEPT ![s] = "starting"]
  /\ current' = [current EXCEPT ![s] = None]
  /\ begun' = [begun EXCEPT ![s] = TRUE]
  /\ UNCHANGED <<schedulerVars, restarts, antVars>>

Supervise(s) == SuperviseStart(s) \/ SuperviseFail(s) \/ SuperviseGiveUp(s) \/ SuperviseReturn(s)

--------------------------------------------------------------------------------
(* The ant's own thread: the end of run. *)

\* The loop ends on the ant's own TTL, or on an exception of a tick; the finally
\* block sets the stop event of the HeartbeatThread and joins it ...
AntEnd(a, ends) ==
  /\ ant[a] = "running" /\ ends
  /\ ant' = [ant EXCEPT ![a] = "joining"]
  /\ UNCHANGED <<schedulerVars, supVars, beat, waited>>

AntExpire(a) == AntEnd(a, IsExpired(a))
AntFail(a)   == AntEnd(a, TRUE)

\* ... until the thread is gone, or for the interval and a second, which only a
\* thread held up in a report outlasts; then the ant reports itself, as "paused".
AntLastWord(a) ==
  /\ ant[a] = "joining"
  /\ beat[a] = "stopped" \/ (beat[a] = "reporting" /\ waited[a] > HeartbeatInterval)
  /\ RecordHeartbeat(a, "paused", 0)
  /\ ant' = [ant EXCEPT ![a] = "returned"]
  /\ UNCHANGED <<supVars, beat, waited>>

--------------------------------------------------------------------------------
(* HeartbeatThread. *)

\* Mutant: the thread looks neither at the stop event nor at the ant's status.
BeatWake_Blind(a) ==
  /\ beat[a] = "waiting"
  /\ waited[a] >= HeartbeatInterval \/ ant[a] # "running"
  /\ beat' = [beat EXCEPT ![a] = "reporting"]
  /\ waited' = [waited EXCEPT ![a] = 0]
  /\ UNCHANGED <<schedulerVars, supVars, ant>>

\* The wait ends because stop was set or it is time to report.  The report is
\* built, with its timestamp, here and delivered in a step of its own.
BeatWake(a) ==
  /\ beat[a] = "waiting"
  /\ waited[a] >= HeartbeatInterval \/ ant[a] # "running"
  /\ beat' = [beat EXCEPT ![a] = IF ant[a] = "running" THEN "reporting" ELSE "stopped"]
  /\ waited' = [waited EXCEPT ![a] = 0]
  /\ UNCHANGED <<schedulerVars, supVars, ant>>

BeatReport(a) ==
  /\ beat[a] = "reporting"
  /\ RecordHeartbeat(a, "running", waited[a])
  /\ beat' = [beat EXCEPT ![a] = "waiting"]
  /\ waited' = [waited EXCEPT ![a] = 0]
  /\ UNCHANGED <<supVars, ant>>

AntStep(a) == AntExpire(a) \/ AntLastWord(a) \/ BeatWake(a) \/ BeatReport(a)

--------------------------------------------------------------------------------
SupElapse ==
  /\ Elapse
  /\ restarts' = [s \in Slots |->
                    [i \in DOMAIN restarts[s] |-> Sooner(restarts[s][i], Window + 1)]]
  /\ waited' = [a \in Agents |-> IF beat[a] \in {"waiting", "reporting"}
                                  THEN Sooner(waited[a], StaleAge) ELSE waited[a]]
  /\ UNCHANGED <<sup, current, begun, ant, beat>>

ColonyStep(step) == step /\ UNCHANGED <<supVars, antVars>>

AntsNext ==
  \/ \E s \in Slots : Supervise(s)
  \/ \E a \in Agents : AntStep(a) \/ AntFail(a)

SupNext ==
  \/ ColonyStep(SchedulerStep) \/ ColonyStep(KillStep) \/ ColonyStep(Operator)
  \/ AntsNext
  \/ SupElapse

SupSpec == SupInit /\ [][SupNext]_allVars

\* All threads run; ticks of an ant end, so an ant meets its TTL; nothing
\* obliges an operator or an exception.
SupFairness ==
  /\ WF_allVars(ColonyStep(LoopTurn \/ TickStep("loop")))
  /\ WF_allVars(ColonyStep(WatchdogStep \/ TickStep("watchdog")))
  /\ WF_allVars(ColonyStep(KillStep))
  /\ WF_allVars(SupElapse)
  /\ \A s \in Slots : WF_allVars(Supervise(s))
  /\ \A a \in Agents : WF_allVars(AntExpire(a) \/ AntLastWord(a))
  /\ \A a \in Agents : WF_allVars(BeatWake(a) \/ BeatReport(a))

SupFairSpec == SupSpec /\ SupFairness

\* Punctual threads, and no operator: no unit of time begins while a wait is more
\* than WakeSlack, or the delivery of a report more than ReportSlack, overdue.
Punctual ==
  \A a \in Agents :
    /\ beat[a] = "waiting" => waited[a] < HeartbeatInterval + WakeSlack
    /\ beat[a] = "reporting" => waited[a] < ReportSlack

PunctualNext == ColonyStep(SchedulerStep) \/ AntsNext \/ (Punctual /\ SupElapse)

PunctualSpec == SupInit /\ [][PunctualNext]_allVars

--------------------------------------------------------------------------------
(* Properties. *)

\* A supervisor makes at most MaxRestarts restarts in any window of time
\* (_start_supervised_ant).
RestartBudget ==
  \A s \in Slots :
    LET recent == {i \in DOMAIN restarts[s] : restarts[s][i] <= Window}
    IN Cardinality(recent) <= MaxRestarts

\* No false abort: while an ant works and its threads are punctual, the
\* scheduler aborts it for its TTL and never for its silence
\* (_check_heartbeats against HeartbeatThread.run).
NoFalseAbort ==
  \A a \in Agents : ant[a] = "running" /\ record[a].status = "aborted" => IsExpired(a)

\* An ant that has returned does not live on in the scheduler's books: a report
\* of its thread that comes after the ant's last word is answered by an abort,
\* or the colony is halted (HeartbeatThread.stop joins with a timeout).
GhostsAreLaid ==
  \A a \in Agents : ant[a] = "returned" ~> ([](record[a].status # "running") \/ status = "halted")

\* COLONY_GOVERNANCE.md, level 3: all agents stop.  When the colony is halted, no
\* agent that the kill aborted counts as running.
HaltStopsAgents == status = "halted" => \A a \in condemned : record[a].status # "running"

\* COLONY_GOVERNANCE.md, level 2: all agents on the node get the stop signal.
\* A node kill is carried out.
NodeKillSucceeds == kill # "failed"
================================================================================
