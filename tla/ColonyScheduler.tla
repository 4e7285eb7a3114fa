---------------------------- MODULE ColonyScheduler ----------------------------
(***************************************************************************)
(* The tick-based scheduler of the colony                                  *)
(* (ant_colony/colony/scheduler/colony_scheduler.py).                      *)
(*                                                                         *)
(* Four kinds of threads meet in it: the tick loop, the liveness watchdog  *)
(* that may run a tick of its own, the threads of the ants (heartbeats) and *)
(* of their supervisors (registrations), and the API thread that serves a  *)
(* kill switch.  Only ticks are serialised, by a lock taken without        *)
(* waiting; heartbeats, registrations and kills touch the same records     *)
(* with no lock at all.                                                    *)
(*                                                                         *)
(* This module leaves the ants open: any ant may be registered, any        *)
(* registered ant may report at any moment.  AntSupervision closes it.     *)
(*                                                                         *)
(* Time is kept as ages that saturate one unit past the last threshold     *)
(* that is compared with them, so behaviours need no bound on time.        *)
(***************************************************************************)
EXTENDS Integers, FiniteSets

CONSTANTS
  Agents,             \* ant ids a supervisor may ever register
  Nodes,              \* node ids
  NodeOf,             \* NodeOf[a]: the node the record of a names
  TTL,                \* mission.ttl, in units of time
  HeartbeatInterval,  \* mission.heartbeat_interval
  WatchdogThreshold,  \* COLONY_TICK_WATCHDOG_SECONDS; 0 switches the watchdog off
  MaxLag,             \* age a heartbeat may have when it is recorded
  None                \* no lock owner

ASSUME SchedulerAssumption ==
  /\ NodeOf \in [Agents -> Nodes]
  /\ HeartbeatInterval \in Nat \ {0}
  /\ TTL \in Nat /\ TTL > HeartbeatInterval
  /\ WatchdogThreshold \in Nat
  /\ MaxLag \in 0 .. 2 * HeartbeatInterval + 1
  /\ None \notin {"loop", "watchdog"}

TickThreads == {"loop", "watchdog"}
AntStatus   == {"idle", "running", "paused", "completed", "aborted"}

\* One past the last age at which a heartbeat is still fresh.
StaleAge == 2 * HeartbeatInterval + 1

VARIABLES
  status,         \* ColonyScheduler._status: "running" or "halted"
  agents,         \* the keys of _agents
  record,         \* record[a]: status, age since started_at, silence since last_heartbeat
  lock,           \* owner of _tick_lock
  pc,             \* pc[t]: where tick thread t is
  scan,           \* scan[t]: agents the current phase of t's tick still visits
  doomed,         \* doomed[t]: the agent t found stale or expired and is about to abort
  sinceTick,      \* age of _last_tick_completed_at
  sinceRecovery,  \* age of _last_watchdog_recovery_at
  kill,           \* what the kill-switch thread is doing
  targets,        \* agents that thread has still to abort
  snapshot,       \* the agents it saw when it began
  condemned,      \* history: the agents the last colony kill saw
  revived         \* history: agents whose heartbeat overwrote "aborted"

tickVars == <<lock, pc, scan, doomed>>
clockVars == <<sinceTick, sinceRecovery>>
killVars == <<kill, targets, snapshot, condemned>>
vars == <<status, agents, record, tickVars, clockVars, killVars, revived>>

IsRunning(a) == a \in agents /\ record[a].status = "running"
\* Mutant: one missed report is enough.
IsStale_OneInterval(a) == record[a].silence > HeartbeatInterval

IsStale(a)   == record[a].silence > 2 * HeartbeatInterval
IsExpired(a) == record[a].age >= TTL

FreshRecord == [status |-> "running", age |-> 0, silence |-> 0]

Init ==
  /\ status = "running"
  /\ agents = {}
  /\ record = [a \in Agents |-> FreshRecord]
  /\ lock = None
  /\ pc = [t \in TickThreads |-> "sleep"]
  /\ scan = [t \in TickThreads |-> {}]
  /\ doomed = [t \in TickThreads |-> {}]
  /\ sinceTick = 0
  /\ sinceRecovery = WatchdogThreshold
  /\ kill = "none"
  /\ targets = {} /\ snapshot = {} /\ condemned = {}
  /\ revived = {}

Goto(t, label) == pc' = [pc EXCEPT ![t] = label]

\* _abort_agent: silently nothing for an unknown, completed or aborted agent.
\* No agent_stopper is configured by start_colony, so the ant is not told.
AbortAgent(a) ==
  IF a \in agents /\ record[a].status \notin {"completed", "aborted"}
    THEN /\ record' = [record EXCEPT ![a].status = "aborted"]
         /\ revived' = revived \ {a}
    ELSE UNCHANGED <<record, revived>>

--------------------------------------------------------------------------------
(* A tick, run by the loop or by the watchdog. *)

\* Mutant: `while True` instead of `while self._status == RUNNING`.
LoopTurn_Forever ==
  /\ pc["loop"] = "sleep"
  /\ Goto("loop", "enter")
  /\ UNCHANGED <<status, agents, record, lock, scan, doomed, clockVars, killVars, revived>>

\* start: one turn of `while self._status == RUNNING`.
LoopTurn ==
  /\ pc["loop"] = "sleep"
  /\ Goto("loop", IF status = "running" THEN "enter" ELSE "exited")
  /\ UNCHANGED <<status, agents, record, lock, scan, doomed, clockVars, killVars, revived>>

\* tick: the status test, then the lock, taken without waiting.
TickEnter(t) ==
  /\ pc[t] = "enter"
  /\ Goto(t, IF status = "running" THEN "acquire" ELSE "sleep")
  /\ UNCHANGED <<status, agents, record, lock, scan, doomed, clockVars, killVars, revived>>

\* Mutant: the tick goes on although the lock was not free.
TickAcquire_NoTest(t) ==
  /\ pc[t] = "acquire"
  /\ lock' = t
  /\ scan' = [scan EXCEPT ![t] = agents]
  /\ Goto(t, "heartbeats")
  /\ UNCHANGED <<status, agents, record, doomed, clockVars, killVars, revived>>

TickAcquire(t) ==
  /\ pc[t] = "acquire"
  /\ IF lock = None
       THEN /\ lock' = t
            /\ scan' = [scan EXCEPT ![t] = agents]
            /\ Goto(t, "heartbeats")
       ELSE /\ Goto(t, "sleep")
            /\ UNCHANGED <<lock, scan>>
  /\ UNCHANGED <<status, agents, record, doomed, clockVars, killVars, revived>>

\* One iteration of the loop over list(self._agents.items()): the test of an
\* agent, and the abort that follows it in a step of its own, because a
\* heartbeat of the agent may be recorded between the two.
Visit(t, phase, overdue) ==
  /\ pc[t] = phase
  /\ doomed[t] = {}
  /\ \E a \in scan[t] :
       /\ scan' = [scan EXCEPT ![t] = @ \ {a}]
       /\ doomed' = [doomed EXCEPT ![t] = IF IsRunning(a) /\ a \in overdue THEN {a} ELSE {}]
  /\ UNCHANGED <<status, agents, record, lock, pc, clockVars, killVars, revived>>

CheckHeartbeat(t) == Visit(t, "heartbeats", {a \in agents : IsStale(a)})
EnforceTTL(t)     == Visit(t, "ttls", {a \in agents : IsExpired(a)})

AbortDoomed(t) ==
  /\ \E a \in doomed[t] : AbortAgent(a)
  /\ doomed' = [doomed EXCEPT ![t] = {}]
  /\ UNCHANGED <<status, agents, lock, pc, scan, clockVars, killVars>>

PhaseDone(t, phase) == pc[t] = phase /\ scan[t] = {} /\ doomed[t] = {}

\* Mutant: the TTL phase walks what the heartbeat phase has left, nothing.
HeartbeatsChecked_NoRescan(t) ==
  /\ PhaseDone(t, "heartbeats")
  /\ Goto(t, "ttls")
  /\ UNCHANGED <<status, agents, record, lock, scan, doomed, clockVars, killVars, revived>>

HeartbeatsChecked(t) ==
  /\ PhaseDone(t, "heartbeats")
  /\ Goto(t, "ttls")
  /\ scan' = [scan EXCEPT ![t] = agents]
  /\ UNCHANGED <<status, agents, record, lock, doomed, clockVars, killVars, revived>>

\* Dispatching is a stub that moves nothing; the tick stamps its completion
\* before it logs and releases the lock.
TickComplete(t) ==
  /\ PhaseDone(t, "ttls")
  /\ sinceTick' = 0
  /\ Goto(t, "release")
  /\ UNCHANGED <<status, agents, record, lock, scan, doomed, sinceRecovery, killVars, revived>>

TickRelease(t) ==
  /\ pc[t] = "release"
  /\ lock' = None
  /\ Goto(t, "sleep")
  /\ UNCHANGED <<status, agents, record, scan, doomed, clockVars, killVars, revived>>

TickStep(t) ==
  \/ TickEnter(t)
  \/ TickAcquire(t)
  \/ CheckHeartbeat(t)
  \/ AbortDoomed(t)
  \/ HeartbeatsChecked(t)
  \/ EnforceTTL(t)
  \/ TickComplete(t)
  \/ TickRelease(t)

--------------------------------------------------------------------------------
(* The watchdog thread. *)

\* _watchdog_recover_if_stale up to the probe of the lock.
WatchdogWake ==
  /\ pc["watchdog"] = "sleep"
  /\ pc["loop"] # "exited"
  /\ status = "running" /\ WatchdogThreshold > 0
  /\ sinceTick > WatchdogThreshold
  /\ sinceRecovery >= WatchdogThreshold
  /\ sinceRecovery' = 0
  /\ Goto("watchdog", "probe")
  /\ UNCHANGED <<status, agents, record, lock, scan, doomed, sinceTick, killVars, revived>>

\* The probe takes the lock only to see that it is free and gives it back
\* before it ticks: a turn of the loop in between is skipped.
WatchdogProbe ==
  /\ pc["watchdog"] = "probe"
  /\ IF lock = None
       THEN lock' = "watchdog" /\ Goto("watchdog", "probed")
       ELSE Goto("watchdog", "sleep") /\ UNCHANGED lock
  /\ UNCHANGED <<status, agents, record, scan, doomed, clockVars, killVars, revived>>

\* Mutant: the probe forgets to give the lock back.
WatchdogUnprobe_Keeps ==
  /\ pc["watchdog"] = "probed"
  /\ Goto("watchdog", "enter")
  /\ UNCHANGED <<status, agents, record, lock, scan, doomed, clockVars, killVars, revived>>

WatchdogUnprobe ==
  /\ pc["watchdog"] = "probed"
  /\ lock' = None
  /\ Goto("watchdog", "enter")
  /\ UNCHANGED <<status, agents, record, scan, doomed, clockVars, killVars, revived>>

\* _stop_watchdog, from start's finally block.
WatchdogExit ==
  /\ pc["watchdog"] = "sleep"
  /\ pc["loop"] = "exited"
  /\ Goto("watchdog", "exited")
  /\ UNCHANGED <<status, agents, record, lock, scan, doomed, clockVars, killVars, revived>>

WatchdogStep == WatchdogWake \/ WatchdogProbe \/ WatchdogUnprobe \/ WatchdogExit

--------------------------------------------------------------------------------
(* Calls from the threads of the ants and their supervisors. *)

RegisterAgent(a) ==
  /\ a \notin agents
  /\ agents' = agents \cup {a}
  /\ record' = [record EXCEPT ![a] = FreshRecord]
  /\ UNCHANGED <<status, tickVars, clockVars, killVars, revived>>

\* The record takes the status of the heartbeat whatever it was before.  An
\* unknown sender is ignored.  The two assignments are one step: a reader in
\* between sees what a reader before or after them would decide on.
RecordHeartbeat(a, reported, lag) ==
  /\ a \in agents
  /\ record' = [record EXCEPT ![a] = [@ EXCEPT !.silence = lag, !.status = reported]]
  /\ revived' = IF record[a].status = "aborted" THEN revived \cup {a} ELSE revived
  /\ UNCHANGED <<status, agents, tickVars, clockVars, killVars>>

AntCalls ==
  \E a \in Agents :
    \/ RegisterAgent(a)
    \/ \E reported \in {"running", "paused"}, lag \in 0 .. MaxLag :
         RecordHeartbeat(a, reported, lag)

--------------------------------------------------------------------------------
(* The kill switch. *)

KillAgent(a) ==
  /\ kill = "none"
  /\ AbortAgent(a)
  /\ UNCHANGED <<status, agents, tickVars, clockVars, killVars>>

\* _kill_node walks the live dictionary, not a copy: a registration during
\* the walk raises RuntimeError and nobody is aborted.
KillNode(n) ==
  /\ kill = "none"
  /\ kill' = "walking"
  /\ snapshot' = agents
  /\ targets' = {a \in agents : NodeOf[a] = n}
  /\ UNCHANGED <<status, agents, record, tickVars, clockVars, condemned, revived>>

NodeWalked ==
  /\ kill = "walking"
  /\ IF agents = snapshot
       THEN kill' = "node" /\ UNCHANGED targets
       ELSE kill' = "failed" /\ targets' = {}
  /\ UNCHANGED <<status, agents, record, tickVars, clockVars, snapshot, condemned, revived>>

\* Mutant: the colony kill skips agents that are not running at that moment.
KillColony_OnlyRunning ==
  /\ kill = "none"
  /\ kill' = "colony"
  /\ targets' = {a \in agents : IsRunning(a)}
  /\ snapshot' = agents /\ condemned' = agents
  /\ UNCHANGED <<status, agents, record, tickVars, clockVars, revived>>

\* _kill_colony takes a copy of the keys, aborts, and only then halts.
KillColony ==
  /\ kill = "none"
  /\ kill' = "colony"
  /\ targets' = agents /\ snapshot' = agents /\ condemned' = agents
  /\ UNCHANGED <<status, agents, record, tickVars, clockVars, revived>>

KillTarget ==
  /\ kill \in {"node", "colony"}
  /\ \E a \in targets : AbortAgent(a) /\ targets' = targets \ {a}
  /\ UNCHANGED <<status, agents, tickVars, clockVars, kill, snapshot, condemned>>

\* Mutant: the colony kill leaves the colony PAUSED.
KillDone_Paused ==
  /\ kill \in {"node", "colony", "failed"}
  /\ targets = {}
  /\ status' = IF kill = "colony" THEN "paused" ELSE status
  /\ kill' = "none"
  /\ snapshot' = {}
  /\ UNCHANGED <<agents, record, tickVars, clockVars, targets, condemned, revived>>

KillDone ==
  /\ kill \in {"node", "colony", "failed"}
  /\ targets = {}
  /\ status' = IF kill = "colony" THEN "halted" ELSE status
  /\ kill' = "none"
  /\ snapshot' = {}
  /\ UNCHANGED <<agents, record, tickVars, clockVars, targets, condemned, revived>>

KillStep == NodeWalked \/ KillTarget \/ KillDone

Operator == KillColony \/ (\E a \in Agents : KillAgent(a)) \/ (\E n \in Nodes : KillNode(n))

--------------------------------------------------------------------------------
Sooner(x, limit) == IF x < limit THEN x + 1 ELSE x

\* A unit of time passes.
Elapse ==
  /\ record' = [a \in Agents |->
       IF a \in agents
         THEN [record[a] EXCEPT !.age = Sooner(@, TTL), !.silence = Sooner(@, StaleAge)]
         ELSE record[a]]
  /\ sinceTick' = Sooner(sinceTick, WatchdogThreshold + 1)
  /\ sinceRecovery' = Sooner(sinceRecovery, WatchdogThreshold)
  /\ UNCHANGED <<status, agents, tickVars, killVars, revived>>

SchedulerStep == LoopTurn \/ (\E t \in TickThreads : TickStep(t)) \/ WatchdogStep

Next == SchedulerStep \/ KillStep \/ Operator \/ AntCalls \/ Elapse

\* Threads are scheduled by the operating system, so a tick, the watchdog and a
\* kill that has begun go on, and time passes.  The loop may oversleep for as
\* long as the colony runs, the case the watchdog is there for, and wakes once
\* it is halted.  Ants and operators owe nothing.
Fairness ==
  /\ WF_vars(TickStep("loop"))
  /\ WF_vars(LoopTurn /\ status = "halted")
  /\ WF_vars(WatchdogStep \/ TickStep("watchdog"))
  /\ WF_vars(KillStep)
  /\ WF_vars(Elapse)

Spec     == Init /\ [][Next]_vars
FairSpec == Spec /\ Fairness

--------------------------------------------------------------------------------
(* Properties. *)

InTick(t) == pc[t] \in {"heartbeats", "ttls", "release"}

TypeOK ==
  /\ status \in {"running", "halted"}
  /\ agents \subseteq Agents
  /\ record \in [Agents -> [status : AntStatus, age : 0 .. TTL, silence : 0 .. StaleAge]]
  /\ lock \in TickThreads \cup {None}
  /\ pc \in [TickThreads -> {"sleep", "enter", "acquire", "heartbeats", "ttls", "release",
                             "probe", "probed", "exited"}]
  /\ scan \in [TickThreads -> SUBSET Agents]
  /\ doomed \in [TickThreads -> SUBSET Agents]
  /\ sinceTick \in 0 .. WatchdogThreshold + 1
  /\ sinceRecovery \in 0 .. WatchdogThreshold
  /\ kill \in {"none", "walking", "node", "colony", "failed"}
  /\ targets \subseteq Agents
  /\ snapshot \subseteq Agents
  /\ condemned \subseteq Agents
  /\ revived \subseteq Agents

\* The loop and the watchdog are never in a tick together, although the
\* watchdog gives the lock back between its probe and its tick
\* (_watchdog_recover_if_stale).
OneTickAtATime == \A s, t \in TickThreads : InTick(s) /\ InTick(t) => s = t

\* A colony kill reaches every agent it saw: one that is not aborted once its
\* turn has passed sent a heartbeat after it (_kill_colony, record_heartbeat).
\* An agent registered after the copy of the keys is the only other escape.
Reached == condemned \ (IF kill = "colony" THEN targets ELSE {})
ColonyKillReachesAll ==
  \A a \in Reached : record[a].status \in {"completed", "aborted"} \/ a \in revived

\* A running agent that falls silent, or outlives its TTL, does not stay
\* running while the colony does.
OverdueIsAborted ==
  \A a \in Agents :
    (IsRunning(a) /\ (IsStale(a) \/ IsExpired(a)))
      ~> (~IsRunning(a) \/ ~(IsStale(a) \/ IsExpired(a)) \/ status = "halted")

\* A tick that is overdue for the watchdog is followed by one that completes,
\* unless the colony is halted.
TicksResume == sinceTick > WatchdogThreshold ~> (sinceTick <= WatchdogThreshold \/ status = "halted")

\* After a colony kill the ticking comes to rest: both threads leave for good
\* (start's loop and finally block).
HaltQuiesces == status = "halted" ~> [](lock = None /\ \A t \in TickThreads : pc[t] = "exited")
================================================================================
