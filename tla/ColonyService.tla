------------------------------ MODULE ColonyService ------------------------------
(***************************************************************************)
(* Colonies as processes: the claim on the dashboard's port and the        *)
(* dashboard's watchdog thread (scripts/start_colony.py,                   *)
(* dashboard/server.py), the service that runs a colony, and the watchdog  *)
(* service that restarts it (scripts/watchdog.py).                         *)
(*                                                                         *)
(* A colony works on the logs and orders of the machine, so that two       *)
(* beside each other are one too many; all that keeps them apart is the    *)
(* port.  It is tested first and bound last, with all the ants started in  *)
(* between.                                                                *)
(***************************************************************************)
EXTENDS Integers, TLAPS

CONSTANTS
  MaxStarts,   \* bounds the processes
  Nobody       \* no process, or one that is not a colony's

ASSUME ServiceAssumption == MaxStarts \in Nat \ {0} /\ Nobody \notin Nat

Processes == 1 .. MaxStarts

VARIABLES
  stage,      \* stage[p]: where the process is
  found,      \* found[p]: listeners it found on the port and has still to stop
  listener,   \* the process that listens on the port: a set of one, or of none
  dash,       \* dash[p]: what the dashboard's watchdog thread does
  colony,     \* colony[p]: its scheduler runs, was killed, or its last tick is long ago
  service,    \* the process of the AntColony service
  starter,    \* history: who started a process
  replaced,   \* history: the state of the colony whose place in the service it took
  owners      \* history: the colonies it found on the port

dashVars    == <<listener, dash>>
pastVars    == <<service, starter, replaced>>
serviceVars == <<stage, found, dashVars, colony, pastVars, owners>>

Alive(p)   == stage[p] \notin {"unborn", "dead"}
Working(p) == stage[p] \in {"booting", "up"}

ServiceInit ==
  /\ stage = [p \in Processes |-> "unborn"] /\ found = [p \in Processes |-> {}]
  /\ listener \in {{}, {Nobody}} /\ dash = [p \in Processes |-> "off"]
  /\ colony = [p \in Processes |-> "running"]
  /\ service = Nobody
  /\ starter = [p \in Processes |-> Nobody] /\ replaced = [p \in Processes |-> Nobody]
  /\ owners = [p \in Processes |-> {}]

Goes(p, to) == stage' = [stage EXCEPT ![p] = to]

\* A process that dies takes its threads with it, and the port is free again.
Dies(p) ==
  /\ Goes(p, "dead")
  /\ listener' = listener \ {p}
  /\ dash' = [dash EXCEPT ![p] = "off"]

--------------------------------------------------------------------------------
(* _prepare_dashboard_port *)

\* netstat names the listeners, or does not answer.
ListOwners(p) ==
  /\ stage[p] = "port"
  /\ \/ /\ found' = [found EXCEPT ![p] = listener]
        /\ owners' = [owners EXCEPT ![p] = listener \ {Nobody}]
        /\ Goes(p, IF listener = {} THEN "bind" ELSE "stop")
     \/ Goes(p, "bind") /\ UNCHANGED <<found, owners>>
  /\ UNCHANGED <<dashVars, colony, pastVars>>

\* Mutant: a taskkill that fails is passed over.
StopOwner_Hopes(p) ==
  /\ stage[p] = "stop"
  /\ \E q \in found[p] :
       \/ q # Nobody /\ Alive(q) /\ stage' = [stage EXCEPT ![q] = "dead"]
          /\ listener' = listener \ {q} /\ dash' = [dash EXCEPT ![q] = "off"]
          /\ found' = [found EXCEPT ![p] = @ \ {q}]
       \/ found' = [found EXCEPT ![p] = @ \ {q}] /\ UNCHANGED <<stage, dashVars>>
  /\ UNCHANGED <<colony, pastVars, owners>>

\* An old colony is stopped.  A stranger on the port, or a taskkill that fails, of a
\* process that is gone already for one, ends the start.
StopOwner(p) ==
  /\ stage[p] = "stop"
  /\ \E q \in found[p] :
       \/ q # Nobody /\ Alive(q) /\ stage' = [stage EXCEPT ![q] = "dead"]
          /\ listener' = listener \ {q} /\ dash' = [dash EXCEPT ![q] = "off"]
          /\ found' = [found EXCEPT ![p] = @ \ {q}]
       \/ Dies(p) /\ UNCHANGED found
  /\ UNCHANGED <<colony, pastVars, owners>>

\* A second later no one may listen, as far as netstat answers.
LookAgain(p) ==
  /\ stage[p] = "stop" /\ found[p] = {}
  /\ \/ listener = {} /\ Goes(p, "bind")
     \/ listener # {} /\ Goes(p, "dead")
     \/ Goes(p, "bind")
  /\ UNCHANGED <<found, dashVars, colony, pastVars, owners>>

\* _can_bind_dashboard_port: the socket is closed again.
TestPort(p) ==
  /\ stage[p] = "bind"
  /\ Goes(p, IF listener = {} THEN "booting" ELSE "dead")
  /\ UNCHANGED <<found, dashVars, colony, pastVars, owners>>

--------------------------------------------------------------------------------
(* The colony and its dashboard. *)

\* All the ants run; the dashboard comes last.  Capital that cannot be had, or an
\* exception main does not catch, ends the process instead.
Booted(p) ==
  /\ stage[p] = "booting"
  /\ \/ Goes(p, "up") /\ dash' = [dash EXCEPT ![p] = "starting"] /\ UNCHANGED listener
     \/ Dies(p)
  /\ UNCHANGED <<found, colony, pastVars, owners>>

\* run: a listener on the port, or a bind that fails, is a DashboardBindError, and the
\* watchdog thread ends the process.
BindDashboard(p) ==
  /\ dash[p] \in {"starting", "resting"}
  /\ IF listener = {}
     THEN listener' = {p} /\ dash' = [dash EXCEPT ![p] = "serving"] /\ UNCHANGED stage
     ELSE Dies(p)
  /\ UNCHANGED <<found, colony, pastVars, owners>>

\* A crash, or a network error: the thread waits and tries again.
DashboardCrash(p) ==
  /\ dash[p] = "serving"
  /\ dash' = [dash EXCEPT ![p] = "resting"] /\ listener' = {}
  /\ UNCHANGED <<stage, found, colony, pastVars, owners>>

\* A clean exit ends the watchdog thread, and the colony goes on without a dashboard.
DashboardExit(p) ==
  /\ dash[p] = "serving"
  /\ dash' = [dash EXCEPT ![p] = "ended"] /\ listener' = {}
  /\ UNCHANGED <<stage, found, colony, pastVars, owners>>

\* The operator kills the colony, on its dashboard.
KillColony(p) ==
  /\ dash[p] = "serving" /\ colony[p] = "running"
  /\ colony' = [colony EXCEPT ![p] = "killed"]
  /\ UNCHANGED <<stage, found, dashVars, pastVars, owners>>

\* The scheduler hangs for longer than STALE_TICK_SECONDS.
Stall(p) ==
  /\ stage[p] = "up" /\ colony[p] = "running"
  /\ colony' = [colony EXCEPT ![p] = "stalled"]
  /\ UNCHANGED <<stage, found, dashVars, pastVars, owners>>

--------------------------------------------------------------------------------
(* Those who start it. *)

Unborn == {p \in Processes : stage[p] = "unborn"}
Newest == CHOOSE p \in Unborn : TRUE

OperatorStarts ==
  /\ Unborn # {}
  /\ Goes(Newest, "port")
  /\ starter' = [starter EXCEPT ![Newest] = "operator"]
  /\ UNCHANGED <<found, dashVars, colony, service, replaced, owners>>

\* What nssm restart does: it ends the process of the service, and starts another.
Restarted(by) ==
  /\ Unborn # {}
  /\ LET old == IF service = Nobody THEN {} ELSE {service}
     IN /\ stage' = [p \in Processes |-> IF p = Newest THEN "port"
                                         ELSE IF p \in old THEN "dead" ELSE stage[p]]
        /\ listener' = listener \ old
        /\ dash' = [p \in Processes |-> IF p \in old THEN "off" ELSE dash[p]]
        /\ replaced' = [replaced EXCEPT ![Newest] =
                          IF service = Nobody THEN Nobody ELSE colony[service]]
  /\ service' = Newest /\ starter' = [starter EXCEPT ![Newest] = by]
  /\ UNCHANGED <<found, colony, owners>>

\* check_colony: a status with a tick that is not too old.  The ticks of a colony that
\* was killed have ended, and are too old in the end.
Healthy == \E p \in listener \ {Nobody} : dash[p] = "serving" /\ colony[p] = "running"

WatchdogRestarts == ~Healthy /\ Restarted("watchdog")

\* The service brings back a process that ended; the operator has it started first.
ServiceRestarts ==
  \/ service # Nobody /\ ~Alive(service) /\ Restarted("service")
  \/ service = Nobody /\ Restarted("operator")

ServiceStep ==
  \/ \E p \in Processes :
       \/ ListOwners(p) \/ StopOwner(p) \/ LookAgain(p) \/ TestPort(p)
       \/ Booted(p) \/ BindDashboard(p) \/ DashboardCrash(p) \/ DashboardExit(p)
       \/ KillColony(p) \/ Stall(p)
  \/ OperatorStarts \/ WatchdogRestarts \/ ServiceRestarts

ServiceSpec == ServiceInit /\ [][ServiceStep]_serviceVars

--------------------------------------------------------------------------------
(* Properties. *)

\* A colony has no ants before every colony it found on the port is dead
\* (_prepare_dashboard_port, _stop_pid).  That there is no other is not promised: one
\* that has not bound the port yet, or whose dashboard rests or has ended, is not found.
FoundOwnersAreGone == \A p \in Processes : Working(p) => \A q \in owners[p] : ~Alive(q)

\* COLONY_GOVERNANCE.md: a colony kill always takes a restart by the operator.
KillNeedsOperator ==
  \A p \in Processes : replaced[p] = "killed" => starter[p] = "operator"

--------------------------------------------------------------------------------
(* Proof. *)

Stages == {"unborn", "port", "stop", "bind", "booting", "up", "dead"}

\* A process that listens, or that another found listening, has been born; and of those
\* found only the ones still to be stopped may be alive.
OwnersInv ==
  /\ stage \in [Processes -> Stages]
  /\ found \in [Processes -> SUBSET (Processes \cup {Nobody})]
  /\ owners \in [Processes -> SUBSET Processes]
  /\ listener \subseteq Processes \cup {Nobody}
  /\ dash \in [Processes -> {"off", "starting", "serving", "resting", "ended"}]
  /\ \A p \in Processes : dash[p] # "off" => stage[p] = "up"
  /\ \A p \in listener : p # Nobody => stage[p] # "unborn"
  /\ \A p \in Processes :
       /\ stage[p] \in {"unborn", "port"} => owners[p] = {}
       /\ stage[p] = "stop" => \A q \in owners[p] : q \notin found[p] => stage[q] = "dead"
       /\ stage[p] \in {"bind", "booting", "up"} => \A q \in owners[p] : stage[q] = "dead"
       /\ \A q \in owners[p] : stage[q] # "unborn"

LEMMA NewestIsUnborn ==
  ASSUME Unborn # {}
  PROVE  Newest \in Processes /\ stage[Newest] = "unborn"
BY DEF Newest, Unborn

\* Whoever starts how many colonies, kills, crashes and restarts them, and whatever
\* netstat and taskkill answer, one that works has stopped all it found on the port
\* (_prepare_dashboard_port).
THEOREM ColoniesFoundAreStopped == ServiceSpec => []FoundOwnersAreGone
<1> USE ServiceAssumption
<1>1. ServiceInit => OwnersInv
  BY DEF ServiceInit, OwnersInv, Stages, Processes
<1>2. ASSUME OwnersInv, [ServiceStep]_serviceVars PROVE OwnersInv'
  <2> USE <1>2 DEF OwnersInv, Stages
  <2>0. Nobody \notin Processes
    BY DEF Processes
  <2>1. ASSUME NEW p \in Processes, ListOwners(p) PROVE OwnersInv'
    BY <2>0, <2>1 DEF ListOwners, Goes, dashVars
  <2>2. ASSUME NEW p \in Processes, StopOwner(p) PROVE OwnersInv'
    BY <2>0, <2>2 DEF StopOwner, Dies, Goes, Alive
  <2>3. ASSUME NEW p \in Processes, LookAgain(p) PROVE OwnersInv'
    BY <2>3 DEF LookAgain, Goes, dashVars
  <2>4. ASSUME NEW p \in Processes, TestPort(p) PROVE OwnersInv'
    BY <2>4 DEF TestPort, Goes, dashVars
  <2>5. ASSUME NEW p \in Processes, Booted(p) PROVE OwnersInv'
    BY <2>5 DEF Booted, Dies, Goes
  <2>6. ASSUME NEW p \in Processes, BindDashboard(p) PROVE OwnersInv'
    BY <2>0, <2>6 DEF BindDashboard, Dies, Goes
  <2>7. ASSUME NEW p \in Processes, DashboardCrash(p) \/ DashboardExit(p) PROVE OwnersInv'
    BY <2>7 DEF DashboardCrash, DashboardExit
  <2>8. ASSUME NEW p \in Processes, KillColony(p) \/ Stall(p) PROVE OwnersInv'
    BY <2>8 DEF KillColony, Stall, dashVars
  <2>9. CASE OperatorStarts
    BY <2>9, NewestIsUnborn DEF OperatorStarts, Goes, dashVars
  <2>10. ASSUME NEW by, Restarted(by) PROVE OwnersInv'
    BY <2>0, <2>10, NewestIsUnborn DEF Restarted
  <2>11. CASE WatchdogRestarts
    BY <2>10, <2>11 DEF WatchdogRestarts
  <2>12. CASE ServiceRestarts
    BY <2>10, <2>12 DEF ServiceRestarts
  <2>13. CASE UNCHANGED serviceVars
    BY <2>13 DEF serviceVars, dashVars
  <2>14. QED
    BY <2>1, <2>2, <2>3, <2>4, <2>5, <2>6, <2>7, <2>8, <2>9, <2>11, <2>12, <2>13 DEF ServiceStep
<1>3. OwnersInv => FoundOwnersAreGone
  BY DEF OwnersInv, FoundOwnersAreGone, Working, Alive
<1>4. QED
  BY <1>1, <1>2, <1>3, PTL DEF ServiceSpec
================================================================================
