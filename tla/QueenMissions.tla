------------------------------ MODULE QueenMissions ------------------------------
(***************************************************************************)
(* Issuing and revoking missions under the capital hierarchy               *)
(* (ant_colony/queen/queen.py).                                            *)
(*                                                                         *)
(* issue_mission is called by the bootstrap, by the promoter's thread and  *)
(* by threads of the dashboard, with no lock: it checks, one dictionary    *)
(* read after the other, and inserts last.  The advisor and rs threads set *)
(* the limits of biomes at the same time.                                  *)
(*                                                                         *)
(* Capital is counted in whole units.                                      *)
(***************************************************************************)
EXTENDS Integers, FiniteSets, Functions, NodeRegistry

CONSTANTS
  Issuers,     \* threads that call issue_mission
  Missions,    \* Mission objects
  IdOf,        \* mission_id of a mission: two may share one
  Rivals,      \* missions that issuers may bring at the same time
  CapitalOf,   \* its capital_limit
  MaxCapital,  \* the largest of these
  BiomeOf,     \* its market_scope.biome
  AntTypeOf,   \* its ant_type
  HomeOf,      \* its allowed_node
  Total,       \* capital_total
  Limits,      \* limits a biome may be given
  Plans,       \* AllocationPlans that pass validation, as sets of <<biome, limit>>
  None         \* no limit, or no mission

ASSUME MissionAssumption ==
  /\ IsFiniteSet(Issuers) /\ Issuers # {}
  /\ IsFiniteSet(Missions) /\ None \notin Missions /\ Rivals \subseteq Missions
  /\ BiomeOf \in [Missions -> Biomes]
  /\ AntTypeOf \in [Missions -> AntTypes]
  /\ HomeOf \in [Missions -> Nodes]
  /\ CapitalOf \in [Missions -> Nat] /\ MaxCapital \in Nat
  /\ \A m \in Missions : CapitalOf[m] <= MaxCapital
  /\ Total \in Nat
  /\ Limits \subseteq 0 .. Total /\ Plans \subseteq SUBSET (Biomes \X Limits)
  /\ None \notin Nat

\* The capital_limits of the missions of S added up.
Sum(S) == SumFunctionOnSet(CapitalOf, S)

VARIABLES
  active,    \* the values of _active_missions
  limit,     \* _biome_limits; None for a biome without one
  plan,      \* limits of an AllocationPlan that are still to be set, as <<biome, limit>>
  pc,        \* pc[c]: which check of issue_mission thread c makes next
  arg,       \* arg[c]: the mission it issues
  seen,      \* seen[c]: the missions when its walk over _active_missions began
  accepted,  \* history: missions whose issuer was told "accepted", less those revoked
  squeezed,  \* history: biomes whose limit was set below what they hold or are about to get
  touched,   \* history: issuers during whose call the register changed
  outrun,     \* history: outrun[c]: missions inserted since c passed the duplicate check
  overtaken  \* history: accepted missions replaced by an issuer they outran

callVars == <<pc, arg, seen>>
idVars == <<accepted, outrun, overtaken>>
queenVars == <<active, limit, plan, callVars, nodes, squeezed, touched, idVars>>

Holding(b) == {m \in active : BiomeOf[m] = b}

QueenInit ==
  /\ RegistryInit
  /\ active = {} /\ plan = {}
  /\ limit = [b \in Biomes |-> None]
  /\ pc = [c \in Issuers |-> "idle"]
  /\ arg = [c \in Issuers |-> None]
  /\ seen = [c \in Issuers |-> {}]
  /\ accepted = {} /\ squeezed = {} /\ touched = {}
  /\ outrun = [c \in Issuers |-> {}] /\ overtaken = {}

--------------------------------------------------------------------------------
(* issue_mission, one check at a time. *)

Call(c, m) ==
  /\ pc[c] = "idle"
  /\ pc' = [pc EXCEPT ![c] = "duplicate"]
  /\ arg' = [arg EXCEPT ![c] = m]
  /\ touched' = touched \ {c} /\ outrun' = [outrun EXCEPT ![c] = {}]
  /\ UNCHANGED <<active, limit, plan, seen, nodes, accepted, overtaken, squeezed>>

\* A check of c: the next one if it holds, a rejection if it does not.
Check(c, here, holds, next) ==
  /\ pc[c] = here
  /\ IF holds
       THEN pc' = [pc EXCEPT ![c] = next] /\ UNCHANGED arg
       ELSE pc' = [pc EXCEPT ![c] = "idle"] /\ arg' = [arg EXCEPT ![c] = None]
  /\ UNCHANGED <<active, limit, plan, nodes, squeezed, touched, idVars>>

IdsOf(S) == {IdOf[m] : m \in S}

\* Mutant: mission ids are not looked up.
CheckDuplicate_Skipped(c) == Check(c, "duplicate", TRUE, "node") /\ UNCHANGED seen

CheckDuplicate(c) ==
  Check(c, "duplicate", IdOf[arg[c]] \notin IdsOf(active), "node") /\ UNCHANGED seen

CheckNode(c) == Check(c, "node", IsTrusted(HomeOf[arg[c]]), "ant_type") /\ UNCHANGED seen

CheckAntType(c) ==
  Check(c, "ant_type", CanRunAnt(HomeOf[arg[c]], AntTypeOf[arg[c]]), "biome") /\ UNCHANGED seen

\* Mutant: the biome is looked up for a node that is known, trusted or not.
CheckBiome_AnyStatus(c) ==
  LET n == HomeOf[arg[c]] IN
  /\ Check(c, "biome", nodes[n] # Unknown, "capital")
  /\ seen' = [seen EXCEPT ![c] = active]

CheckBiome(c) ==
  /\ Check(c, "biome", CanRunBiome(HomeOf[arg[c]], BiomeOf[arg[c]]), "capital")
  /\ seen' = [seen EXCEPT ![c] = active]

\* A sum over the values of a dictionary that grew or shrank since the walk
\* began raises RuntimeError, which leaves issue_mission like a rejection.
WalkSucceeds(c) == Cardinality(active) = Cardinality(seen[c])

\* capital_available, biome_capital_available: what is overdrawn has nothing left, and what
\* asks for nothing fits in that.
Left(total, allocated) == IF allocated < total THEN total - allocated ELSE 0

\* Mutant: capital_available without the missions that are active.
CheckCapital_IgnoresActive(c) ==
  /\ Check(c, "capital", WalkSucceeds(c) /\ CapitalOf[arg[c]] <= Total, "biome_capital")
  /\ seen' = [seen EXCEPT ![c] = active]

CheckCapital(c) ==
  /\ Check(c, "capital",
           WalkSucceeds(c) /\ CapitalOf[arg[c]] <= Left(Total, Sum(active)), "biome_capital")
  /\ seen' = [seen EXCEPT ![c] = active]

\* Mutant: a biome may be filled one unit past its limit.
CheckBiomeCapital_OffByOne(c) ==
  LET b == BiomeOf[arg[c]] IN
  Check(c, "biome_capital",
        limit[b] = None
          \/ (WalkSucceeds(c) /\ CapitalOf[arg[c]] <= Left(limit[b] + 1, Sum(Holding(b)))), "insert")
    /\ UNCHANGED seen

CheckBiomeCapital(c) ==
  LET b == BiomeOf[arg[c]] IN
  Check(c, "biome_capital",
        limit[b] = None
          \/ (WalkSucceeds(c) /\ CapitalOf[arg[c]] <= Left(limit[b], Sum(Holding(b)))), "insert")
    /\ UNCHANGED seen

\* The other issuers that will not look their ids up again.
Unaware(c) == {d \in Issuers \ {c} : pc[d] \notin {"idle", "duplicate"}}

\* The assignment to the dictionary replaces a mission of the same id; the
\* mission goes to the scheduler's queue, which nobody reads, and is logged.
Insert(c) ==
  /\ pc[c] = "insert"
  /\ active' = {m \in active : IdOf[m] # IdOf[arg[c]]} \cup {arg[c]}
  /\ accepted' = accepted \cup {arg[c]}
  /\ overtaken' = (overtaken \ {arg[c]})
                     \cup {m \in outrun[c] : IdOf[m] = IdOf[arg[c]] /\ m # arg[c]}
  /\ outrun' = [d \in Issuers |-> IF d \in Unaware(c) THEN outrun[d] \cup {arg[c]} ELSE outrun[d]]
  /\ pc' = [pc EXCEPT ![c] = "idle"]
  /\ arg' = [arg EXCEPT ![c] = None]
  /\ UNCHANGED <<limit, plan, seen, nodes, squeezed, touched>>

Issue(c) ==
  \/ CheckDuplicate(c) \/ CheckNode(c) \/ CheckAntType(c) \/ CheckBiome(c)
  \/ CheckCapital(c) \/ CheckBiomeCapital(c) \/ Insert(c)

--------------------------------------------------------------------------------
(* The other threads. *)

Revoke(m) ==
  /\ m \in active
  /\ active' = active \ {m}
  /\ accepted' = accepted \ {m}
  /\ UNCHANGED <<limit, plan, callVars, nodes, squeezed, touched, outrun, overtaken>>

\* What biome b may come to hold if every issuer past its last check inserts.
Committed(b) == Holding(b) \cup {arg[c] : c \in {d \in Issuers : pc[d] = "insert" /\ BiomeOf[arg[d]] = b}}

GiveLimit(b, x) ==
  /\ limit' = [limit EXCEPT ![b] = x]
  /\ squeezed' = IF Sum(Committed(b)) > x THEN squeezed \cup {b} ELSE squeezed \ {b}

\* set_biome_capital: rs_allocator, bootstrap.
SetBiomeCapital(b, x) ==
  /\ x <= Total
  /\ GiveLimit(b, x)
  /\ UNCHANGED <<active, plan, callVars, nodes, touched, idVars>>

\* apply_allocation_plan, once the plan is found valid as a whole ...
ApplyPlan(limits) ==
  /\ plan = {}
  /\ plan' = limits
  /\ UNCHANGED <<active, limit, callVars, nodes, squeezed, touched, idVars>>

\* ... sets one limit after the other.
PlanStep ==
  /\ \E entry \in plan : GiveLimit(entry[1], entry[2]) /\ plan' = plan \ {entry}
  /\ UNCHANGED <<active, callVars, nodes, touched, idVars>>

RegistryCall(step) ==
  /\ step
  /\ touched' = Issuers
  /\ UNCHANGED <<active, limit, plan, callVars, squeezed, idVars>>

RegistryStep(n) ==
  \/ \E p \in Permits, s \in NodeStatus : RegistryCall(Register(n, s, p))
  \/ RegistryCall(Unregister(n))
  \/ \E s \in NodeStatus : RegistryCall(SetStatus(n, s))
  \/ RegistryCall(NodeHeartbeat(n))

QueenNext ==
  \/ \E c \in Issuers : (\E m \in Missions : Call(c, m)) \/ Issue(c)
  \/ \E m \in Missions : Revoke(m)
  \/ \E b \in Biomes, x \in Limits : SetBiomeCapital(b, x)
  \/ \E limits \in Plans : ApplyPlan(limits)
  \/ PlanStep
  \/ \E n \in Nodes : RegistryStep(n)

QueenSpec == QueenInit /\ [][QueenNext]_queenVars

--------------------------------------------------------------------------------
(* Properties. *)

QueenTypeOK ==
  /\ RegistryTypeOK
  /\ active \subseteq Missions
  /\ limit \in [Biomes -> Limits \cup {None}]
  /\ plan \subseteq Biomes \X Limits
  /\ pc \in [Issuers -> {"idle", "duplicate", "node", "ant_type", "biome",
                         "capital", "biome_capital", "insert"}]
  /\ arg \in [Issuers -> Missions \cup {None}]
  /\ \A c \in Issuers : pc[c] = "idle" <=> arg[c] = None
  /\ seen \in [Issuers -> SUBSET Missions]
  /\ accepted \subseteq Missions /\ squeezed \subseteq Biomes /\ touched \subseteq Issuers
  /\ outrun \in [Issuers -> SUBSET Missions] /\ overtaken \subseteq Missions

\* Issuers that race can overdraw the colony's capital by what all but one of
\* them carry, and by no more; a lone issuer never does (issue_mission).
CapitalIsBounded == Sum(active) <= Total + (Cardinality(Issuers) - 1) * MaxCapital

\* COLONY_GOVERNANCE.md, capital hierarchy: no layer exceeds the layer above it.
CapitalHierarchy == Sum(active) <= Total

\* With a lone issuer, a biome holds more than its limit only where the limit was
\* set below what the biome already held or was being given (set_biome_capital).
BiomeHierarchy ==
  \A b \in Biomes : limit[b] # None /\ Sum(Holding(b)) > limit[b] => b \in squeezed

\* What an issuer was told is accepted stays active until it is revoked, however many
\* issue at once, unless another mission takes its place under the same id; and that only
\* an issuer may do that had passed the duplicate check before it was inserted
\* (issue_mission, which then tells both that theirs is accepted).
AcceptedIsActive == accepted \ active \subseteq overtaken

\* An issuer about to insert during whose call the register did not change
\* inserts on a node that is trusted with the ant type and the biome.
AdmissionHolds ==
  \A c \in Issuers : pc[c] \in {"capital", "biome_capital", "insert"} /\ c \notin touched =>
    /\ CanRunAnt(HomeOf[arg[c]], AntTypeOf[arg[c]])
    /\ CanRunBiome(HomeOf[arg[c]], BiomeOf[arg[c]])

\* A lone issuer keeps the budget of the colony, whatever the other threads do, and so
\* do issuers that race with missions which fit together.
Budget == INSTANCE CapitalBudget WITH held <- active
KeepsBudget == Budget!BudgetSpec
================================================================================
