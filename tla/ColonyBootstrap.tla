----------------------------- MODULE ColonyBootstrap -----------------------------
(***************************************************************************)
(* How a colony starts its ants (main in scripts/start_colony.py).         *)
(*                                                                         *)
(* The main thread goes through blocks, most of them in a try of their     *)
(* own: a block asks the Queen for missions and starts an ant for each it  *)
(* got.  The promoter's thread asks for missions of its own from before    *)
(* the node is registered, and the supervisor of the PaperAnt replaces its *)
(* ledger in the list the dashboard shows, while main is still at it.      *)
(*                                                                         *)
(* A call of the Queen is one step here (QueenMissions takes it apart),    *)
(* and a supervisor is kept to what the ledgers need (AntSupervision).     *)
(***************************************************************************)
EXTENDS Integers, Sequences, SequencesExt

CONSTANTS
  StartCapital,   \* the capital of the colony, in missions of 500
  OptIns,         \* sets of ants the environment may ask for
  MaxPromoted,    \* bounds the missions the promoter issues
  MaxPaperAnts,   \* bounds the PaperAnts of the supervisor
  MaxRaises,      \* bounds the exceptions of the main thread
  Unbound         \* no list yet

\* Ants a flag in the source switches off, whatever the environment says.
SwitchedOff == {"scout", "ingestion", "killzone", "claude"}

\* PaperLedgers, as <<ant, which one>>.
Ledgers == {"paper", "eqpaper"} \X Nat

ASSUME BootAssumption ==
  /\ StartCapital \in Nat /\ MaxPromoted \in Nat /\ MaxPaperAnts \in Nat \ {0}
  /\ MaxRaises \in Nat
  /\ \A asked \in OptIns : asked \cap SwitchedOff = {}
  /\ Unbound \notin Seq(Ledgers)

VARIABLES
  options,    \* the ants asked for
  block,      \* the block main is in, "up" or "exit" at the end
  work,       \* what it has still to do there, as <<operation, ant>>
  granted,    \* ants with a mission the Queen accepted
  answered,   \* those of which main knows
  promoted,   \* how many missions the Queen granted the promoter
  running,    \* ants whose thread was started
  known,      \* ants in the scheduler's register
  shown,      \* _paper_ledgers, a list of ledgers; unbound at first
  paperAnts,  \* how many PaperAnts were made
  paperRuns,  \* whether the last of them runs
  failed      \* history: blocks an exception ended

askVars   == <<options, granted, answered, promoted>>
paperVars == <<paperAnts, paperRuns>>
bootVars  == <<askVars, block, work, running, known, shown, paperVars, failed>>

--------------------------------------------------------------------------------
(* The missions. *)

Trading == {"paper", "execution", "eqpaper"}
Capital(a) == IF a \in Trading THEN 1 ELSE 0

IfAsked(a) == IF a \in options THEN <<a>> ELSE <<>>

\* The bootstrap's missions on crypto.  In paper mode, and only then, there is one for
\* the ExecutionAnt.
BaseMissions   == <<"scout", "research", "paper", "audit">> \o IfAsked("ingestion") \o <<"strategy">>
CryptoMissions == BaseMissions \o IfAsked("execution")

\* What issue_mission takes a mission for: the node and the biomes are known by the
\* time main asks, and only the capital may be short.
Used == Cardinality(granted \cap Trading) + promoted
Affordable(a) == Capital(a) <= StartCapital - Used

--------------------------------------------------------------------------------
(* What a block has to do. *)

ToIssue(a)    == <<"issue", a>>
ToBegin(a)    == <<"begin", a>>
ToRegister(a) == <<"register", a>>
ToList(a)     == <<"list", a>>
BindList      == <<"bind", "ledgers">>

Supervised(a) == <<ToBegin(a)>>

\* The thread is started first, and its ant registered next.
Unsupervised(a) == <<ToBegin(a), ToRegister(a)>>

IssueAll(missions) == [n \in DOMAIN missions |-> ToIssue(missions[n])]

\* Mutant: the ants after the PaperAnt are not started.
StartWork_NoExecution == Supervised("research") \o <<BindList>> \o Supervised("paper")

\* The list of ledgers is made halfway.  The StrategyAnt has a block of its own.
StartWork ==
  (IF "scout" \in options THEN Supervised("scout") ELSE <<>>)
    \o Supervised("research") \o <<BindList>> \o Supervised("paper") \o Supervised("audit")
    \o Unsupervised("ingestion") \o Unsupervised("execution")

\* 8b: all missions first, then the ants.
CryptoWork == IssueAll(CryptoMissions) \o StartWork

StrategyWork == Supervised("strategy")

IssueAndStart(a, start) == IF a \in options THEN <<ToIssue(a)>> \o start ELSE <<>>

KillZoneWork   == IssueAndStart("killzone", Unsupervised("killzone"))
ClaudeWork     == IssueAndStart("claude", Unsupervised("claude"))
OperatorWork   == <<ToIssue("operator")>> \o Supervised("operator")
TimeFilterWork == IssueAndStart("time_filter", Unsupervised("time_filter"))
EquityWork(a)  == <<ToIssue(a)>> \o Unsupervised(a)
EqPaperWork    == <<ToIssue("eqpaper")>> \o Unsupervised("eqpaper") \o <<ToList("eqpaper")>>

EquitiesWork ==
  IF "equities" \in options
  THEN EquityWork("sector_scout") \o EquityWork("fundamental") \o EquityWork("dividend_scout")
         \o EquityWork("piotroski") \o EquityWork("breakout") \o EquityWork("rs_regime") \o EqPaperWork
  ELSE <<>>

\* The NewsAnt is started and never registered; the WatchtowerAnt is registered first.
NewsWork       == IssueAndStart("news", <<ToBegin("news")>>)
WatchtowerWork == IssueAndStart("watchtower", <<ToRegister("watchtower"), ToBegin("watchtower")>>)

Blocks ==
  <<"node", "crypto", "strategy", "killzone", "claude", "operator", "time_filter", "equities",
    "news", "watchtower", "context">>

WorkOf(b) ==
  CASE b = "crypto"      -> CryptoWork
    [] b = "strategy"    -> StrategyWork
    [] b = "killzone"    -> KillZoneWork
    [] b = "claude"      -> ClaudeWork
    [] b = "operator"    -> OperatorWork
    [] b = "time_filter" -> TimeFilterWork
    [] b = "equities"    -> EquitiesWork
    [] b = "news"        -> NewsWork
    [] b = "watchtower"  -> WatchtowerWork
    [] OTHER             -> <<>>

BootInit ==
  /\ options \in OptIns
  /\ block = "node" /\ work = <<>>
  /\ granted = {} /\ answered = {} /\ promoted = 0
  /\ running = {} /\ known = {}
  /\ shown = Unbound /\ paperAnts = 0 /\ paperRuns = FALSE
  /\ failed = {}

--------------------------------------------------------------------------------
(* The main thread. *)

Enter(b) == block' = b /\ work' = WorkOf(b)

After(b) == Blocks[1 + CHOOSE n \in DOMAIN Blocks : Blocks[n] = b]

Booting == block \notin {"up", "exit"}

NextBlock ==
  /\ Booting /\ block # "context" /\ work = <<>>
  /\ Enter(After(block))
  /\ UNCHANGED <<askVars, running, known, shown, paperVars, failed>>

\* Takes the first piece of work that is of this kind in hand, and puts it behind.
Doing(op, a) == Booting /\ work # <<>> /\ Head(work) = <<op, a>>
Done == work' = Tail(work) /\ UNCHANGED block

AskMission(a) ==
  /\ Doing("issue", a) /\ Done
  /\ granted'  = granted \cup (IF Affordable(a) THEN {a} ELSE {})
  /\ answered' = answered \cup (IF Affordable(a) THEN {a} ELSE {})
  /\ UNCHANGED <<options, promoted, running, known, shown, paperVars, failed>>

\* The thread of an ant with a mission; that of a supervised one registers it.
StartAnt(a) ==
  /\ Doing("begin", a) /\ Done
  /\ running' = IF a \in answered THEN running \cup {a} ELSE running
  /\ known' = IF a \in answered /\ a \in {"research", "audit", "strategy", "operator"}
              THEN known \cup {a} ELSE known
  /\ UNCHANGED <<askVars, shown, paperVars, failed>>

RegisterAnt(a) ==
  /\ Doing("register", a) /\ Done
  /\ known' = IF a \in answered THEN known \cup {a} ELSE known
  /\ UNCHANGED <<askVars, running, shown, paperVars, failed>>

BindLedgers ==
  /\ Doing("bind", "ledgers") /\ Done
  /\ shown' = <<>>
  /\ UNCHANGED <<askVars, running, known, paperVars, failed>>

\* A list that does not exist is an exception of the block.
ListLedger ==
  /\ Doing("list", "eqpaper")
  /\ IF "eqpaper" \in answered /\ shown = Unbound
     THEN UNCHANGED shown /\ failed' = failed \cup {block}
     ELSE /\ shown' = IF "eqpaper" \in answered THEN Append(shown, <<"eqpaper", 1>>) ELSE shown
          /\ UNCHANGED failed
  /\ Done
  /\ UNCHANGED <<askVars, running, known, paperVars>>

\* Where the work for the next ant begins.
NextAnt == CHOOSE n \in DOMAIN work :
  work[n][2] # Head(work)[2] /\ \A k \in 1 .. n - 1 : work[k][2] = Head(work)[2]

\* What is left of the block after an exception: an ant of the equities has a try of
\* its own, but for what comes before the first of them.
LeftOfBlock ==
  IF block = "equities" /\ Head(work)[2] # "eqpaper"
  THEN {SubSeq(work, NextAnt, Len(work))}
         \cup (IF work = EquitiesWork THEN {<<>>} ELSE {})
  ELSE {<<>>}

\* The Queen's log, the constructor of an ant or a new thread raises: the mission may
\* have been granted and nobody told.
BlockRaises ==
  /\ Booting /\ work # <<>> /\ Head(work)[1] \in {"issue", "begin"}
  /\ Cardinality(failed) < MaxRaises
  /\ granted' \in {granted} \cup
       (IF Head(work)[1] = "issue" /\ Affordable(Head(work)[2])
        THEN {granted \cup {Head(work)[2]}} ELSE {})
  /\ work' \in LeftOfBlock
  /\ failed' = failed \cup {IF work' = <<>> THEN block ELSE Head(work)[2]}
  /\ UNCHANGED <<options, answered, promoted, block, running, known, shown, paperVars>>

\* ColonyContext: the only use of the list outside a try.
BuildContext ==
  /\ block = "context"
  /\ block' = IF shown = Unbound THEN "exit" ELSE "up"
  /\ UNCHANGED <<askVars, work, running, known, shown, paperVars, failed>>

--------------------------------------------------------------------------------
(* The threads beside it. *)

\* A mission of the promoter, refused before the node is known.
PromoterAsks ==
  /\ block \notin {"node", "exit"} /\ promoted < MaxPromoted
  /\ Used < StartCapital
  /\ promoted' = promoted + 1
  /\ UNCHANGED <<options, granted, answered, block, work, running, known, shown, paperVars, failed>>

\* The next PaperAnt is made: a colony that ended makes no more.
PaperAntIsMade == "paper" \in running /\ ~paperRuns /\ paperAnts < MaxPaperAnts /\ block # "exit"

OldLedger == <<"paper", paperAnts>>

\* _replace_paper_ledger takes the ledger of the ant before out of the list ...
DropLedger ==
  /\ PaperAntIsMade /\ OldLedger \in ToSet(shown)
  /\ shown' = RemoveFirst(shown, OldLedger)
  /\ UNCHANGED <<askVars, block, work, running, known, paperVars, failed>>

\* Mutant: the ledger of the ant before may be left in the list.
OldLedgerIsGone_Unasked == TRUE

OldLedgerIsGone == OldLedger \notin ToSet(shown)

\* ... and appends that of the new one.  Then on_start, register_agent, run.
PaperAntStarts ==
  /\ PaperAntIsMade /\ OldLedgerIsGone
  /\ paperAnts' = paperAnts + 1 /\ paperRuns' = TRUE
  /\ shown' = Append(shown, <<"paper", paperAnts + 1>>)
  /\ known' = known \cup {"paper"}
  /\ UNCHANGED <<askVars, block, work, running, failed>>

PaperAntEnds ==
  /\ paperRuns /\ block # "exit"
  /\ paperRuns' = FALSE
  /\ UNCHANGED <<askVars, block, work, running, known, shown, paperAnts, failed>>

Ants == ToSet(BaseMissions) \cup SwitchedOff
          \cup {"sector_scout", "fundamental", "dividend_scout", "piotroski", "breakout", "rs_regime"}
          \cup {"execution", "operator", "time_filter", "eqpaper", "news", "watchtower"}

BootStep ==
  \/ NextBlock \/ BindLedgers \/ ListLedger \/ BlockRaises \/ BuildContext
  \/ \E a \in Ants : AskMission(a) \/ StartAnt(a) \/ RegisterAnt(a)
  \/ PromoterAsks \/ DropLedger \/ PaperAntStarts \/ PaperAntEnds

--------------------------------------------------------------------------------
(* Properties. *)

\* The dashboard never shows two ledgers of a paper ant, while the ant runs it shows that
\* one, and in a colony that is up that of the equities paper ant, whoever changes the list
\* in between.
LedgersAreCurrent ==
  shown # Unbound =>
    /\ \A m, n \in DOMAIN shown : shown[m][1] = shown[n][1] => m = n
    /\ paperRuns => \E n \in DOMAIN shown : shown[n] = <<"paper", paperAnts>>
    /\ block = "up" /\ "eqpaper" \in running => \E n \in DOMAIN shown : shown[n][1] = "eqpaper"

\* No ant runs that the scheduler does not know, for longer than main takes to register
\* it, but the NewsAnt: a kill reaches every other.
OnlyNewsIsUnknown ==
  running \ known \subseteq
    {"news"} \cup (IF paperAnts = 0 THEN {"paper"} ELSE {})
             \cup (IF Booting /\ work # <<>> /\ Head(work)[1] = "register"
                   THEN {Head(work)[2]} ELSE {})

\* Capital a mission holds is worked with: in a colony that is up an ant runs for each
\* mission that has any, or an exception in the block of that ant is the reason.
CapitalHasAnAnt ==
  block = "up" =>
    \A a \in granted \cap Trading :
      a \in running \/ (IF a = "eqpaper" THEN "equities" ELSE "crypto") \in failed

\* A start that the log says goes through ("colony start toch door") goes through,
\* unless the exception came before the list of ledgers was made.
StartsUnlessUnbound == block = "exit" => "crypto" \in failed /\ "paper" \notin running

BootIsSound == LedgersAreCurrent /\ OnlyNewsIsUnknown /\ CapitalHasAnAnt /\ StartsUnlessUnbound
================================================================================
