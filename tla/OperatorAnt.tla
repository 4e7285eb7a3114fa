------------------------------ MODULE OperatorAnt ------------------------------
(***************************************************************************)
(* The ant that turns what the operator puts into the dashboard into ideas *)
(* (ant_colony/ants/operator_ant.py, post_operator_input in                *)
(* dashboard/api.py).                                                      *)
(*                                                                         *)
(* Input files are never removed: a new OperatorAnt reads them all again,  *)
(* and finds its predecessor's ideas in the ingestion log.  A tick that    *)
(* outlasts the watchdog ends the ant, and its worker goes on beside the   *)
(* ant the supervisor makes next.                                          *)
(***************************************************************************)
EXTENDS CandidateLogs

CONSTANTS
  Files,      \* names of input files, numbers in their order: a timestamp and a type
  Charts,     \* those that hold an image
  IdeaOf,     \* the idea a file is about
  Like        \* pairs of ideas of one url, or with three keywords in common

ASSUME OperatorAssumption ==
  /\ Files \subseteq Nat /\ None \notin Files /\ Charts \subseteq Files /\ IdeaOf \in [Files -> Ideas]
  /\ Like \subseteq Ideas \X Ideas

VARIABLES
  inbox,      \* inbox[f]: absent, torn while it is being written, or whole
  answer,     \* answer[f]: the result file of f
  opLife,     \* the OperatorAnt the supervisor made last
  opAlive,    \* whether its run method goes on
  opSeen,     \* opSeen[l]: _seen_input_files of OperatorAnt l
  opPc,       \* opPc[l]: where the worker of its tick is
  opTodo,     \* opTodo[l]: files of the listing that worker walks
  opItem,     \* opItem[l]: the file it has in hand
  tornReads,  \* history: files dropped unread: half written, empty, or unreadable
  leftBehind  \* history: ideas of the files workers were left behind with

inputVars == <<inbox, answer>>
workVars  == <<opPc, opTodo, opItem>>
lifeVars  == <<opLife, opAlive>>
opVars    == <<inputVars, workVars, lifeVars, opSeen, tornReads, leftBehind>>

OperatorInit ==
  /\ inbox = [f \in Files |-> "absent"] /\ answer = [f \in Files |-> "none"]
  /\ opLife = 1 /\ opAlive = TRUE
  /\ opSeen = [l \in Lives |-> {}]
  /\ opPc = [l \in Lives |-> "idle"] /\ opTodo = [l \in Lives |-> {}]
  /\ opItem = [l \in Lives |-> None]
  /\ tornReads = {} /\ leftBehind = {}

OpGoto(l, label, f) == opPc' = [opPc EXCEPT ![l] = label] /\ opItem' = [opItem EXCEPT ![l] = f]

\* The dashboard opens a file named for the second and the type of the input,
\* and then dumps the input into it.
OpenInput(f) ==
  /\ inbox[f] = "absent"
  /\ inbox' = [inbox EXCEPT ![f] = "torn"]
  /\ UNCHANGED <<answer, workVars, lifeVars, opSeen, tornReads, leftBehind, logVars>>

FillInput(f) ==
  /\ inbox[f] = "torn"
  /\ inbox' = [inbox EXCEPT ![f] = "whole"]
  /\ UNCHANGED <<answer, workVars, lifeVars, opSeen, tornReads, leftBehind, logVars>>

\* A tick lists the files.
ListInputs ==
  /\ opAlive /\ opPc[opLife] = "idle"
  /\ opTodo' = [opTodo EXCEPT ![opLife] = {f \in Files : inbox[f] # "absent"} \ opSeen[opLife]]
  /\ OpGoto(opLife, "walk", None)
  /\ UNCHANGED <<inputVars, lifeVars, opSeen, tornReads, leftBehind, logVars>>

\* The next file counts as seen before it is opened; one that is not whole,
\* or empty, is dropped.
PickInput(l) ==
  /\ opPc[l] = "walk"
  /\ \E f \in opTodo[l] :
       /\ \A g \in opTodo[l] : f <= g
       /\ opTodo' = [opTodo EXCEPT ![l] = @ \ {f}]
       /\ opSeen' = [opSeen EXCEPT ![l] = @ \cup {f}]
       /\ \/ /\ inbox[f] = "whole"
             /\ OpGoto(l, IF f \in Charts THEN "write" ELSE "compare", f)
             /\ UNCHANGED tornReads
          \/ /\ tornReads' = tornReads \cup {f}
             /\ UNCHANGED <<opPc, opItem>>
  /\ UNCHANGED <<inputVars, lifeVars, leftBehind, logVars>>

ListDone(l) ==
  /\ opPc[l] = "walk" /\ opTodo[l] = {}
  /\ OpGoto(l, "idle", None)
  /\ UNCHANGED <<inputVars, lifeVars, opTodo, opSeen, tornReads, leftBehind, logVars>>

\* Mutant: only what others wrote is looked at.
Known_Others(idea) ==
  \E e \in Range(ingestion) : e.by # "operator" /\ <<idea, e.idea>> \in Like

\* The log names the url, or an idea with enough keywords in common.
Known(idea) == \E e \in Range(ingestion) : <<idea, e.idea>> \in Like

\* _find_duplicate
CompareInput(l) ==
  /\ opPc[l] = "compare"
  /\ OpGoto(l, IF Known(IdeaOf[opItem[l]]) THEN "duplicate" ELSE "write", opItem[l])
  /\ UNCHANGED <<inputVars, lifeVars, opTodo, opSeen, tornReads, leftBehind, logVars>>

\* _write_to_ingestion; the idea of a chart is written without a comparison.
WriteIdea(l) ==
  /\ opPc[l] = "write"
  /\ Ingest(IdeaOf[opItem[l]], IF opItem[l] \in Charts THEN "chart" ELSE "operator")
  /\ OpGoto(l, "accepted", opItem[l])
  /\ UNCHANGED <<inputVars, lifeVars, opTodo, opSeen, tornReads, leftBehind>>

\* No image data, an analysis that fails, a candidate that cannot be built.
FailInput(l) ==
  /\ opPc[l] = "write"
  /\ OpGoto(l, "error", opItem[l])
  /\ UNCHANGED <<inputVars, lifeVars, opTodo, opSeen, tornReads, leftBehind, logVars>>

\* Mutant: the result is written under a name of its own only if it is accepted.
AnswerInput_OnlyAccepted(l) ==
  /\ opPc[l] \in {"duplicate", "accepted", "error"}
  /\ answer' = IF opPc[l] = "accepted" THEN [answer EXCEPT ![opItem[l]] = opPc[l]] ELSE answer
  /\ OpGoto(l, "walk", None)
  /\ UNCHANGED <<inbox, lifeVars, opTodo, opSeen, tornReads, leftBehind, logVars>>

\* _write_processed: the result file, over that of an earlier life.
AnswerInput(l) ==
  /\ opPc[l] \in {"duplicate", "accepted", "error"}
  /\ answer' = [answer EXCEPT ![opItem[l]] = opPc[l]]
  /\ OpGoto(l, "walk", None)
  /\ UNCHANGED <<inbox, lifeVars, opTodo, opSeen, tornReads, leftBehind, logVars>>

InHandOf(l) == {IdeaOf[f] : f \in opTodo[l] \cup ({opItem[l]} \ {None})}

\* The watchdog gives up on the tick and marks the ant as aborted.
OperatorTimeout ==
  /\ opAlive /\ opPc[opLife] # "idle"
  /\ opAlive' = FALSE
  /\ leftBehind' = leftBehind \cup InHandOf(opLife)
  /\ UNCHANGED <<inputVars, workVars, opLife, opSeen, tornReads, logVars>>

\* The TTL of the mission.
OperatorEnds ==
  /\ opAlive /\ opPc[opLife] = "idle"
  /\ opAlive' = FALSE
  /\ UNCHANGED <<inputVars, workVars, opLife, opSeen, tornReads, leftBehind, logVars>>

\* The supervisor makes a new OperatorAnt, with an empty memory.
OperatorRestart ==
  /\ ~opAlive /\ opLife < MaxLives
  /\ opLife' = opLife + 1 /\ opAlive' = TRUE
  /\ UNCHANGED <<inputVars, workVars, opSeen, tornReads, leftBehind, logVars>>

\* What a crash of the process leaves of the ant.
OperatorDies ==
  /\ opAlive' = FALSE
  /\ opPc' = [l \in Lives |-> "idle"] /\ opItem' = [l \in Lives |-> None]
  /\ opTodo' = [l \in Lives |-> {}]
  /\ UNCHANGED <<inputVars, opLife, opSeen, tornReads, leftBehind>>

OperatorStep ==
  \/ \E f \in Files : OpenInput(f) \/ FillInput(f)
  \/ ListInputs
  \/ \E l \in Lives : \/ PickInput(l) \/ ListDone(l) \/ CompareInput(l) \/ WriteIdea(l)
                      \/ FailInput(l) \/ AnswerInput(l)
  \/ OperatorTimeout \/ OperatorEnds \/ OperatorRestart

--------------------------------------------------------------------------------
(* Properties. *)

\* An idea of the operator that is like itself, that is, has a url or enough
\* keywords, is written once, over all lives of the ant and whatever others write
\* meanwhile, unless a worker was left behind with it (_find_duplicate).
OperatorIdeasOnce ==
  \A i \in Ideas : <<i, i>> \in Like /\ Copies(i, "operator") > 1 => i \in leftBehind

\* "The OperatorAnt picks the file up at the next tick": a file the present ant
\* counts as seen is answered, in hand, or was read before it was whole.
InputIsAnswered ==
  opAlive => \A f \in opSeen[opLife] : answer[f] # "none" \/ opItem[opLife] = f \/ f \in tornReads

\* What the operator enters is taken in, and taken in once.
InputIsTakenOnce == OperatorIdeasOnce /\ InputIsAnswered
================================================================================
