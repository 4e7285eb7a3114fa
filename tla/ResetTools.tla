------------------------------- MODULE ResetTools -------------------------------
(***************************************************************************)
(* The operator's scripts that put old logs away: reset_paper_state.py     *)
(* moves the files of the paper ants, one by one, to an archive;           *)
(* reset_research_pool.py takes old candidates out of the research log,    *)
(* and puts them back with --restore.                                      *)
(*                                                                         *)
(* Neither looks whether a colony runs.  The paper ant writes on, one file *)
(* for each life of it, and finds its positions again from whatever files  *)
(* are there when it is made; the research ant appends to the log the      *)
(* script rewrites.                                                        *)
(***************************************************************************)
EXTENDS Integers, FiniteSets

CONSTANTS
  Trades,      \* positions
  MaxAnts,     \* bounds the lives of the paper ant
  MaxResets,   \* bounds the runs of either script
  PoolLines,   \* lines of the research log
  OldLines     \* those of candidates from before the cutoff

ASSUME ResetAssumption == MaxAnts \in Nat \ {0} /\ OldLines \subseteq PoolLines

AntFiles == 1 .. MaxAnts

VARIABLES
  antUp,      \* whether a paper ant runs
  antLife,    \* which one
  holds,      \* positions it holds
  closing,    \* those it has booked as closed and not written of
  papers,     \* papers[f]: the events in file f of ANT_LOGS/paper, as <<event, position>>
  toMove,     \* files the script has listed and not moved yet
  resets,     \* how often it was run
  quiet,      \* whether no ant ran since it began; or since it ended, if it did
  emptied,    \* the last run came to its end, and was quiet
  closings,   \* closings[t]: how often a position was closed
  unwritten,  \* history: unwritten[t]: how many of them no line says
  halfway,    \* history: an ant was made from files one could not be read of, or from those
              \* of a run that had not come to its end
  aborted,    \* history: such a run was given up
  pool,       \* lines of the research log
  archives,   \* archives that have a manifest, as the lines in them
  restored,   \* those restored since the log was last rewritten
  loose,      \* lines in an archive that has no manifest
  copied,     \* the lines the script has read
  poolStep,   \* where it is
  poolRuns,   \* how often it was run
  written,    \* history: lines that were appended
  raced       \* history: lines appended between its read and its write

scriptVars    == <<toMove, resets, quiet, aborted>>
paperFileVars == <<antUp, antLife, holds, closing, papers, scriptVars, emptied, closings, unwritten, halfway>>
poolVars      == <<pool, archives, restored, loose, copied, poolStep, poolRuns, written, raced>>
resetVars     == <<paperFileVars, poolVars>>

ResetInit ==
  /\ antUp = TRUE /\ antLife = 1 /\ holds = {} /\ closing = {}
  /\ papers = [f \in AntFiles |-> {}] /\ toMove = {} /\ resets = 0
  /\ quiet = FALSE /\ emptied = FALSE
  /\ closings = [t \in Trades |-> 0] /\ unwritten = [t \in Trades |-> 0]
  /\ halfway = FALSE /\ aborted = FALSE
  /\ pool = {} /\ archives = {} /\ restored = {} /\ loose = {} /\ copied = {} /\ poolStep = "idle" /\ poolRuns = 0
  /\ written = {} /\ raced = {}

--------------------------------------------------------------------------------
(* The paper ant. *)

Events(files) == UNION {papers[f] : f \in files}

Recovered(files) ==
  {t \in Trades : <<"opened", t>> \in Events(files) /\ <<"closed", t>> \notin Events(files)}

Writes(event, t) ==
  /\ papers' = [papers EXCEPT ![antLife] = @ \cup {<<event, t>>}]
  /\ emptied' = FALSE

\* A line that cannot be written is passed over.
Opens(t) ==
  /\ antUp /\ closing = {} /\ t \notin holds /\ closings[t] = 0
  /\ \A f \in AntFiles : <<"opened", t>> \notin papers[f]
  /\ holds' = holds \cup {t}
  /\ Writes("opened", t) \/ UNCHANGED <<papers, emptied>>
  /\ UNCHANGED <<antUp, antLife, closing, scriptVars, closings, unwritten, halfway>>

\* _process_exits: the ledger has it closed, and then the line is written.
Closes(t) ==
  /\ antUp /\ closing = {} /\ t \in holds
  /\ holds' = holds \ {t} /\ closing' = {t}
  /\ closings' = [closings EXCEPT ![t] = @ + 1]
  /\ UNCHANGED <<antUp, antLife, papers, emptied, scriptVars, unwritten, halfway>>

WritesClosed(t) ==
  /\ t \in closing /\ closing' = {}
  /\ \/ Writes("closed", t) /\ UNCHANGED unwritten
     \/ unwritten' = [unwritten EXCEPT ![t] = @ + 1] /\ UNCHANGED <<papers, emptied>>
  /\ UNCHANGED <<antUp, antLife, holds, scriptVars, closings, halfway>>

AntDies ==
  /\ antUp /\ antUp' = FALSE /\ holds' = {} /\ closing' = {}
  /\ unwritten' = [t \in Trades |-> IF t \in closing THEN unwritten[t] + 1 ELSE unwritten[t]]
  /\ UNCHANGED <<antLife, papers, emptied, scriptVars, closings, halfway>>

\* _load_open_symbols_from_logs: it holds what the files it can read say is open.
AntIsMade ==
  /\ ~antUp /\ antLife < MaxAnts
  /\ antUp' = TRUE /\ antLife' = antLife + 1
  /\ \E unread \in SUBSET {f \in AntFiles : papers[f] # {}} :
       /\ holds' = Recovered(AntFiles \ unread)
       /\ halfway' = (halfway \/ aborted \/ toMove # {} \/ unread # {})
  /\ quiet' = FALSE
  /\ UNCHANGED <<closing, papers, toMove, resets, emptied, closings, unwritten, aborted>>

--------------------------------------------------------------------------------
(* reset_paper_state.py *)

\* Mutant: only the file of the ant made last.
ListFiles_TheLast == toMove' = {f \in AntFiles : papers[f] # {} /\ f = antLife}

\* _collect_paper_files
ListFiles == toMove' = {f \in AntFiles : papers[f] # {}}

ResetBegins ==
  /\ toMove = {} /\ resets < MaxResets /\ Events(AntFiles) # {}
  /\ ListFiles
  /\ resets' = resets + 1 /\ quiet' = ~antUp /\ emptied' = FALSE
  /\ UNCHANGED <<antUp, antLife, holds, closing, papers, closings, unwritten, halfway, aborted>>

\* A file goes to the archive with what is in it by then.
MoveFile(f) ==
  /\ f \in toMove
  /\ papers' = [papers EXCEPT ![f] = {}]
  /\ toMove' = toMove \ {f}
  /\ emptied' = (quiet /\ toMove = {f})
  /\ UNCHANGED <<antUp, antLife, holds, closing, resets, quiet, closings, unwritten, halfway, aborted>>

\* An exception, of a file that is in use for one, or the operator.
ResetStops ==
  /\ toMove # {}
  /\ toMove' = {} /\ aborted' = TRUE
  /\ UNCHANGED <<antUp, antLife, holds, closing, papers, resets, quiet, emptied, closings,
                 unwritten, halfway>>

PaperFilesStep ==
  \/ \E t \in Trades : Opens(t) \/ Closes(t) \/ WritesClosed(t)
  \/ AntDies \/ AntIsMade
  \/ ResetBegins \/ (\E f \in AntFiles : MoveFile(f)) \/ ResetStops

--------------------------------------------------------------------------------
(* reset_research_pool.py, with one file in the log. *)

AppendLine(l) ==
  /\ l \notin written
  /\ pool' = pool \cup {l} /\ written' = written \cup {l}
  /\ raced' = IF poolStep \in {"read", "archived"} THEN raced \cup {l} ELSE raced
  /\ UNCHANGED <<archives, restored, loose, copied, poolStep, poolRuns>>

\* Nothing is done when there is nothing old.
ReadPool ==
  /\ poolStep = "idle" /\ poolRuns < MaxResets /\ pool \cap OldLines # {}
  /\ copied' = pool /\ poolStep' = "read" /\ poolRuns' = poolRuns + 1
  /\ UNCHANGED <<pool, archives, restored, loose, written, raced>>

\* Mutant: the log is written in place of the archive, and the archive with the manifest.
WriteArchive_Late ==
  /\ poolStep = "read"
  /\ pool' = copied \ OldLines /\ restored' = {} /\ poolStep' = "archived"
  /\ UNCHANGED <<archives, loose, copied, poolRuns, written, raced>>

\* The archive is of this run: what a run before left without a manifest stays so.
WriteArchive ==
  /\ poolStep = "read"
  /\ loose' = loose \cup (copied \cap OldLines) /\ poolStep' = "archived"
  /\ UNCHANGED <<pool, archives, restored, copied, poolRuns, written, raced>>

\* The log is replaced by the lines that were read and are not old.
WriteCurrent ==
  /\ poolStep = "archived"
  /\ pool' = copied \ OldLines /\ restored' = {} /\ poolStep' = "written"
  /\ UNCHANGED <<archives, loose, copied, poolRuns, written, raced>>

WriteManifest ==
  /\ poolStep = "written"
  /\ archives' = archives \cup {copied \cap OldLines} /\ poolStep' = "idle"
  /\ loose' = loose \ copied
  /\ UNCHANGED <<pool, restored, copied, poolRuns, written, raced>>

PoolScriptDies ==
  /\ poolStep # "idle"
  /\ poolStep' = "idle"
  /\ UNCHANGED <<pool, archives, restored, loose, copied, poolRuns, written, raced>>

\* Mutant: the file is opened to be written, not to be appended to.
Restore_Writes ==
  /\ poolStep = "idle" /\ poolRuns < MaxResets
  /\ \E archive \in archives : pool' = archive \ pool /\ restored' = restored \cup {archive}
  /\ poolRuns' = poolRuns + 1
  /\ UNCHANGED <<archives, loose, copied, poolStep, written, raced>>

\* restore_research_pool: lines of an archive that are not in the log are appended, all of
\* them unless the script dies.
Restore ==
  /\ poolStep = "idle" /\ poolRuns < MaxResets
  /\ \E archive \in archives : \E lines \in SUBSET archive :
       /\ pool' = pool \cup lines
       /\ restored' = IF archive \subseteq pool' THEN restored \cup {archive} ELSE restored
  /\ poolRuns' = poolRuns + 1
  /\ UNCHANGED <<archives, loose, copied, poolStep, written, raced>>

PoolStep ==
  \/ \E l \in PoolLines : AppendLine(l)
  \/ ReadPool \/ WriteArchive \/ WriteCurrent \/ WriteManifest \/ PoolScriptDies \/ Restore

ResetStep ==
  \/ PaperFilesStep /\ UNCHANGED poolVars
  \/ PoolStep /\ UNCHANGED paperFileVars

--------------------------------------------------------------------------------
(* Properties. *)

\* A reset that came to its end while no ant ran leaves nothing to recover; and for each
\* time but one that a position was closed a line was not written, of a close before,
\* unless an ant was made without all the files: of a reset that had moved some and not the
\* others, or that it could not read.
PapersAreKept ==
  /\ emptied => Recovered(AntFiles) = {}
  /\ ~halfway => \A t \in Trades : closings[t] <= 1 + unwritten[t]

\* No line of the research log is in neither the log nor an archive, but one that was
\* appended between the read and the write of a reset; and once every archive was restored
\* the log has all of them, but those a script that died put away without a manifest.
PoolIsKept ==
  /\ written \ raced \subseteq pool \cup loose \cup (UNION archives)
  /\ archives \subseteq restored => written \ (raced \cup loose) \subseteq pool

ResetsAreSafe == PapersAreKept /\ PoolIsKept
================================================================================
