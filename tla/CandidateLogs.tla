----------------------------- MODULE CandidateLogs -----------------------------
(***************************************************************************)
(* The logs through which ideas for strategies reach the colony            *)
(* (ANT_LOGS/ingestion, research and strategy), and how the lines in them  *)
(* are read.  Each is appended to by several ants and read by others, from *)
(* the top, with no lock and no mark of what was read.                     *)
(*                                                                         *)
(* An idea stands for the id of an ingested candidate.  It is derived from *)
(* the url or the text (uuid5), so two ants that find one url write one    *)
(* id; the order of the files of a directory is taken to be the order in   *)
(* which their lines were written.  The ant that begins the first of the   *)
(* logs follows.                                                           *)
(***************************************************************************)
EXTENDS Integers, FiniteSets, Sequences, Functions

CONSTANTS
  Ideas,      \* ids of ingested candidates
  Exits,      \* ideas whose text names exit indicators
  Symbols,    \* the symbols of the research mission
  OwnSignals, \* signal types of the detectors of the research ant
  MaxLives,   \* how many objects of a class supervisors make: bounds the restarts
  None        \* nothing in hand

ASSUME LogsAssumption ==
  /\ Exits \subseteq Ideas /\ MaxLives \in Nat \ {0}
  /\ None \notin Ideas /\ None \notin Symbols \X (OwnSignals \cup Ideas)

VARIABLES
  ingestion,  \* candidate_ingested: records of the idea and who wrote it
  research    \* candidate_accepted: records of symbol, signal and the ant's life

logVars == <<ingestion, research>>

Ingested  == {e.idea : e \in Range(ingestion)}
Signals   == OwnSignals \cup Ideas
Keys      == Symbols \X Signals
Lives     == 1 .. MaxLives
Copies(idea, by) == Cardinality({n \in DOMAIN ingestion : ingestion[n] = [idea |-> idea, by |-> by]})

Ingest(idea, by) ==
  ingestion' = Append(ingestion, [idea |-> idea, by |-> by]) /\ UNCHANGED research

LogsInit == ingestion = <<>> /\ research = <<>>

--------------------------------------------------------------------------------
(* The ant that collects strategies from GitHub, Reddit and Dev.to, and begins  *)
(* the first of the logs (ant_colony/ants/ingestion_ant.py).  What it has seen  *)
(* is kept in memory and noted before the page is fetched: a fetch that fails   *)
(* is not tried again in this life, and a new life writes the same pages again. *)

CONSTANTS
  Repos,        \* ideas found on GitHub: their README is fetched
  Posts,        \* ideas found on Reddit and Dev.to: the text comes with the search
  MaxFetches    \* _MAX_REPOS_PER_TICK

VARIABLES
  webSeen,      \* _seen_urls
  webItem,      \* the page it is at work on
  webFetches    \* repos_this_tick

webVars == <<webSeen, webItem, webFetches>>

IngestionInit == webSeen = {} /\ webItem = None /\ webFetches = 0

\* The next cycle through the search terms.
IngestionTick ==
  /\ webItem = None
  /\ webFetches' = 0
  /\ UNCHANGED <<webSeen, webItem, logVars>>

\* A repository with stars and a url that was not seen; its README is fetched,
\* which counts towards the limit of the tick whatever comes of it.
NoticeRepo ==
  /\ webItem = None /\ webFetches < MaxFetches
  /\ \E i \in Repos \ webSeen : webSeen' = webSeen \cup {i} /\ webItem' = i
  /\ webFetches' = webFetches + 1
  /\ UNCHANGED logVars

\* A post or an article that names a strategy.
NoticePost ==
  /\ webItem = None
  /\ \E i \in Posts \ webSeen : webSeen' = webSeen \cup {i} /\ webItem' = i
  /\ UNCHANGED <<webFetches, logVars>>

\* No README, or neither entry nor exit indicators in it.
DropPage ==
  /\ webItem # None
  /\ webItem' = None
  /\ UNCHANGED <<webSeen, webFetches, logVars>>

\* _extract_strategy wants both kinds of indicators.
WritePage ==
  /\ webItem \in Exits
  /\ Ingest(webItem, "web")
  /\ webItem' = None
  /\ UNCHANGED <<webSeen, webFetches>>

IngestionStep == IngestionTick \/ NoticeRepo \/ NoticePost \/ DropPage \/ WritePage
================================================================================
