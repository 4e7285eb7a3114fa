----------------------------- MODULE WatchtowerAnt -----------------------------
(***************************************************************************)
(* WatchtowerAnt (ant_colony/ants/watchtower_ant.py): polls the Watchtower,*)
(* writes its veto, drops what is weak or risky, and hands the rest to the *)
(* equities paper ant as candidates, at most MaxDaily a day and one per    *)
(* asset in a day's length.  The limits are kept in a file that is written *)
(* last, in place; the Queen is told of every signal with some score.      *)
(*                                                                         *)
(* And what the Queen remembers of those signals                           *)
(* (Queen.register_watchtower_signal, ant_colony/queen/queen.py:664), with *)
(* the thread that keeps the last of it on disk.  A caller changes the     *)
(* memory under a lock, then asks for a write by setting an event; the     *)
(* writer waits for the event, clears it, copies the memory under the      *)
(* lock, and replaces the file.  Several requests may come to one write,   *)
(* and a write that fails is not tried again.                              *)
(***************************************************************************)
EXTENDS Integers, Sequences, SequencesExt, FiniteSets

(* The memory of the Queen. *)
CONSTANT ContextTtl   \* _WATCHTOWER_CONTEXT_TTL

ASSUME ContextAssumption == ContextTtl \in Nat

VARIABLES
  context,       \* _watchtower_state: the events of the last 24 hours
  contextFile,   \* the events in queen/watchtower_state.json
  persistEvent,  \* _watchtower_persist_event
  asking,        \* a caller has changed the memory and not yet set the event
  writer,        \* where the writer thread is; "none" before the first request
  copied,        \* what it copied
  fileFailed     \* the last access to the file raised: the writer's, or the Queen's reading of it

contextVars == <<context, contextFile, persistEvent, asking, writer, copied, fileFailed>>

ContextInit ==
  /\ context = <<>> /\ contextFile = <<>> /\ copied = <<>>
  /\ persistEvent = FALSE /\ asking = FALSE /\ writer = "none" /\ fileFailed = FALSE

\* register_watchtower_signal, up to the lock's release: the event is appended
\* and what is older than the ttl, by the time of its signal, dropped.
Register(event, time) ==
  /\ ~asking
  /\ context' = SelectSeq(Append(context, event), LAMBDA e : e.at >= time - ContextTtl)
  /\ asking' = TRUE
  /\ UNCHANGED <<contextFile, persistEvent, writer, copied, fileFailed>>

\* _request_watchtower_persist: the thread is there before the event is set.
RequestPersist ==
  /\ asking
  /\ asking' = FALSE /\ persistEvent' = TRUE
  /\ writer' = IF writer = "none" THEN "waiting" ELSE writer
  /\ UNCHANGED <<context, contextFile, copied, fileFailed>>

\* Mutant: the event is cleared only once the file is written.
WriterWrites_ThenClears ==
  /\ writer = "holding"
  /\ writer' = "waiting" /\ persistEvent' = FALSE
  /\ \/ contextFile' = copied /\ fileFailed' = FALSE
     \/ fileFailed' = TRUE /\ UNCHANGED contextFile
  /\ UNCHANGED <<context, asking, copied>>

\* _watchtower_persist_loop: wait and clear.
WriterWakes ==
  /\ writer = "waiting" /\ persistEvent
  /\ persistEvent' = FALSE /\ writer' = "awake"
  /\ UNCHANGED <<context, contextFile, asking, copied, fileFailed>>

\* _persist_watchtower_state: the copy is made under the lock.
WriterCopies ==
  /\ writer = "awake"
  /\ copied' = context /\ writer' = "holding"
  /\ UNCHANGED <<context, contextFile, persistEvent, asking, fileFailed>>

\* atomic_write_text: the whole file is replaced, or, the renaming having failed
\* to the last, none of it.
WriterWrites ==
  /\ writer = "holding"
  /\ writer' = "waiting"
  /\ \/ contextFile' = copied /\ fileFailed' = FALSE
     \/ fileFailed' = TRUE /\ UNCHANGED contextFile
  /\ UNCHANGED <<context, persistEvent, asking, copied>>

WriterStep == WriterWakes \/ WriterCopies \/ WriterWrites

\* The process dies; the next Queen reads the file, or, when it cannot be read, begins with
\* the default memory (_load_watchtower_state).
ContextRestart ==
  /\ \/ context' = contextFile /\ fileFailed' = FALSE
     \/ context' = <<>> /\ fileFailed' = TRUE
  /\ copied' = <<>> /\ persistEvent' = FALSE /\ asking' = FALSE
  /\ writer' = "none"
  /\ UNCHANGED contextFile

ContextStep ==
  \/ \E event, time : Register(event, time)
  \/ RequestPersist \/ WriterStep \/ ContextRestart

\* The Queen's memory and its file, whoever registers what.
ContextSpec == ContextInit /\ [][ContextStep]_contextVars

\* A writer at rest, with no request under way, has written all that the Queen
\* remembers, unless the disk refused its last write, or the Queen could not read
\* the file and has remembered nothing since: no signal that comes while a write is
\* under way is left for the next one to carry along.
LatestContextIsWritten ==
  writer \in {"none", "waiting"} /\ ~persistEvent /\ ~asking /\ ~fileFailed
    => contextFile = context

--------------------------------------------------------------------------------
(* The ant. *)
CONSTANTS
  Polls,       \* what a poll may return: sequences of signals
  WtAssets,    \* their assets
  WtDay,       \* units of time in 24 hours
  MaxAge,      \* _MAX_SIGNAL_AGE_SECONDS in such units
  MaxDaily,    \* _MAX_DAILY_WATCHTOWER_ENTRIES
  MaxWtNow, MaxPolls, MaxLapses   \* bounds: the time, the polls, the limits lost

ASSUME WatchtowerAssumption ==
  /\ WtDay \in Nat \ {0} /\ MaxAge \in Nat /\ MaxDaily \in Nat
  /\ \A poll \in Polls : Len(poll) \in Nat /\ \A n \in DOMAIN poll :
       /\ poll[n].asset \in WtAssets /\ poll[n].age \in Nat
       /\ poll[n].biome \in {"crypto", "equities", "commodity"}

VARIABLES
  wtNow,      \* the time
  polls,      \* polls so far
  wtPc, wtAt, \* where the tick is, and the time it began
  wtTodo,     \* signals still to be filtered, or routed
  wtPassed,   \* signals that passed the filter, then those accepted
  wtTell,     \* accepted signals the Queen is not told of yet
  wtOpen,     \* symbols it found open
  wtLimits,   \* daily_limits of the tick
  limitsFile, \* daily_limits.json: what a tick may load from it
  veto,       \* watchtower_veto.json
  beat,       \* the day and the keys of _heartbeat_signal_keys
  accepted,   \* the lines of candidates.jsonl, each with the limits lost before it
  lapses      \* history: ticks whose limits were lost after their candidates

wtVars ==
  <<contextVars, wtNow, polls, wtPc, wtAt, wtTodo, wtPassed, wtTell, wtOpen, wtLimits, limitsFile,
    veto, beat, accepted, lapses>>

wtTickVars == <<wtAt, wtTodo, wtPassed, wtTell, wtOpen, wtLimits>>
fileVars == <<limitsFile, veto, beat, accepted, lapses>>

Never      == -1
WtToday(t) == t \div WtDay
NoLimits(day) == [day |-> day, total |-> 0, last |-> [a \in WtAssets |-> Never]]
Unread == NoLimits(Never)   \* what is loaded from a file that is absent or torn

\* What a tick knew goes with it.
TickEnds ==
  /\ wtPc' = "idle" /\ wtAt' = 0 /\ wtTodo' = <<>> /\ wtPassed' = <<>> /\ wtTell' = <<>>
  /\ wtOpen' = {} /\ wtLimits' = Unread

WtInit ==
  /\ ContextInit
  /\ wtNow = 0 /\ polls = 0 /\ wtPc = "idle" /\ wtAt = 0
  /\ wtTodo = <<>> /\ wtPassed = <<>> /\ wtTell = <<>>
  /\ wtOpen = {} /\ wtLimits = Unread
  /\ limitsFile = Unread /\ veto = FALSE /\ beat = [day |-> Never, keys |-> {}]
  /\ accepted = <<>> /\ lapses = 0

--------------------------------------------------------------------------------

\* _dedupe_signals: of equal signals the first, in the order of the poll.
Deduped(signals) ==
  {unique \in SeqOf(ToSet(signals), Len(signals)) :
     /\ IsInjective(unique)
     /\ \A n \in DOMAIN signals : \E k \in DOMAIN unique :
          ToSet(SubSeq(unique, 1, k)) = ToSet(SubSeq(signals, 1, n))}

MinEntryScore(s) == IF s.biome = "commodity" THEN 35 ELSE 60
MinConfidence(s) == IF s.biome = "commodity" THEN 30 ELSE 50

WtPasses(s) ==
  s.score >= MinEntryScore(s) /\ s.confidence >= MinConfidence(s) /\ "HIGH_RISK" \notin s.flags

\* _veto_reason.
Vetoes(s) ==
  \/ s.confidence < 40
  \/ s.flags \cap {"macro_sensitive", "stale_news", "high_volatility", "cross_market"} # {}

\* _register_queen_signal: a signal without score is not told.
TellQueen(s, isAccepted) ==
  IF s.score >= 50
    THEN Register([asset |-> s.asset, accepted |-> isAccepted, flags |-> s.flags,
                   score |-> s.score, at |-> wtAt - s.age], wtNow)
    ELSE ~asking /\ UNCHANGED contextVars

\* _write_status_heartbeat: what is counted starts anew with the date.
Beaten(signals) ==
  LET keys == IF beat.day = WtToday(wtNow) THEN beat.keys ELSE {}
  IN [day |-> WtToday(wtNow), keys |-> keys \cup ToSet(signals)]

\* _tick, up to the filter; a Watchtower that does not answer lifts the veto.
Poll ==
  /\ wtPc = "idle" /\ polls < MaxPolls
  /\ polls' = polls + 1
  /\ \/ /\ veto' = FALSE /\ beat' = Beaten(<<>>)
        /\ UNCHANGED <<wtPc, wtTickVars>>
     \/ \E poll \in Polls : \E signals \in Deduped(poll) :
          /\ wtPc' = "filter" /\ wtAt' = wtNow /\ wtTodo' = signals
          /\ veto' = (\E s \in ToSet(signals) : Vetoes(s)) /\ beat' = Beaten(signals)
          /\ UNCHANGED <<wtPassed, wtTell, wtOpen, wtLimits>>
  /\ UNCHANGED <<contextVars, wtNow, limitsFile, accepted, lapses>>

FilterSignal ==
  /\ wtPc = "filter" /\ wtTodo # <<>>
  /\ wtTodo' = Tail(wtTodo)
  /\ IF WtPasses(Head(wtTodo))
       THEN wtPassed' = Append(wtPassed, Head(wtTodo)) /\ ~asking /\ UNCHANGED contextVars
       ELSE TellQueen(Head(wtTodo), FALSE) /\ UNCHANGED wtPassed
  /\ UNCHANGED <<wtNow, polls, wtPc, wtAt, wtTell, wtOpen, wtLimits, fileVars>>

\* Mutant: a new date makes new limits.
LoadedLimits_Anew ==
  IF limitsFile.day = WtToday(wtAt) THEN limitsFile ELSE NoLimits(WtToday(wtAt))

\* _load_daily_limits: a new date makes a new total and keeps when an asset was last
\* accepted; what cannot be read makes new limits.
LoadedLimits ==
  IF limitsFile.day = WtToday(wtAt)
    THEN limitsFile ELSE [limitsFile EXCEPT !.day = WtToday(wtAt), !.total = 0]

\* _route_candidates begins: the open symbols are those the paper logs tell of.
Route ==
  /\ wtPc = "filter" /\ wtTodo = <<>> /\ ~asking
  /\ wtPc' = "route" /\ wtTodo' = wtPassed /\ wtPassed' = <<>>
  /\ wtLimits' = LoadedLimits
  /\ wtOpen' \in SUBSET WtAssets
  /\ UNCHANGED <<contextVars, wtNow, polls, wtAt, wtTell, fileVars>>

\* _build_candidate.
Buildable(s) ==
  /\ s.biome # "crypto" /\ s.long /\ s.age <= MaxAge /\ s.asset \notin wtOpen
  /\ wtLimits.total < MaxDaily
  /\ LET age == wtAt - wtLimits.last[s.asset]
     IN wtLimits.last[s.asset] # Never => ~(0 <= age /\ age < WtDay)

RouteSignal ==
  /\ wtPc = "route" /\ wtTodo # <<>>
  /\ wtTodo' = Tail(wtTodo)
  /\ LET s == Head(wtTodo) IN
       IF Buildable(s)
         THEN /\ wtPassed' = Append(wtPassed, s)
              /\ wtLimits' = [wtLimits EXCEPT !.total = @ + 1, !.last[s.asset] = wtAt]
              /\ ~asking /\ UNCHANGED contextVars
         ELSE TellQueen(s, FALSE) /\ UNCHANGED <<wtPassed, wtLimits>>
  /\ UNCHANGED <<wtNow, polls, wtPc, wtAt, wtOpen, wtTell, fileVars>>

\* _write_candidates; the lines are lost when the disk refuses them, and then only
\* they are.
WriteCandidates ==
  /\ wtPc = "route" /\ wtTodo = <<>> /\ ~asking
  /\ IF wtPassed = <<>>
       THEN TickEnds
       ELSE wtPc' = "tell" /\ wtPassed' = <<>> /\ wtTell' = wtPassed
            /\ UNCHANGED <<wtAt, wtTodo, wtOpen, wtLimits>>
  /\ \/ accepted' = accepted \o [n \in DOMAIN wtPassed |->
          [asset |-> wtPassed[n].asset, at |-> wtAt, lapses |-> lapses]]
     \/ wtPassed # <<>> /\ UNCHANGED accepted
  /\ UNCHANGED <<contextVars, wtNow, polls, limitsFile, veto, beat, lapses>>

TellAccepted ==
  /\ wtPc = "tell" /\ wtTell # <<>>
  /\ TellQueen(Head(wtTell), TRUE) /\ wtTell' = Tail(wtTell)
  /\ UNCHANGED <<wtNow, polls, wtPc, wtAt, wtTodo, wtPassed, wtOpen, wtLimits, fileVars>>

\* _save_daily_limits: the file is written over; a disk that refuses is logged only.
SaveLimits ==
  /\ wtPc = "tell" /\ wtTell = <<>> /\ ~asking
  /\ TickEnds
  /\ \/ limitsFile' = wtLimits /\ UNCHANGED lapses
     \/ /\ lapses < MaxLapses /\ lapses' = lapses + 1
        /\ limitsFile' \in {limitsFile, Unread}
  /\ UNCHANGED <<contextVars, wtNow, polls, veto, beat, accepted>>

\* The process dies; limits that were to be written are lost, or the whole file.
WtCrash ==
  /\ IF wtPc = "tell"
       THEN /\ lapses < MaxLapses /\ lapses' = lapses + 1
            /\ limitsFile' \in {limitsFile, IF wtTell = <<>> THEN Unread ELSE limitsFile}
       ELSE UNCHANGED <<limitsFile, lapses>>
  /\ TickEnds
  /\ beat' = [day |-> Never, keys |-> {}]
  /\ ContextRestart
  /\ UNCHANGED <<wtNow, polls, veto, accepted>>

WtTime == wtNow < MaxWtNow /\ wtNow' = wtNow + 1
          /\ UNCHANGED <<contextVars, polls, wtPc, wtTickVars, fileVars>>

WatchtowerStep ==
  \/ Poll \/ FilterSignal \/ Route \/ RouteSignal \/ WriteCandidates \/ TellAccepted \/ SaveLimits
  \/ WtCrash \/ WtTime
  \/ (RequestPersist \/ WriterStep)
     /\ UNCHANGED <<wtNow, polls, wtPc, wtTickVars, fileVars>>

--------------------------------------------------------------------------------

\* Between two losses of the limits, no day has more than MaxDaily candidates and no
\* asset two within a day's length, whatever restarts and midnights lie between them
\* (_MAX_DAILY_WATCHTOWER_ENTRIES, _MAX_ASSET_ENTRY_INTERVAL_SECONDS).
DailyLimitsHold ==
  /\ \A line \in ToSet(accepted) :
       Cardinality({n \in DOMAIN accepted :
         accepted[n].lapses = line.lapses /\ WtToday(accepted[n].at) = WtToday(line.at)}) <= MaxDaily
  /\ \A m \in DOMAIN accepted, n \in DOMAIN accepted :
       m < n /\ accepted[m].asset = accepted[n].asset /\ accepted[m].lapses = accepted[n].lapses
         => accepted[n].at - accepted[m].at >= WtDay
================================================================================
