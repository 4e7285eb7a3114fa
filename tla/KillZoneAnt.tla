------------------------------- MODULE KillZoneAnt -------------------------------
(***************************************************************************)
(* The ant that proposes trades in two windows of the day                  *)
(* (ant_colony/ants/killzone_ant.py).  It writes straight into the         *)
(* approved log, past the promoter and the Queen.  What it has emitted in  *)
(* a window it knows until the window ends or the ant does.                *)
(***************************************************************************)
EXTENDS Integers, FiniteSets, Sequences

CONSTANTS
  KzSymbols,   \* the symbols of its mission
  Windows,     \* the sessions of a day, in their order: a sequence of names
  MaxDays,     \* bounds the days
  Outside      \* no session

ASSUME KillZoneAssumption ==
  /\ MaxDays \in Nat
  /\ Len(Windows) \in Nat /\ DOMAIN Windows = 1 .. Len(Windows)
  /\ \A n \in DOMAIN Windows : Windows[n] # Outside
  /\ \A m, n \in DOMAIN Windows : Windows[m] = Windows[n] => m = n

VARIABLES
  clock,       \* where the day is: 2n - 1 before the n-th window, 2n in it
  days,        \* days that have ended
  kzSession,   \* _current_session
  kzDay,       \* the day its tick began on
  kzEmitted,   \* the symbols of _emitted: all of one session
  kzTodo,      \* symbols of this tick it has still to look at
  kzLines,     \* kzLines[s]: its lines for s: the day, the session, and the ant's life
  kzLife       \* history: ants made so far

kzVars == <<clock, days, kzSession, kzDay, kzEmitted, kzTodo, kzLines, kzLife>>

KillZoneInit ==
  /\ clock = 1 /\ days = 0
  /\ kzSession = Outside /\ kzDay = 0 /\ kzEmitted = {} /\ kzTodo = {}
  /\ kzLines = [s \in KzSymbols |-> <<>>] /\ kzLife = 1

\* _current_kill_zone
SessionNow == IF clock % 2 = 0 THEN Windows[clock \div 2] ELSE Outside

\* Time goes on, also during a tick.  The ant looks at the clock every minute, so
\* it sees every window and every gap between them unless a tick outlasts one.
ClockMoves ==
  /\ IF clock = 2 * Len(Windows) + 1
       THEN clock' = 1 /\ days' = days + 1 /\ days < MaxDays
       ELSE clock' = clock + 1 /\ UNCHANGED days
  /\ UNCHANGED <<kzSession, kzDay, kzEmitted, kzTodo, kzLines, kzLife>>

\* Mutant: the memory is cleared with every tick.
KillZoneTick_Clears ==
  /\ kzTodo = {}
  /\ kzSession' = SessionNow /\ kzDay' = days
  /\ kzEmitted' = {}
  /\ kzTodo' = IF SessionNow = Outside THEN {} ELSE KzSymbols \ kzEmitted'
  /\ UNCHANGED <<clock, days, kzLines, kzLife>>

\* A turn of the loop: when the session is another, the memory is cleared; within
\* a session, the symbols not emitted yet are looked at.
KillZoneTick ==
  /\ kzTodo = {}
  /\ kzSession' = SessionNow /\ kzDay' = days
  /\ kzEmitted' = IF SessionNow = kzSession THEN kzEmitted ELSE {}
  /\ kzTodo' = IF SessionNow = Outside THEN {} ELSE KzSymbols \ kzEmitted'
  /\ UNCHANGED <<clock, days, kzLines, kzLife>>

\* Too few candles, or not all three criteria point up.
KillZonePasses(s) ==
  /\ s \in kzTodo
  /\ kzTodo' = kzTodo \ {s}
  /\ UNCHANGED <<clock, days, kzSession, kzDay, kzEmitted, kzLines, kzLife>>

\* All three do: the symbol is noted, and the candidate is appended, under the
\* session of the tick, unless the write fails.
KillZoneEmits(s) ==
  /\ s \in kzTodo
  /\ kzTodo' = kzTodo \ {s}
  /\ kzEmitted' = kzEmitted \cup {s}
  /\ \/ kzLines' = [kzLines EXCEPT ![s] = Append(@, <<kzDay, kzSession, kzLife>>)]
     \/ UNCHANGED kzLines
  /\ UNCHANGED <<clock, days, kzSession, kzDay, kzLife>>

\* TTL, crash, and what the supervisor makes next: an ant outside any session.
KillZoneRestart ==
  /\ kzLife < MaxDays + 1
  /\ kzLife' = kzLife + 1
  /\ kzSession' = Outside /\ kzEmitted' = {} /\ kzTodo' = {}
  /\ UNCHANGED <<clock, days, kzDay, kzLines>>

KillZoneStep ==
  \/ ClockMoves \/ KillZoneTick \/ KillZoneRestart
  \/ \E s \in KzSymbols : KillZonePasses(s) \/ KillZoneEmits(s)

--------------------------------------------------------------------------------
(* Properties. *)

\* "One candidate per session window": a life of the ant writes one line for a
\* symbol in a session of a day, however long its ticks take (_emitted).
OneLinePerWindow ==
  \A s \in KzSymbols : \A m, n \in DOMAIN kzLines[s] : kzLines[s][m] = kzLines[s][n] => m = n
================================================================================
