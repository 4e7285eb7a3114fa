-------------------------------- MODULE NewsAnt --------------------------------
(***************************************************************************)
(* NewsAnt (ant_colony/ants/news_ant.py): asks a news service with a quota *)
(* of calls per day, one query after another, and keeps count of the day's *)
(* calls in a file that every counted call writes over.                    *)
(***************************************************************************)
EXTENDS Integers

CONSTANTS
  CallLimit,                       \* _DAILY_CALL_LIMIT
  Rounds,                          \* how many queries a tick may have: weekend or not
  MaxNewsDay, MaxNewsTicks, MaxNewsLives   \* bounds: days, ticks, lives of the ant

ASSUME NewsAssumption == CallLimit \in Nat /\ Rounds \subseteq Nat /\ MaxNewsDay \in Nat

VARIABLES
  newsDay,    \* the date
  newsTicks, newsLives,
  toAsk,      \* queries left in this tick; 0 between ticks
  calls,      \* _daily_calls
  countedDay, \* _reset_date
  usage,      \* api_usage.json: its date, none if absent or torn, and its calls
  made,       \* history: calls made on each day
  uncounted   \* history: calls of a day that no counter of it holds

newsVars == <<newsDay, newsTicks, newsLives, toAsk, calls, countedDay, usage, made, uncounted>>

NewsDays == 0 .. MaxNewsDay
NoUsage  == [day |-> -1, calls |-> 0]

NewsInit ==
  /\ newsDay = 0 /\ newsTicks = 0 /\ newsLives = 1 /\ toAsk = 0
  /\ calls = 0 /\ countedDay = 0 /\ usage = NoUsage
  /\ made = [d \in NewsDays |-> 0] /\ uncounted = [d \in NewsDays |-> 0]

\* _maybe_reset_daily_counter: a new date starts a new count.
NewCount == newsDay # countedDay /\ calls' = 0 /\ countedDay' = newsDay

\* _tick: at the limit nothing is asked.  A new count that cannot be written ends the tick,
\* and may leave no file.
NewsTick ==
  /\ toAsk = 0 /\ newsTicks < MaxNewsTicks
  /\ newsTicks' = newsTicks + 1
  /\ \/ /\ \/ NewCount /\ usage' = [day |-> newsDay, calls |-> 0]
           \/ newsDay = countedDay /\ UNCHANGED <<calls, countedDay, usage>>
        /\ IF calls' >= CallLimit THEN toAsk' = 0 ELSE toAsk' \in Rounds
     \/ NewCount /\ usage' \in {usage, NoUsage} /\ toAsk' = 0
  /\ UNCHANGED <<newsDay, newsLives, made, uncounted>>

\* The call was made today; the counter it goes to may still be yesterday's.
Made(isCounted) ==
  /\ made' = [made EXCEPT ![newsDay] = @ + 1]
  /\ uncounted' = IF isCounted /\ countedDay = newsDay THEN uncounted
                  ELSE [uncounted EXCEPT ![newsDay] = @ + 1]

\* _fetch_one and _record_api_call: an answer is counted, a call that raises is not;
\* either failure ends the tick's queries, as does a count that cannot be written.
AskNews ==
  /\ toAsk > 0 /\ calls < CallLimit
  /\ \/ /\ Made(TRUE) /\ calls' = calls + 1
        /\ \/ usage' = [day |-> countedDay, calls |-> calls + 1] /\ toAsk' \in {toAsk - 1, 0}
           \/ usage' \in {usage, NoUsage} /\ toAsk' = 0
     \/ Made(FALSE) /\ toAsk' = 0 /\ UNCHANGED <<calls, usage>>
  /\ UNCHANGED <<newsDay, newsTicks, newsLives, countedDay>>

\* The limit is reached within the tick.
NewsLimit ==
  /\ toAsk > 0 /\ calls >= CallLimit
  /\ toAsk' = 0
  /\ UNCHANGED <<newsDay, newsTicks, newsLives, calls, countedDay, usage, made, uncounted>>

Midnight ==
  /\ newsDay < MaxNewsDay /\ newsDay' = newsDay + 1
  /\ UNCHANGED <<newsTicks, newsLives, toAsk, calls, countedDay, usage, made, uncounted>>

\* Mutant: the new ant counts from zero.
LoadedCalls_Zero == 0

\* _load_api_usage: only a count of today is taken over.
LoadedCalls == IF usage.day = newsDay THEN usage.calls ELSE 0

\* The process dies; of what the ant had counted today, what the file did not hold
\* is lost.
NewsRestart ==
  /\ newsLives < MaxNewsLives /\ newsLives' = newsLives + 1
  /\ calls' = LoadedCalls /\ countedDay' = newsDay /\ toAsk' = 0
  /\ LET known == IF countedDay = newsDay THEN calls ELSE 0
         kept  == IF usage.day = newsDay THEN usage.calls ELSE 0
     IN uncounted' = [uncounted EXCEPT ![newsDay] = @ + known - kept]
  /\ UNCHANGED <<newsDay, newsTicks, usage, made>>

NewsStep == NewsTick \/ AskNews \/ NewsLimit \/ Midnight \/ NewsRestart

\* Over all lives of the ant, no day has more calls than the limit, but for those no
\* counter held: calls that raised, that came after midnight in a tick of the day
\* before, or whose count the disk lost.
NewsCallsAreCounted == \A d \in NewsDays : made[d] - uncounted[d] <= CallLimit
================================================================================
