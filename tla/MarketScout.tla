------------------------------- MODULE MarketScout -------------------------------
(***************************************************************************)
(* The ScoutAnt (ants/scout_ant.py) and the TimeFilterAnt it listens to    *)
(* (ants/time_filter_ant.py).                                              *)
(*                                                                         *)
(* The filter writes the session of the day to a file of its own, every    *)
(* tick; a reader takes the latest of the last lines of all files, and has *)
(* no objection where it finds none.  The scout looks at the candle of the *)
(* hour every second, so that one candle fills its window many times over. *)
(* It reads the verdict first and fetches the candle then: a session may   *)
(* pass, and the filter write of it, in between.  Of the symbols of its    *)
(* mission the module has one; what it knows of one is nothing to another. *)
(***************************************************************************)
EXTENDS Integers, Sequences, SequencesExt

CONSTANTS
  Sessions,      \* the sessions of the day, as whether trading is allowed in them
  ClosePrices,   \* prices of a candle
  Volumes,       \* volumes of one
  Openings,      \* price and volume a candle may begin with
  Lookback,      \* _MOMENTUM_LOOKBACK
  Baseline,      \* _HISTORY_SIZE
  ZWindow,       \* _MEAN_REVERSION_WINDOW
  MaxFilters,    \* bounds the TimeFilterAnts
  MaxTaken,      \* bounds the candles the scout takes
  MaxSessions    \* bounds the sessions that pass

ASSUME ScoutAssumption ==
  /\ Sessions # <<>> /\ Lookback \in Nat \ {0} /\ Baseline \in Nat \ {0}
  /\ ClosePrices \subseteq Nat \ {0} /\ Openings \subseteq ClosePrices \X Volumes

Filters == 1 .. MaxFilters

VARIABLES
  session,    \* how many sessions have passed
  filter,     \* the TimeFilterAnt that runs, 0 for none
  filters,    \* how many there were
  lastLine,   \* lastLine[f]: of its file, the session it was written in, or torn, or none
  candle,     \* the candle of the hour: [open, high, close, volume]
  scoutPc,    \* whether the scout is idle or in a tick
  taken,      \* the candles the scout took, latest last, as many as it needs
  takes,      \* how many it took
  broke,      \* history: price of the last breakout, and candles taken since
  late,       \* history: the session in which it last signalled against a line that stands
  strayed,    \* history: it did so twice in one session
  stalled     \* history: a breakout no higher than one still in the window

filterVars == <<session, filter, filters, lastLine>>
spotVars   == <<scoutPc, taken, takes, broke, late, strayed, stalled>>
marketVars == <<filterVars, candle, spotVars>>

Torn == -1
NoLine == -2

Allowed(n) == Sessions[1 + (n % Len(Sessions))]

Fresh(p, v) == [open |-> p, high |-> p, close |-> p, volume |-> v]

MarketInit ==
  /\ session = 0 /\ filter = 0 /\ filters = 0
  /\ lastLine = [f \in Filters |-> NoLine]
  /\ \E o \in Openings : candle = Fresh(o[1], o[2])
  /\ scoutPc = "idle" /\ taken = <<>> /\ takes = 0
  /\ broke = [price |-> 0, ago |-> 0] /\ late = NoLine /\ strayed = FALSE /\ stalled = FALSE

--------------------------------------------------------------------------------
(* TimeFilterAnt *)

FilterStarts ==
  /\ filter = 0 /\ filters < MaxFilters
  /\ filters' = filters + 1 /\ filter' = filters + 1
  /\ UNCHANGED <<session, lastLine, candle, spotVars>>

\* _tick: the session it is in.  A write that fails is passed over.
FilterTick ==
  /\ filter # 0
  /\ lastLine' = [lastLine EXCEPT ![filter] = session]
  /\ UNCHANGED <<session, filter, filters, candle, spotVars>>

\* Its ttl is over, or the process dies, maybe in the middle of a line.
FilterEnds ==
  /\ filter # 0
  /\ filter' = 0
  /\ \/ UNCHANGED <<lastLine, late>>
     \/ lastLine' = [lastLine EXCEPT ![filter] = Torn] /\ late' = NoLine
  /\ UNCHANGED <<session, filters, candle, scoutPc, taken, takes, broke, strayed, stalled>>

SessionPasses ==
  /\ session < MaxSessions
  /\ session' = session + 1
  /\ UNCHANGED <<filter, filters, lastLine, candle, spotVars>>

\* read_latest_time_signal: the last line of a file is read or the file passed over.
Readable == {f \in Filters : lastLine[f] >= 0}
Latest   == CHOOSE f \in Readable : \A g \in Readable : lastLine[g] <= lastLine[f]

\* Mutant: the first file found.
MayTrade_FirstFile ==
  Readable # {} => Allowed(lastLine[CHOOSE f \in Readable : \A g \in Readable : f <= g])

MayTrade == Readable # {} => Allowed(lastLine[Latest])

--------------------------------------------------------------------------------
(* The market: trades within the hour, or another hour. *)

Quoted(c, p) == [c EXCEPT !.close = p, !.high = IF p > @ THEN p ELSE @]

Later(c) ==
  {c} \cup {Quoted(c, p) : p \in ClosePrices} \cup {Fresh(o[1], o[2]) : o \in Openings}

--------------------------------------------------------------------------------
(* ScoutAnt *)

Shape(c) == [high |-> c.high, close |-> c.close, volume |-> c.volume]

Keep == IF Lookback + 1 > Baseline THEN Lookback + 1 ELSE Baseline

LastOf(s, n) == SubSeq(s, Len(s) - n + 1, Len(s))
Tailing(s, n) == IF Len(s) > n THEN LastOf(s, n) ELSE s

Summed(s, Value(_)) == FoldLeft(LAMBDA sum, c : sum + Value(c), 0, s)
Volume(c) == c.volume
Close(c)  == c.close
Square(c) == c.close * c.close

\* The candle is in the window already, and compared with those before it.
PriceMoves(c) == 100 * (c.close - c.open) > c.open \/ 100 * (c.open - c.close) > c.open

VolumeSpikes(seen, c) ==
  LET base == Front(Tailing(seen, Baseline))
  IN Len(base) >= 2 /\ Summed(base, Volume) > 0 /\ Len(base) * c.volume > 2 * Summed(base, Volume)

\* Mutant: the candle just before is left out as well.
BreaksOut_SkipsLast(seen, c) ==
  /\ Len(seen) >= Lookback + 1
  /\ \A k \in 1 .. Lookback - 1 : LastOf(seen, Lookback + 1)[k].high < c.close

BreaksOut(seen, c) ==
  /\ Len(seen) >= Lookback + 1
  /\ \A k \in 1 .. Lookback : LastOf(seen, Lookback + 1)[k].high < c.close

\* A z-score below -2.
Oversold(seen, c) ==
  /\ Len(seen) >= ZWindow
  /\ LET window == LastOf(seen, ZWindow)
         away   == ZWindow * c.close - Summed(window, Close)
         spread == ZWindow * Summed(window, Square) - Summed(window, Close) * Summed(window, Close)
     IN spread > 0 /\ away < 0 /\ away * away > 4 * spread

Detected(seen, c) ==
     (IF PriceMoves(c) THEN {"price_move"} ELSE {})
  \cup (IF VolumeSpikes(seen, c) THEN {"volume_spike"} ELSE {})
  \cup (IF BreaksOut(seen, c) THEN {"momentum_breakout"} ELSE {})
  \cup (IF Oversold(seen, c) THEN {"mean_reversion_oversold"} ELSE {})

\* The filter had written a line in this session, and nothing tore it.
InTime == \E f \in Filters : lastLine[f] = session

\* _tick: when the filter says no, the window stays as it is.
ScoutChecks ==
  /\ scoutPc = "idle" /\ MayTrade
  /\ scoutPc' = "ticking"
  /\ UNCHANGED <<filterVars, candle, taken, takes, broke, late, strayed, stalled>>

\* No adapter, no candle, one too old or without a price.
ScoutSkips ==
  /\ scoutPc = "ticking"
  /\ scoutPc' = "idle"
  /\ UNCHANGED <<filterVars, candle, taken, takes, broke, late, strayed, stalled>>

\* The candle is fetched and what it shows signalled, whatever the filter says by now.
ScoutTakes ==
  /\ scoutPc = "ticking" /\ takes < MaxTaken
  /\ candle' \in Later(candle)
  /\ LET seen    == Tailing(Append(taken, Shape(candle')), Keep)
         found   == Detected(seen, candle')
         against == found # {} /\ InTime /\ ~Allowed(session)
     IN /\ taken' = seen
        /\ broke' = IF "momentum_breakout" \in found THEN [price |-> candle'.close, ago |-> 0]
                    ELSE [broke EXCEPT !.ago = @ + 1]
        /\ stalled' = (stalled \/ ("momentum_breakout" \in found /\ broke.price >= candle'.close
                                     /\ broke.ago < Lookback))
        /\ strayed' = (strayed \/ (against /\ late = session))
        /\ late' = IF against THEN session ELSE late
  /\ scoutPc' = "idle" /\ takes' = takes + 1
  /\ UNCHANGED filterVars

MarketStep ==
  \/ FilterStarts \/ FilterTick \/ FilterEnds \/ SessionPasses
  \/ ScoutChecks \/ ScoutSkips \/ ScoutTakes

--------------------------------------------------------------------------------
(* Properties. *)

\* Once the filter has written that a kill zone is over, the tick under way may still
\* signal what it fetched, and no tick after it, whatever the files of filters before it
\* say; and while the window still holds the candle of a breakout, the next one is at a
\* higher price: one rise is not signalled every second of its hour, as a change of price
\* is.
SignalsAreNew == ~strayed /\ ~stalled
================================================================================
