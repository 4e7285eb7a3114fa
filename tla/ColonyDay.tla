------------------------------- MODULE ColonyDay -------------------------------
(***************************************************************************)
(* The life of a colony around its ants: how it is started, the Queen that *)
(* grants it missions, the processes it lives in, the loop, the scout and  *)
(* the laboratory that look at its market, and the scripts that put its    *)
(* logs away.                                                              *)
(*                                                                         *)
(* No two of these parts write the same variable, and none of their        *)
(* properties speaks of two: a behaviour is one of a part, named by cast,  *)
(* while the others stay where they began.                                 *)
(***************************************************************************)
EXTENDS QueenMissions, ColonyBootstrap, ColonyService, PaperLoop, Backtester, MarketScout, ResetTools

CONSTANT Parts   \* parts a behaviour may be one of: two of them are the Queen's, with the
                 \* missions of one issuer ("queen") or of several ("callers")

VARIABLE cast    \* the part

dayVars == <<queenVars, bootVars, serviceVars, loopVars, btVars, marketVars, resetVars, cast>>

\* A part that stands still begins in one of the states it may begin in.
Begins(part, choices) == IF cast = part THEN choices ELSE {CHOOSE one \in choices : TRUE}

DayInit ==
  /\ cast \in Parts
  /\ QueenInit /\ ResetInit
  /\ options \in Begins("boot", OptIns)     /\ BootInit
  /\ listener \in Begins("service", {{}, {Nobody}}) /\ ServiceInit
  /\ chain \in Begins("loop", Chains)       /\ LoopInit
  /\ closes \in Begins("lab", Series)       /\ setup \in Begins("lab", Setups) /\ BacktestInit
  /\ candle \in Begins("scout", {Fresh(o[1], o[2]) : o \in Openings}) /\ MarketInit

\* One issuer has the missions that are brought by themselves, several bring Rivals; limits
\* and nodes then stay as they are while they do.
Brings(c) ==
  CASE cast = "queen" -> IF c = CHOOSE one \in Issuers : TRUE THEN Missions \ Rivals ELSE {}
    [] cast = "callers" -> Rivals

QueenDay ==
  /\ cast \in {"queen", "callers"}
  /\ QueenNext
  /\ \A c \in Issuers : arg'[c] \in Brings(c) \cup {None}
  /\ cast = "callers" =>
       /\ UNCHANGED <<limit, plan>>
       /\ UNCHANGED nodes \/ \A c \in Issuers : pc[c] = "idle"
  /\ UNCHANGED <<bootVars, serviceVars, loopVars, btVars, marketVars, resetVars>>
BootDay    == cast = "boot" /\ BootStep
             /\ UNCHANGED <<queenVars, serviceVars, loopVars, btVars, marketVars, resetVars>>
ServiceDay == cast = "service" /\ ServiceStep
             /\ UNCHANGED <<queenVars, bootVars, loopVars, btVars, marketVars, resetVars>>
LoopDay    == cast = "loop" /\ LoopStep
             /\ UNCHANGED <<queenVars, bootVars, serviceVars, btVars, marketVars, resetVars>>
LabDay     == cast = "lab" /\ BacktestStep
             /\ UNCHANGED <<queenVars, bootVars, serviceVars, loopVars, marketVars, resetVars>>
ScoutDay   == cast = "scout" /\ MarketStep
             /\ UNCHANGED <<queenVars, bootVars, serviceVars, loopVars, btVars, resetVars>>
ResetDay   == cast = "reset" /\ ResetStep
             /\ UNCHANGED <<queenVars, bootVars, serviceVars, loopVars, btVars, marketVars>>

DayNext ==
  /\ QueenDay \/ BootDay \/ ServiceDay \/ LoopDay \/ LabDay \/ ScoutDay \/ ResetDay
  /\ UNCHANGED cast

DaySpec == DayInit /\ [][DayNext]_dayVars
================================================================================
