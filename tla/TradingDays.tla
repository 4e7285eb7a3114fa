------------------------------ MODULE TradingDays ------------------------------
(***************************************************************************)
(* The time the ants on equities act by: the date, which their signals are *)
(* named for, and the time of the day in coarse units, for the ages and    *)
(* rests of positions.                                                     *)
(***************************************************************************)
EXTENDS Integers

CONSTANTS
  PerDay,    \* units of time in a day
  MaxNow     \* bounds the time

ASSUME TimeAssumption == PerDay \in Nat \ {0} /\ MaxNow \in Nat

VARIABLE now

Today == now \div PerDay
Days  == 0 .. MaxNow \div PerDay

TimePasses == now < MaxNow /\ now' = now + 1
================================================================================
