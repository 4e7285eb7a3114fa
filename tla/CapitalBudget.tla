------------------------------ MODULE CapitalBudget ------------------------------
(***************************************************************************)
(* What the Queen promises about the colony's capital: a mission is granted *)
(* only if its capital_limit still fits into the total, and capital comes  *)
(* back only by revoking a mission (ant_colony/queen/queen.py, module      *)
(* docstring, "Kapitaalhierarchie").  Of missions that callers bring at     *)
(* the same time one may take the place of another.                        *)
(***************************************************************************)
EXTENDS Integers, Functions

CONSTANTS
  Missions,   \* missions that may ever be granted
  Total,      \* capital_total
  CapitalOf,  \* their capital_limits
  Rivals      \* those that callers may bring at the same time

VARIABLE held   \* the missions granted and not revoked

BudgetInit == held = {}

Grant(m, replaced) ==
  /\ m \notin held
  /\ replaced # {} => m \in Rivals
  /\ SumFunctionOnSet(CapitalOf, (held \ replaced) \cup {m}) <= Total
  /\ held' = (held \ replaced) \cup {m}

Return(m) == m \in held /\ held' = held \ {m}

BudgetNext ==
  \E m \in Missions : Return(m) \/ \E replaced \in SUBSET (held \cap Rivals) : Grant(m, replaced)

BudgetSpec == BudgetInit /\ [][BudgetNext]_held
================================================================================
