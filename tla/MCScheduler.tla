------------------------------ MODULE MCScheduler ------------------------------
(* ColonyScheduler for TLC: two nodes, one agent on each but the last. *)
EXTENDS ColonyScheduler, TLC

CONSTANTS a1, a2, n1, n2

MCSameNode == [a \in Agents |-> n1]

MCSymmetry == Permutations(Agents)

MCNodeOf == [a \in Agents |-> IF a = a1 THEN n1 ELSE n2]
================================================================================
