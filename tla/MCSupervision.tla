------------------------------ MODULE MCSupervision ------------------------------
(* AntSupervision for TLC: one node, every ant on it. *)
EXTENDS AntSupervision, TLC

CONSTANTS n1

MCNodeOf   == [a \in Agents |-> n1]
MCSymmetry == Permutations(Agents)
================================================================================
