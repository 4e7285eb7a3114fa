-------------------------------- MODULE MCPaper --------------------------------
(* PaperTrading for TLC, on one symbol: p1 and p5 approved longs, which take the  *)
(* scout path; p2 and p3 research positions of a candidate without a strategy,    *)
(* logged under another name than they are registered, p2 short; p4 a short with  *)
(* a strategy.  Two may have one slot, and the two shorts have slots of their own. *)
EXTENDS PaperTrading, TLC

CONSTANTS p1, p2, p3, p4, p5, w1, w2, btc, scout, unknown, momentum

MCSymbolOf   == [p \in Positions |-> btc]
MCStrategyOf == [p \in Positions |-> CASE p \in {p1, p5} -> None [] p = p4 -> momentum [] OTHER -> unknown]
MCLoggedOf   == [p \in Positions |-> IF p = p4 THEN momentum ELSE scout]

WorkersAlike == Permutations(Workers)
================================================================================
