----------------------------- MODULE MCNodeCore -----------------------------
(* NodeCore for TLC: three peers for a table of two, a queue of two messages. *)
EXTENDS NodeCore, TLC

CONSTANTS p1, p2, p3

SmallBudget == [s \in NodeState |-> IF s = "Active" THEN 2 ELSE 1]
Symmetry == Permutations(Peer)
=============================================================================
