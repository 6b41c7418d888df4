----------------------------- MODULE MCCoinNet -----------------------------
(* Three nodes that share the genesis of one of them.                        *)
EXTENDS CoinNet, TLC

CONSTANTS n1, n2, n3

MCNode == {n1, n2, n3}
Funded == [n \in MCNode |-> IF n = n1 THEN 4 ELSE 0]
=============================================================================
