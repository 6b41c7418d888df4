---------------------------- MODULE MCHotWallet ----------------------------
(* A hot wallet and its cold wallet; each needs the other's witness.         *)
EXTENDS HotWallet, TLC

CONSTANTS hot, cold

Pair == {hot, cold}

\* The hot wallet starts above its cap.
Full == [n \in Node |-> CASE n = hot -> 7 [] n = cold -> 4 [] OTHER -> 0]
=============================================================================
