---------------------------- MODULE MCLedgerSteps ----------------------------
(* The ledger in steps, for one or two callers.                              *)
EXTENDS LedgerSteps, TLC

CONSTANTS a, b, c, p1, p2, t1, t2

MCAddress == {a, b, c}
MCPeer == {p1, p2}
Symmetry == Permutations({p1, p2}) \cup Permutations(Thread)

Tx(from, to, amount, fee, nonce) ==
    [from |-> from, to |-> to, amount |-> amount, fee |-> fee,
     ts |-> 2 * nonce, nonce |-> nonce, defect |-> "none"]

MCSubmitted ==
    {Tx(a, b, 1, 0, 0), Tx(a, b, 1, 0, 1), Tx(a, c, 2, 1, 0), Tx(b, c, 1, 0, 0)}
=============================================================================
