------------------------------ MODULE MCLedger ------------------------------
(* The ledger with three addresses and three witnesses.                     *)
EXTENDS Ledger, TLC

CONSTANTS a, b, c, p1, p2, p3

MCAddress == {a, b, c}
MCPeer == {p1, p2, p3}
MCCarried == {{}, {p1, p2}}
PeerSymmetry == Permutations({p1, p2})

Tx(from, to, amount, fee, nonce, defect) ==
    [from |-> from, to |-> to, amount |-> amount, fee |-> fee,
     ts |-> 2 * nonce, nonce |-> nonce, defect |-> defect]

\* a sends to b and c, with two different transactions for each nonce, and b
\* passes money on.  The timestamps grow with the nonce: hours overlap partly.
Good ==
    {Tx(a, b, 1, 0, n, "none") : n \in 0 .. 2}
        \cup {Tx(a, c, 2, 1, n, "none") : n \in 0 .. 1}
        \cup {Tx(b, c, 1, 0, 0, "none")}

\* One transaction per reason to refuse it.
Refused ==
    {Tx(a, b, 0, 0, 0, "none"), Tx(a, b, 3, 0, 0, "none"),
     Tx(a, b, 7, 1, 0, "none"), Tx(a, a, 1, 0, 0, "none")}
        \cup {Tx(a, b, 1, 0, 0, d) : d \in Defects \ {"none"}}

MCSubmitted == Good \cup Refused
=============================================================================
