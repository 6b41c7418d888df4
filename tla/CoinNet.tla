------------------------------- MODULE CoinNet -------------------------------
(***************************************************************************)
(* MeshCoin between nodes: CoinNode (node.rs of mycelium-coin) on top of a *)
(* LocalLedger per node.  A node's wallet submits transfers, applies them  *)
(* to its own ledger and broadcasts them; every node that accepts one adds *)
(* itself as a witness and broadcasts that.  Messages are delivered at     *)
(* most once and in any order.  sled flushes every five seconds: a node    *)
(* that crashes restarts on the ledger it last flushed.                    *)
(*                                                                         *)
(* The balance query is left out: it changes no state and nothing sends    *)
(* it.  Refill requests are in HotWallet.                                  *)
(***************************************************************************)
EXTENDS Integers, FiniteSets, Functions

CONSTANTS
    Node,           \* nodes; a node is also its peer id and its wallet address
    Amounts,        \* amounts a wallet sends
    Fee,            \* fee a wallet adds
    Genesis,        \* Node -> what genesis_credit gave its address on every ledger
    FaucetAmount,   \* what request_faucet_coins credits
    FaucetNodes,    \* nodes whose user asks the faucet
    CrashNodes,     \* nodes that may crash
    MaxSubmits,     \* bound on submitted transfers
    MaxU64, MaxBalance, MaxTransfer, MaxTxPerHour, MaxOutbound, HourMs,
    MaxStoredEvents, MinWitnesses

ASSUME NetConstants ==
    /\ Amounts \subseteq Nat
    /\ Fee \in Nat
    /\ FaucetAmount \in Nat
    /\ Genesis \in [Node -> Nat]
    /\ FaucetNodes \subseteq Node
    /\ CrashNodes \subseteq Node
    /\ MaxSubmits \in Nat

VARIABLES
    ledger,     \* Node -> the ledger in memory and on disk
    durable,    \* Node -> the ledger as last flushed
    submits,    \* transfers submitted so far; the wallets' clock
    network,    \* messages on their way
    accepted    \* history: Node -> transactions it ever accepted from another node

netVars == <<ledger, durable, submits, network, accepted>>

Submitted ==
    [from : Node, to : Node, amount : 0 .. MaxTransfer, fee : {Fee},
     ts : 0 .. MaxSubmits, nonce : 0 .. MaxSubmits, defect : {"none"}]

\* The rules of module Ledger for the ledger lg of some node.
L(lg) == INSTANCE Ledger
             WITH Address <- Node, Peer <- Node, Carried <- {{}},
                  GenesisAmounts <- {FaucetAmount}, minted <- 0,
                  txs <- lg.txs, accounts <- lg.accounts, velocity <- lg.velocity

Applied(n) == DOMAIN ledger[n].txs
Confirmed(n, tx) == tx \in Applied(n) /\ Cardinality(ledger[n].txs[tx]) >= MinWitnesses

Payloads ==
    [type : {"Transaction"}, tx : Submitted]
        \cup [type : {"Witness"}, tx : Submitted, peer : Node]

Broadcast(n, payload) == {[to |-> m, payload |-> payload] : m \in Node \ {n}}

NetTypeOK ==
    /\ \A n \in Node : /\ L(ledger[n])!TypeOK
                        /\ L(durable[n])!TypeOK
    /\ submits \in 0 .. MaxSubmits
    /\ network \subseteq [to : Node, payload : Payloads]
    /\ accepted \in [Node -> SUBSET Submitted]

-----------------------------------------------------------------------------

EmptyLedger ==
    [txs |-> <<>>,
     accounts |-> [a \in Node |-> [balance |-> Genesis[a], nextNonce |-> 0, pending |-> 0]],
     velocity |-> [a \in Node |-> <<>>]]

NetInit ==
    /\ ledger = [n \in Node |-> EmptyLedger]
    /\ durable = [n \in Node |-> EmptyLedger]
    /\ submits = 0
    /\ network = {}
    /\ accepted = [n \in Node |-> {}]

WithTransaction(lg, tx) ==
    [txs |-> L(lg)!TxsWith(tx, {}), accounts |-> L(lg)!AccountsWith(tx, {}),
     velocity |-> L(lg)!VelocityWith(tx)]

WithWitness(lg, tx, p) ==
    IF L(lg)!NewWitness(tx, p)
    THEN [lg EXCEPT !.txs = L(lg)!TxsWitnessed(tx, p),
                    !.accounts = L(lg)!AccountsWitnessed(tx, p)]
    ELSE lg

\* Mutant: the faucet's credit reaches every ledger.
FaucetEverywhere(n) ==
    /\ ledger[n].accounts[n].balance = 0
    /\ ledger' = [m \in Node |->
                      [ledger[m] EXCEPT !.accounts[n].balance = FaucetAmount]]
    /\ UNCHANGED <<durable, submits, network, accepted>>

\* request_faucet_coins credits the node's address on its own ledger only.
Faucet(n) ==
    LET lg == ledger[n]
    IN  /\ lg.accounts[n].balance = 0
        /\ lg.accounts[n].pending = 0
        /\ L(lg)!BalanceCapOK(0, 0, FaucetAmount)
        /\ ledger' = [ledger EXCEPT ![n].accounts[n].balance = FaucetAmount]
        /\ UNCHANGED <<durable, submits, network, accepted>>

\* submit_transfer_from_identity_path and send_transaction: the next nonce of the
\* node's own ledger, applied there first and broadcast only when accepted.
Transfer(n, to, amount) ==
    [from |-> n, to |-> to, amount |-> amount, fee |-> Fee, ts |-> submits,
     nonce |-> ledger[n].accounts[n].nextNonce, defect |-> "none"]

ApplyOwn(n, tx) ==
    /\ submits < MaxSubmits
    /\ L(ledger[n])!Acceptable(tx)
    /\ submits' = submits + 1
    /\ ledger' = [ledger EXCEPT ![n] = WithTransaction(@, tx)]
    /\ UNCHANGED <<durable, accepted>>

Submit(n, to, amount) ==
    LET tx == Transfer(n, to, amount)
    IN  /\ ApplyOwn(n, tx)
        /\ network' = network \cup Broadcast(n, [type |-> "Transaction", tx |-> tx])

\* The node task has ended and the broadcast fails: send_transaction returns an
\* error, but the node's own ledger keeps the transfer.
SubmitUnsent(n, to, amount) ==
    /\ ApplyOwn(n, Transfer(n, to, amount))
    /\ UNCHANGED network

\* Mutant: a refused transaction is witnessed as well.
ReceiveTransactionEager(n, msg) ==
    LET tx == msg.payload.tx
        ok == L(ledger[n])!Acceptable(tx)
        lg == IF ok THEN WithTransaction(ledger[n], tx) ELSE ledger[n]
    IN  /\ msg.payload.type = "Transaction"
        /\ ledger' = [ledger EXCEPT ![n] = WithWitness(lg, tx, n)]
        /\ accepted' = [accepted EXCEPT ![n] = IF ok THEN @ \cup {tx} ELSE @]
        /\ network' = (network \ {msg})
                         \cup Broadcast(n, [type |-> "Witness", tx |-> tx, peer |-> n])
        /\ UNCHANGED <<durable, submits>>

\* handle_incoming of a transaction.  An accepted one is witnessed and the witness
\* broadcast; a duplicate is witnessed, and broadcast if the witness is new; any
\* other is dropped.
ReceiveTransaction(n, msg) ==
    LET tx == msg.payload.tx
        witness == Broadcast(n, [type |-> "Witness", tx |-> tx, peer |-> n])
        lg == ledger[n]
    IN  /\ msg.payload.type = "Transaction"
        /\ \/ /\ L(lg)!Acceptable(tx)
              /\ ledger' = [ledger EXCEPT ![n] = WithWitness(WithTransaction(lg, tx), tx, n)]
              /\ accepted' = [accepted EXCEPT ![n] = @ \cup {tx}]
              /\ network' = (network \ {msg}) \cup witness
           \/ /\ tx \in Applied(n)
              /\ ledger' = [ledger EXCEPT ![n] = WithWitness(lg, tx, n)]
              /\ network' = (network \ {msg})
                               \cup IF L(lg)!NewWitness(tx, n) THEN witness ELSE {}
              /\ UNCHANGED accepted
           \/ /\ tx \notin Applied(n) /\ ~L(lg)!Acceptable(tx)
              /\ network' = network \ {msg}
              /\ UNCHANGED <<ledger, accepted>>
        /\ UNCHANGED <<durable, submits>>

\* handle_incoming of a witness: dropped when the transaction is not known yet.
ReceiveWitness(n, msg) ==
    /\ msg.payload.type = "Witness"
    /\ ledger' = [ledger EXCEPT ![n] = WithWitness(@, msg.payload.tx, msg.payload.peer)]
    /\ network' = network \ {msg}
    /\ UNCHANGED <<durable, submits, accepted>>

Receive(n) ==
    \E msg \in network : msg.to = n /\ (ReceiveTransaction(n, msg) \/ ReceiveWitness(n, msg))

Flush(n) ==
    /\ durable' = [durable EXCEPT ![n] = ledger[n]]
    /\ UNCHANGED <<ledger, submits, network, accepted>>

Crash(n) ==
    /\ ledger' = [ledger EXCEPT ![n] = durable[n]]
    /\ UNCHANGED <<durable, submits, network, accepted>>

NetNext ==
    \/ \E n \in FaucetNodes : Faucet(n)
    \/ \E n, to \in Node, amount \in Amounts : Submit(n, to, amount)
    \/ \E n \in Node : Receive(n)
    \/ \E n \in CrashNodes : Flush(n) \/ Crash(n)

NetSpec == NetInit /\ [][NetNext]_netVars

-----------------------------------------------------------------------------
(* Properties *)

Conflict(t, u) == t # u /\ t.from = u.from /\ t.nonce = u.nonce

\* Two transactions that spend the same nonce are never both confirmed, on
\* whatever ledgers, while a second set of MinWitnesses nodes cannot be found
\* outside the first: every node witnesses only what its own ledger accepted.
NoConflictConfirmed ==
    2 * MinWitnesses > Cardinality(Node) =>
        \A n, m \in Node : \A t \in Applied(n), u \in Applied(m) :
            Conflict(t, u) => ~(Confirmed(n, t) /\ Confirmed(m, u))

\* Whoever is recorded as a witness did accept the transaction, or sent it itself.
WitnessesAccepted ==
    \A n \in Node : \A t \in Applied(n) :
        \A p \in ledger[n].txs[t] : t \in accepted[p] \/ t.from = p

\* The faucet's credit is worth nothing elsewhere: another node accepts a transfer
\* of an address without genesis only when one to that address has its witnesses,
\* each of which accepted or sent it.
FaucetMoneyStaysHome ==
    \A m \in Node : \A t \in accepted[m] :
        Genesis[t.from] = 0 =>
            \E u \in UNION Range(accepted) :
                /\ u.to = t.from
                /\ Cardinality({u.from} \cup {p \in Node : u \in accepted[p]}) >= MinWitnesses
=============================================================================
