------------------------------- MODULE Ledger -------------------------------
(***************************************************************************)
(* LocalLedger of mycelium-coin (ledger.rs, settlement_policy.rs,          *)
(* velocity.rs): the MeshCoin ledger one node keeps of the transactions it *)
(* has seen.  Every operation is one atomic action here; LedgerSteps       *)
(* splits them into the separate sled reads and writes of the code.        *)
(*                                                                         *)
(* A transaction is a record of its signed fields.  Its id is a hash of    *)
(* those fields and the signature, so the record is its own id.  The       *)
(* witness set is neither signed nor hashed and is kept beside it.         *)
(***************************************************************************)
EXTENDS Integers, Sequences, FiniteSets, FiniteSetsExt

CONSTANTS
    Address,          \* wallet addresses
    Peer,             \* peer ids that may witness a transaction
    Submitted,        \* the transactions presented to the ledger
    Carried,          \* the witness sets a transaction message arrives with
    GenesisAmounts,   \* amounts genesis_credit is called with
    MaxU64,           \* largest u64
    MaxBalance,       \* max_balance_muon
    MaxTransfer,      \* max_transfer_muon
    MaxTxPerHour,     \* max_tx_per_hour
    MaxOutbound,      \* max_outbound_muon_per_hour
    HourMs,           \* HOUR_MS
    MaxStoredEvents,  \* MAX_STORED_EVENTS
    MinWitnesses      \* witnesses a confirmed transaction needs

\* What apply_transaction finds wrong with a transaction's bytes, if anything:
\* the signature, a memo above 64 bytes, or an encoding above the size limit.
Defects == {"none", "signature", "memo", "size"}

Transaction ==
    [from : Address, to : Address, amount : 0 .. MaxU64, fee : 0 .. MaxU64,
     ts : Nat, nonce : Nat, defect : Defects]

ASSUME LedgerConstants ==
    /\ MaxU64 \in Nat
    /\ MaxBalance \in 0 .. MaxU64
    /\ MaxTransfer \in Nat
    /\ MaxTxPerHour \in Nat
    /\ MaxOutbound \in Nat
    /\ HourMs \in Nat
    /\ MaxStoredEvents \in Nat \ {0}
    /\ MinWitnesses \in Nat \ {0}
    /\ GenesisAmounts \subseteq Nat
    /\ Submitted \subseteq Transaction
    /\ Carried \subseteq SUBSET Peer

VARIABLES
    txs,       \* the "transactions" tree: applied transaction -> its witnesses
    accounts,  \* the "accounts" tree
    velocity,  \* the "settlement_velocity" tree: sender -> recent outbound events
    minted     \* history: everything genesis_credit ever created

vars == <<txs, accounts, velocity, minted>>

Account == [balance : 0 .. MaxU64, nextNonce : Nat, pending : 0 .. MaxU64]
Event == [ts : Nat, amount : 0 .. MaxU64]

TypeOK ==
    /\ DOMAIN txs \subseteq Submitted
    /\ txs \in [DOMAIN txs -> SUBSET Peer]
    /\ accounts \in [Address -> Account]
    /\ velocity \in [Address -> Seq(Event)]
    /\ minted \in Nat

Applied == DOMAIN txs

Confirmed(witnesses) == Cardinality(witnesses) >= MinWitnesses

SaturatingSub(x, y) == IF x >= y THEN x - y ELSE 0

\* Arithmetic on u64: an unchecked sum or difference wraps in a release build.
Wrap(x) == x % (MaxU64 + 1)

-----------------------------------------------------------------------------
(* SettlementPolicy *)

TransferAmountOK(amount) == amount > 0 /\ amount <= MaxTransfer

\* Mutant: the cap forgets what is pending.
BalanceCapOKSpendable(balance, pending, incoming) == balance + incoming <= MaxBalance

\* The sums saturate in the code; saturated at MaxU64 >= MaxBalance they are
\* above the cap exactly when the unbounded sums are.
BalanceCapOK(balance, pending, incoming) ==
    balance + pending + incoming <= MaxBalance

\* Mutant: the hourly limit counts the sender's other transfers only.
VelocityOKOffByOne(recent, now, amount) ==
    Cardinality({i \in DOMAIN recent : recent[i].ts >= SaturatingSub(now, HourMs)})
        <= MaxTxPerHour

VelocityOK(recent, now, amount) ==
    LET inWindow == {i \in DOMAIN recent :
                        recent[i].ts >= SaturatingSub(now, HourMs)}
    IN  /\ Cardinality(inWindow) < MaxTxPerHour
        /\ MapThenSumSet(LAMBDA i : recent[i].amount, inWindow) + amount
               <= MaxOutbound

\* The velocity log keeps the newest MAX_STORED_EVENTS events.
Recorded(events, tx) ==
    LET all == Append(events, [ts |-> tx.ts, amount |-> tx.amount])
    IN  IF Len(all) > MaxStoredEvents THEN Tail(all) ELSE all

-----------------------------------------------------------------------------
(* LocalLedger *)

Init ==
    /\ txs = <<>>
    /\ accounts = [a \in Address |-> [balance |-> 0, nextNonce |-> 0, pending |-> 0]]
    /\ velocity = [a \in Address |-> <<>>]
    /\ minted = 0

\* Every check of apply_transaction before its first write.
Acceptable(tx) ==
    /\ tx \notin Applied
    /\ tx.defect = "none"
    /\ tx.from # tx.to
    /\ tx.nonce = accounts[tx.from].nextNonce
    /\ tx.amount + tx.fee <= MaxU64
    /\ tx.amount + tx.fee <= accounts[tx.from].balance
    /\ TransferAmountOK(tx.amount)
    /\ BalanceCapOK(accounts[tx.to].balance, accounts[tx.to].pending, tx.amount)
    /\ VelocityOK(velocity[tx.from], tx.ts, tx.amount)

\* Mutants: the fee is not charged; the nonce is not used up.
DebitedFree(acc, tx) ==
    [balance |-> Wrap(acc.balance - tx.amount),
     nextNonce |-> acc.nextNonce + 1, pending |-> acc.pending]

DebitedSameNonce(acc, tx) ==
    [balance |-> Wrap(acc.balance - (tx.amount + tx.fee)),
     nextNonce |-> acc.nextNonce, pending |-> acc.pending]

Debited(acc, tx) ==
    [balance |-> Wrap(acc.balance - (tx.amount + tx.fee)),
     nextNonce |-> acc.nextNonce + 1, pending |-> acc.pending]

Received(acc, tx, witnesses) ==
    IF Confirmed(witnesses)
    THEN [acc EXCEPT !.balance = Wrap(@ + tx.amount)]
    ELSE [acc EXCEPT !.pending = Wrap(@ + tx.amount)]

\* Mutant: a confirmed transfer stays pending.
SettledTwice(acc, tx) == [acc EXCEPT !.balance = Wrap(@ + tx.amount)]

\* A confirmed transfer moves from pending to spendable.
Settled(acc, tx) ==
    [balance |-> Wrap(acc.balance + tx.amount), nextNonce |-> acc.nextNonce,
     pending |-> SaturatingSub(acc.pending, tx.amount)]

\* apply_transaction, ApplyResult::Accepted.  Every other result returns before
\* the first write and leaves the ledger unchanged.
TxsWith(tx, witnesses) ==
    [t \in Applied \cup {tx} |-> IF t = tx THEN witnesses ELSE txs[t]]

AccountsWith(tx, witnesses) ==
    [accounts EXCEPT ![tx.from] = Debited(@, tx),
                     ![tx.to] = Received(@, tx, witnesses)]

VelocityWith(tx) == [velocity EXCEPT ![tx.from] = Recorded(@, tx)]

ApplyTransaction(tx, witnesses) ==
    /\ Acceptable(tx)
    /\ txs' = TxsWith(tx, witnesses)
    /\ accounts' = AccountsWith(tx, witnesses)
    /\ velocity' = VelocityWith(tx)
    /\ UNCHANGED minted

\* The witness p turns tx from unconfirmed to confirmed.
Confirms(tx, p) == ~Confirmed(txs[tx]) /\ Confirmed(txs[tx] \cup {p})

\* add_witness: an unknown transaction or a known witness changes nothing, and a
\* confirmation that does not fit the recipient's cap is an error before any write.
NewWitness(tx, p) ==
    /\ tx \in Applied
    /\ p \notin txs[tx]
    /\ Confirms(tx, p) =>
           BalanceCapOK(accounts[tx.to].balance,
                        SaturatingSub(accounts[tx.to].pending, tx.amount), tx.amount)

TxsWitnessed(tx, p) == [txs EXCEPT ![tx] = @ \cup {p}]

AccountsWitnessed(tx, p) ==
    IF Confirms(tx, p) THEN [accounts EXCEPT ![tx.to] = Settled(@, tx)] ELSE accounts

AddWitness(tx, p) ==
    /\ NewWitness(tx, p)
    /\ accounts' = AccountsWitnessed(tx, p)
    /\ txs' = TxsWitnessed(tx, p)
    /\ UNCHANGED <<velocity, minted>>

GenesisCredit(a, amount) ==
    /\ BalanceCapOK(accounts[a].balance, accounts[a].pending, amount)
    /\ accounts' = [accounts EXCEPT ![a].balance = Wrap(@ + amount)]
    /\ minted' = minted + amount
    /\ UNCHANGED <<txs, velocity>>

Next ==
    \/ \E tx \in Submitted, w \in Carried : ApplyTransaction(tx, w)
    \/ \E tx \in Applied, p \in Peer : AddWitness(tx, p)
    \/ \E a \in Address, amount \in GenesisAmounts : GenesisCredit(a, amount)

Spec == Init /\ [][Next]_vars

-----------------------------------------------------------------------------
(* Properties *)

\* What an address holds, spendable or not, never exceeds the policy's cap,
\* whatever mix of transfers, confirmations and credits reached it.
BalanceCapped ==
    \A a \in Address : accounts[a].balance + accounts[a].pending <= MaxBalance

\* The applied transactions of a sender are exactly one per nonce below
\* next_nonce: no nonce is spent twice and none is skipped.
NoncesSpentOnce ==
    /\ \A t, u \in Applied : t.from = u.from /\ t.nonce = u.nonce => t = u
    /\ \A a \in Address :
           {t.nonce : t \in {u \in Applied : u.from = a}} = 0 .. accounts[a].nextNonce - 1

\* pending_received is exactly the sum of the transfers to the address that are
\* still unconfirmed, so the saturating subtraction of add_witness never loses value; and
\* room is reserved for each of them, so the witness that completes it is never refused
\* over the cap.
PendingIsUnconfirmed ==
    /\ \A a \in Address :
        accounts[a].pending =
            MapThenSumSet(LAMBDA t : t.amount,
                          {t \in Applied : t.to = a /\ ~Confirmed(txs[t])})
    /\ \A t \in Applied : ~Confirmed(txs[t]) =>
        BalanceCapOK(accounts[t.to].balance,
                     SaturatingSub(accounts[t.to].pending, t.amount), t.amount)

\* Value is neither created nor lost: all balances, all pending transfers and all
\* fees (which are burnt) add up to what genesis_credit created.
ValueConserved ==
    MapThenSumSet(LAMBDA a : accounts[a].balance + accounts[a].pending, Address)
      + MapThenSumSet(LAMBDA t : t.fee, Applied) = minted

\* In no hour that ends with one of its transfers does a sender send more, or more
\* often, than the policy allows, although the velocity log forgets old events.
\* It needs the sender's clock to be monotone: timestamps grow with the nonce.
HourlyOutboundBounded ==
    \A t \in Applied :
        LET hour == {u \in Applied : /\ u.from = t.from
                                     /\ u.ts <= t.ts
                                     /\ u.ts >= SaturatingSub(t.ts, HourMs)}
        IN  /\ Cardinality(hour) <= MaxTxPerHour
            /\ MapThenSumSet(LAMBDA u : u.amount, hour) <= MaxOutbound

\* A step never forgets a transaction or a witness, never lowers a nonce, and
\* lowers a balance only by the amount and fee of one new transaction that its
\* owner sent with the next nonce.
OwnerSpendsStep ==
    /\ \A t \in Applied : t \in Applied' /\ txs[t] \subseteq txs'[t]
    /\ \A a \in Address :
           \/ /\ accounts'[a].nextNonce = accounts[a].nextNonce
              /\ accounts'[a].balance >= accounts[a].balance
           \/ \E t \in Applied' \ Applied :
                  /\ t.from = a
                  /\ t.nonce = accounts[a].nextNonce
                  /\ accounts'[a].nextNonce = t.nonce + 1
                  /\ accounts'[a].balance = accounts[a].balance - t.amount - t.fee

\* Every step of the ledger is such a step.
OnlyOwnerSpends == [][OwnerSpendsStep]_vars
=============================================================================
