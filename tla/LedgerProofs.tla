---------------------------- MODULE LedgerProofs ----------------------------
(***************************************************************************)
(* The ledger's safety for every set of addresses, peers and transactions, *)
(* every policy limit and every integer width: types, the balance cap, the *)
(* uniqueness of nonces, and who may lower a balance.                      *)
(*                                                                         *)
(* The inductive invariant is the conjunction of the three.  The cap needs *)
(* the types; the nonces need nothing of the cap; the types of the         *)
(* balances (they stay below MaxU64, so no addition wraps) need the cap.   *)
(***************************************************************************)
EXTENDS Ledger, TLAPS

IInv == TypeOK /\ BalanceCapped /\ NoncesSpentOnce

\* A sum or difference inside the u64 range does not wrap.
LEMMA NoWrap ==
    ASSUME NEW x \in 0 .. MaxU64
    PROVE  Wrap(x) = x
BY LedgerConstants DEF Wrap

\* The velocity log keeps its type whatever is recorded in it.
LEMMA RecordedType ==
    ASSUME NEW events \in Seq(Event), NEW tx \in Transaction
    PROVE  Recorded(events, tx) \in Seq(Event)
<1> DEFINE all == Append(events, [ts |-> tx.ts, amount |-> tx.amount])
<1>1. [ts |-> tx.ts, amount |-> tx.amount] \in Event
  BY DEF Event, Transaction
<1>2. all \in Seq(Event) /\ all # <<>>
  BY <1>1
<1>3. Tail(all) \in Seq(Event)
  BY <1>2
<1> QED
  BY <1>2, <1>3 DEF Recorded

\* A new ledger is empty and satisfies the invariant.
LEMMA InitIInv == Init => IInv
<1> SUFFICES ASSUME Init PROVE IInv
  OBVIOUS
<1>1. TypeOK
  BY LedgerConstants DEF Init, TypeOK, Account
<1>2. BalanceCapped
  BY LedgerConstants DEF Init, BalanceCapped
<1>3. NoncesSpentOnce
  BY DEF Init, NoncesSpentOnce, Applied
<1> QED
  BY <1>1, <1>2, <1>3 DEF IInv

\* The three updates of an account keep its type and the cap.
LEMMA DebitedFacts ==
    ASSUME NEW acc \in Account, NEW tx \in Transaction, tx.amount + tx.fee <= acc.balance
    PROVE  /\ Debited(acc, tx) \in Account
           /\ Debited(acc, tx).nextNonce = acc.nextNonce + 1
           /\ Debited(acc, tx).balance = acc.balance - tx.amount - tx.fee
           /\ Debited(acc, tx).pending = acc.pending
<1>1. tx.amount \in Nat /\ tx.fee \in Nat
  BY LedgerConstants DEF Transaction
<1>2. acc.balance \in 0 .. MaxU64 /\ acc.nextNonce \in Nat /\ acc.pending \in 0 .. MaxU64
  BY DEF Account
<1>3. acc.balance - (tx.amount + tx.fee) \in 0 .. MaxU64
  BY <1>1, <1>2, LedgerConstants
<1>4. Debited(acc, tx) = [balance |-> acc.balance - (tx.amount + tx.fee),
                          nextNonce |-> acc.nextNonce + 1, pending |-> acc.pending]
  BY <1>3, NoWrap DEF Debited
<1> QED
  BY <1>1, <1>2, <1>3, <1>4 DEF Account

\* What is received counts as pending, within the cap, and nothing wraps.
LEMMA ReceivedFacts ==
    ASSUME NEW acc \in Account, NEW tx \in Transaction, NEW w,
           acc.balance + acc.pending + tx.amount <= MaxBalance
    PROVE  /\ Received(acc, tx, w) \in Account
           /\ Received(acc, tx, w).nextNonce = acc.nextNonce
           /\ Received(acc, tx, w).balance >= acc.balance
           /\ Received(acc, tx, w).balance + Received(acc, tx, w).pending <= MaxBalance
<1>1. tx.amount \in Nat
  BY LedgerConstants DEF Transaction
<1>2. acc.balance \in 0 .. MaxU64 /\ acc.nextNonce \in Nat /\ acc.pending \in 0 .. MaxU64
  BY DEF Account
<1>3. /\ acc.balance + tx.amount \in 0 .. MaxU64
      /\ acc.pending + tx.amount \in 0 .. MaxU64
  BY <1>1, <1>2, LedgerConstants
<1>4. CASE Confirmed(w)
  <2>1. Received(acc, tx, w) = [balance |-> acc.balance + tx.amount,
                                nextNonce |-> acc.nextNonce, pending |-> acc.pending]
    BY <1>3, <1>4, NoWrap DEF Received, Account
  <2> QED
    BY <1>1, <1>2, <1>3, <2>1, LedgerConstants DEF Account
<1>5. CASE ~Confirmed(w)
  <2>1. Received(acc, tx, w) = [balance |-> acc.balance, nextNonce |-> acc.nextNonce,
                                pending |-> acc.pending + tx.amount]
    BY <1>3, <1>5, NoWrap DEF Received, Account
  <2> QED
    BY <1>1, <1>2, <1>3, <2>1, LedgerConstants DEF Account
<1> QED
  BY <1>4, <1>5

\* A confirmed amount becomes spendable, within the cap and without wrapping.
LEMMA SettledFacts ==
    ASSUME NEW acc \in Account, NEW tx \in Transaction,
           acc.balance + SaturatingSub(acc.pending, tx.amount) + tx.amount <= MaxBalance
    PROVE  /\ Settled(acc, tx) \in Account
           /\ Settled(acc, tx).nextNonce = acc.nextNonce
           /\ Settled(acc, tx).balance >= acc.balance
           /\ Settled(acc, tx).balance + Settled(acc, tx).pending <= MaxBalance
<1> DEFINE rest == SaturatingSub(acc.pending, tx.amount)
<1>1. tx.amount \in Nat
  BY LedgerConstants DEF Transaction
<1>2. acc.balance \in 0 .. MaxU64 /\ acc.nextNonce \in Nat /\ acc.pending \in 0 .. MaxU64
  BY DEF Account
<1>3. rest \in 0 .. MaxU64
  BY <1>1, <1>2, LedgerConstants DEF SaturatingSub
<1>4. acc.balance + rest + tx.amount <= MaxBalance
  OBVIOUS
<1>5. acc.balance + tx.amount \in 0 .. MaxU64
  <2> HIDE DEF rest
  <2> QED
    BY <1>1, <1>2, <1>3, <1>4, LedgerConstants
<1>6. Settled(acc, tx) = [balance |-> acc.balance + tx.amount,
                          nextNonce |-> acc.nextNonce, pending |-> rest]
  BY <1>5, NoWrap DEF Settled
<1> HIDE DEF rest
<1> QED
  BY <1>1, <1>2, <1>3, <1>4, <1>5, <1>6, LedgerConstants DEF Account

\* What an accepted transaction does to the accounts: the sender pays, the
\* recipient receives within the cap, and nobody else is touched.
LEMMA ApplyAccounts ==
    ASSUME TypeOK, BalanceCapped, NEW tx \in Submitted, NEW w \in Carried,
           ApplyTransaction(tx, w)
    PROVE  /\ accounts' \in [Address -> Account]
           /\ tx.from # tx.to
           /\ accounts'[tx.from].nextNonce = accounts[tx.from].nextNonce + 1
           /\ accounts'[tx.from].balance
                  = accounts[tx.from].balance - tx.amount - tx.fee
           /\ accounts'[tx.from].pending = accounts[tx.from].pending
           /\ accounts'[tx.to].nextNonce = accounts[tx.to].nextNonce
           /\ accounts'[tx.to].balance >= accounts[tx.to].balance
           /\ accounts'[tx.to].balance + accounts'[tx.to].pending <= MaxBalance
           /\ \A a \in Address \ {tx.from, tx.to} : accounts'[a] = accounts[a]
<1> DEFINE s == accounts[tx.from]
           r == accounts[tx.to]
<1>1. /\ tx.from \in Address /\ tx.to \in Address
      /\ tx.amount \in Nat /\ tx.fee \in Nat /\ tx.nonce \in Nat
  BY LedgerConstants DEF Transaction
<1>2. s \in Account /\ r \in Account
  BY <1>1 DEF TypeOK
<1>3. /\ tx.from # tx.to
      /\ tx.amount + tx.fee <= s.balance
      /\ r.balance + r.pending + tx.amount <= MaxBalance
  BY DEF ApplyTransaction, Acceptable, BalanceCapOK
<1>4. accounts' = [accounts EXCEPT ![tx.from] = Debited(s, tx),
                                   ![tx.to] = Received(r, tx, w)]
  BY <1>1, <1>3 DEF ApplyTransaction, TypeOK, AccountsWith
<1>5. /\ accounts'[tx.from] = Debited(s, tx)
      /\ accounts'[tx.to] = Received(r, tx, w)
      /\ \A a \in Address \ {tx.from, tx.to} : accounts'[a] = accounts[a]
  BY <1>1, <1>3, <1>4 DEF TypeOK
<1>6. /\ Debited(s, tx) \in Account
      /\ Debited(s, tx).nextNonce = s.nextNonce + 1
      /\ Debited(s, tx).balance = s.balance - tx.amount - tx.fee
      /\ Debited(s, tx).pending = s.pending
  BY <1>2, <1>3, DebitedFacts, LedgerConstants
<1>7. /\ Received(r, tx, w) \in Account
      /\ Received(r, tx, w).nextNonce = r.nextNonce
      /\ Received(r, tx, w).balance >= r.balance
      /\ Received(r, tx, w).balance + Received(r, tx, w).pending <= MaxBalance
  BY <1>2, <1>3, ReceivedFacts, LedgerConstants
<1>8. accounts' \in [Address -> Account]
  BY <1>1, <1>4, <1>6, <1>7 DEF TypeOK
<1> QED
  BY <1>3, <1>5, <1>6, <1>7, <1>8

\* An accepted transaction takes the next nonce of its sender and no other.
LEMMA ApplyNonces ==
    ASSUME TypeOK, BalanceCapped, NoncesSpentOnce,
           NEW tx \in Submitted, NEW w \in Carried, ApplyTransaction(tx, w)
    PROVE  NoncesSpentOnce'
<1> DEFINE Spent(S, a) == {t.nonce : t \in {u \in S : u.from = a}}
<1>1. Applied' = Applied \cup {tx}
  BY DEF ApplyTransaction, Applied, TxsWith
<1>2. tx.from \in Address /\ tx.nonce = accounts[tx.from].nextNonce
      /\ accounts[tx.from].nextNonce \in Nat
  BY LedgerConstants, SMTT(30) DEF ApplyTransaction, Acceptable, Transaction, TypeOK, Account
<1>3. \A a \in Address : Spent(Applied, a) = 0 .. accounts[a].nextNonce - 1
  BY DEF NoncesSpentOnce
<1>4. \A t \in Applied : t.from = tx.from => t.nonce # tx.nonce
  <2> SUFFICES ASSUME NEW t \in Applied, t.from = tx.from PROVE t.nonce # tx.nonce
    OBVIOUS
  <2>1. t.nonce \in Spent(Applied, tx.from)
    OBVIOUS
  <2>2. t.nonce \in 0 .. tx.nonce - 1
    BY <1>2, <1>3, <2>1
  <2> QED
    BY <1>2, <2>2
<1>5. \A t, u \in Applied' : t.from = u.from /\ t.nonce = u.nonce => t = u
  BY <1>1, <1>4 DEF NoncesSpentOnce
<1>6. ASSUME NEW a \in Address
      PROVE  Spent(Applied', a) = 0 .. accounts'[a].nextNonce - 1
  <2>1. CASE a = tx.from
    <3>1. Spent(Applied', a) = Spent(Applied, a) \cup {tx.nonce}
      BY <1>1, <2>1
    <3>2. accounts'[a].nextNonce = tx.nonce + 1
      BY ApplyAccounts, <1>2, <2>1
    <3>3. Spent(Applied, a) = 0 .. tx.nonce - 1
      BY <1>2, <1>3, <2>1
    <3> HIDE DEF Spent
    <3> QED
      BY <1>2, <3>1, <3>2, <3>3
  <2>2. CASE a # tx.from
    <3>1. Spent(Applied', a) = Spent(Applied, a)
      BY <1>1, <2>2
    <3>2. accounts'[a].nextNonce = accounts[a].nextNonce
      BY ApplyAccounts, <2>2
    <3> HIDE DEF Spent
    <3> QED
      BY <1>3, <3>1, <3>2
  <2> QED
    BY <2>1, <2>2
<1> QED
  BY <1>5, <1>6 DEF NoncesSpentOnce

\* A confirmation moves value of the recipient from pending to spendable, within
\* the cap, and touches nothing else; any other witness leaves the accounts alone.
LEMMA WitnessAccounts ==
    ASSUME TypeOK, BalanceCapped, NEW tx \in Applied, NEW p \in Peer, AddWitness(tx, p)
    PROVE  /\ accounts' \in [Address -> Account]
           /\ BalanceCapped'
           /\ \A a \in Address : /\ accounts'[a].nextNonce = accounts[a].nextNonce
                                 /\ accounts'[a].balance >= accounts[a].balance
<1>1. CASE ~Confirms(tx, p)
  BY <1>1 DEF AddWitness, TypeOK, BalanceCapped, Account, AccountsWitnessed
<1>2. CASE Confirms(tx, p)
  <2> DEFINE r == accounts[tx.to]
  <2>1. tx \in Transaction /\ tx.to \in Address
    BY LedgerConstants DEF Transaction, TypeOK, Applied
  <2>2. r \in Account
    BY <2>1 DEF TypeOK
  <2>3. r.balance + SaturatingSub(r.pending, tx.amount) + tx.amount <= MaxBalance
    BY <1>2 DEF AddWitness, BalanceCapOK, NewWitness
  <2>4. accounts' = [accounts EXCEPT ![tx.to] = Settled(r, tx)]
    BY <1>2, <2>1 DEF AddWitness, TypeOK, AccountsWitnessed
  <2>5. /\ Settled(r, tx) \in Account
        /\ Settled(r, tx).nextNonce = r.nextNonce
        /\ Settled(r, tx).balance >= r.balance
        /\ Settled(r, tx).balance + Settled(r, tx).pending <= MaxBalance
    BY <2>1, <2>2, <2>3, SettledFacts
  <2>6. \A a \in Address : accounts'[a] = IF a = tx.to THEN Settled(r, tx)
                                                       ELSE accounts[a]
    BY <2>1, <2>4 DEF TypeOK
  <2> HIDE DEF r
  <2>7. \A a \in Address : accounts[a].balance \in Nat
    BY DEF TypeOK, Account
  <2>8. accounts' \in [Address -> Account]
    BY <2>4, <2>5, Zenon DEF TypeOK
  <2>9. BalanceCapped'
    BY <2>5, <2>6 DEF BalanceCapped
  <2>10. \A a \in Address : /\ accounts'[a].nextNonce = accounts[a].nextNonce
                            /\ accounts'[a].balance >= accounts[a].balance
    BY <2>5, <2>6, <2>7 DEF r
  <2> QED
    BY <2>8, <2>9, <2>10
<1> QED
  BY <1>1, <1>2

\* A genesis credit raises one balance, within the cap.
LEMMA GenesisAccounts ==
    ASSUME TypeOK, BalanceCapped, NEW b \in Address, NEW amount \in GenesisAmounts,
           GenesisCredit(b, amount)
    PROVE  /\ accounts' \in [Address -> Account]
           /\ BalanceCapped'
           /\ \A a \in Address : /\ accounts'[a].nextNonce = accounts[a].nextNonce
                                 /\ accounts'[a].balance >= accounts[a].balance
<1> DEFINE r == accounts[b]
           n == [r EXCEPT !.balance = @ + amount]
<1>1. amount \in Nat /\ r \in Account
  BY LedgerConstants DEF TypeOK
<1>2. r.balance + r.pending + amount <= MaxBalance
  BY DEF GenesisCredit, BalanceCapOK
<1>3. /\ n \in Account /\ n.nextNonce = r.nextNonce
      /\ n.balance >= r.balance /\ n.balance + n.pending <= MaxBalance
  BY <1>1, <1>2, LedgerConstants DEF Account
<1>4. accounts' = [accounts EXCEPT ![b] = n]
  <2>1. r.balance + amount \in 0 .. MaxU64
    BY <1>1, <1>2, LedgerConstants DEF Account
  <2>2. Wrap(r.balance + amount) = r.balance + amount
    BY <2>1, NoWrap
  <2> QED
    BY <2>2, Zenon DEF GenesisCredit
<1>5. \A a \in Address : accounts'[a] = IF a = b THEN n ELSE accounts[a]
  BY <1>4 DEF TypeOK
<1>6. \A a \in Address : accounts[a].balance \in Nat
  BY DEF TypeOK, Account
<1>7. accounts' \in [Address -> Account]
  BY <1>3, <1>4 DEF TypeOK
<1> HIDE DEF n
<1>8. BalanceCapped'
  BY <1>3, <1>5 DEF BalanceCapped
<1>9. \A a \in Address : /\ accounts'[a].nextNonce = accounts[a].nextNonce
                         /\ accounts'[a].balance >= accounts[a].balance
  BY <1>3, <1>5, <1>6
<1> QED
  BY <1>7, <1>8, <1>9

\* A step that applies no transaction and keeps the nonces keeps them spent once.
LEMMA SameNonces ==
    ASSUME NoncesSpentOnce, Applied' = Applied,
           \A a \in Address : accounts'[a].nextNonce = accounts[a].nextNonce
    PROVE  NoncesSpentOnce'
BY DEF NoncesSpentOnce

\* Every operation of the ledger preserves the invariant.
LEMMA NextIInv == IInv /\ [Next]_vars => IInv'
<1> SUFFICES ASSUME IInv, [Next]_vars PROVE IInv'
  OBVIOUS
<1> USE DEF IInv
<1>1. ASSUME NEW tx \in Submitted, NEW w \in Carried, ApplyTransaction(tx, w)
      PROVE  IInv'
  <2>1. DOMAIN txs' = DOMAIN txs \cup {tx}
    BY <1>1 DEF ApplyTransaction, Applied, TxsWith
  <2>2. txs' \in [DOMAIN txs' -> SUBSET Peer]
    BY <1>1, <2>1, LedgerConstants DEF ApplyTransaction, Applied, TypeOK, TxsWith
  <2>3. velocity' \in [Address -> Seq(Event)]
    <3>1. tx \in Transaction /\ tx.from \in Address
      BY LedgerConstants DEF Transaction
    <3>2. Recorded(velocity[tx.from], tx) \in Seq(Event)
      BY <3>1, RecordedType DEF TypeOK
    <3> QED
      BY <1>1, <3>1, <3>2 DEF ApplyTransaction, TypeOK, VelocityWith
  <2>4. TypeOK'
    BY <1>1, <2>1, <2>2, <2>3, ApplyAccounts, Zenon DEF TypeOK, ApplyTransaction, TxsWith
  <2>5. BalanceCapped'
    <3> SUFFICES ASSUME NEW a \in Address
                 PROVE  accounts'[a].balance + accounts'[a].pending <= MaxBalance
      BY DEF BalanceCapped
    <3>1. CASE a = tx.from
      <4>1. tx.amount \in Nat /\ tx.fee \in Nat
        BY LedgerConstants DEF Transaction
      <4>2. accounts[a].balance \in Nat /\ accounts[a].pending \in Nat
        BY DEF TypeOK, Account
      <4>3. /\ accounts'[a].balance = accounts[a].balance - tx.amount - tx.fee
            /\ accounts'[a].pending = accounts[a].pending
        BY <1>1, <3>1, ApplyAccounts
      <4>4. accounts[a].balance + accounts[a].pending <= MaxBalance
        BY DEF BalanceCapped
      <4> QED
        BY <4>1, <4>2, <4>3, <4>4, LedgerConstants
    <3>2. CASE a = tx.to
      BY <1>1, <3>2, ApplyAccounts
    <3>3. CASE a \notin {tx.from, tx.to}
      <4>1. accounts'[a] = accounts[a]
        BY <1>1, <3>3, ApplyAccounts
      <4> QED
        BY <4>1 DEF BalanceCapped
    <3> QED
      BY <3>1, <3>2, <3>3
  <2>6. NoncesSpentOnce'
    BY <1>1, ApplyNonces
  <2> QED
    BY <2>4, <2>5, <2>6
<1>2. ASSUME NEW tx \in Applied, NEW p \in Peer, AddWitness(tx, p)
      PROVE  IInv'
  <2>1. DOMAIN txs' = DOMAIN txs /\ txs' \in [DOMAIN txs -> SUBSET Peer]
    BY <1>2 DEF AddWitness, TypeOK, Applied, TxsWitnessed
  <2>2. TypeOK'
    BY <1>2, <2>1, WitnessAccounts DEF TypeOK, AddWitness
  <2>3. NoncesSpentOnce'
    BY <1>2, <2>1, WitnessAccounts, SameNonces DEF Applied
  <2> QED
    BY <1>2, <2>2, <2>3, WitnessAccounts
<1>3. ASSUME NEW b \in Address, NEW amount \in GenesisAmounts, GenesisCredit(b, amount)
      PROVE  IInv'
  <2>1. amount \in Nat
    BY LedgerConstants
  <2>2. TypeOK'
    <3>1. accounts' \in [Address -> Account]
      BY <1>3, GenesisAccounts
    <3>2. minted' \in Nat /\ txs' = txs /\ velocity' = velocity
      BY <1>3, <2>1 DEF TypeOK, GenesisCredit
    <3> QED
      BY <3>1, <3>2 DEF TypeOK
  <2>3. NoncesSpentOnce'
    BY <1>3, GenesisAccounts, SameNonces DEF Applied, GenesisCredit
  <2> QED
    BY <1>3, <2>2, <2>3, GenesisAccounts
<1>4. CASE UNCHANGED vars
  BY <1>4 DEF vars, TypeOK, BalanceCapped, NoncesSpentOnce, Applied
<1> QED
  BY <1>1, <1>2, <1>3, <1>4 DEF Next

\* The three facts hold together in every reachable state of the ledger.
LEMMA InvariantHolds == Spec => []IInv
BY InitIInv, NextIInv, PTL DEF Spec

\* Type correctness: no balance leaves the u64 range, so none of the unchecked
\* additions and subtractions of the ledger wraps.
THEOREM TypeCorrect == Spec => []TypeOK
<1>1. IInv => TypeOK
  BY DEF IInv
<1> QED
  BY <1>1, InvariantHolds, PTL

\* No address ever holds more than max_balance_muon, spendable and pending together.
THEOREM CapHolds == Spec => []BalanceCapped
<1>1. IInv => BalanceCapped
  BY DEF IInv
<1> QED
  BY <1>1, InvariantHolds, PTL

\* apply_transaction never lets two transactions spend the same nonce of a sender,
\* and leaves no gap below next_nonce.
THEOREM NoDoubleSpend == Spec => []NoncesSpentOnce
<1>1. IInv => NoncesSpentOnce
  BY DEF IInv
<1> QED
  BY <1>1, InvariantHolds, PTL

\* Each operation of the ledger is a step that only the owner's own transaction
\* can make costly.
LEMMA NextOwnerSpends == IInv /\ [Next]_vars => [OwnerSpendsStep]_vars
<1> SUFFICES ASSUME IInv, Next PROVE OwnerSpendsStep
  OBVIOUS
<1> USE DEF IInv
<1>1. ASSUME NEW tx \in Submitted, NEW w \in Carried, ApplyTransaction(tx, w)
      PROVE  OwnerSpendsStep
  <2>1. tx \notin Applied /\ Applied' = Applied \cup {tx}
        /\ \A t \in Applied : txs'[t] = txs[t]
    BY <1>1 DEF ApplyTransaction, Acceptable, Applied, TxsWith
  <2>2. tx.nonce = accounts[tx.from].nextNonce
    BY <1>1 DEF ApplyTransaction, Acceptable
  <2>3. ASSUME NEW a \in Address, a # tx.from
        PROVE  /\ accounts'[a].nextNonce = accounts[a].nextNonce
               /\ accounts'[a].balance >= accounts[a].balance
    <3>1. accounts[a].balance \in Nat
      BY DEF TypeOK, Account
    <3>2. CASE a = tx.to
      BY <1>1, <3>2, ApplyAccounts
    <3>3. CASE a # tx.to
      <4>1. accounts'[a] = accounts[a]
        BY <1>1, <2>3, <3>3, ApplyAccounts
      <4> QED
        BY <3>1, <4>1
    <3> QED
      BY <3>2, <3>3
  <2>4. /\ accounts'[tx.from].nextNonce = tx.nonce + 1
        /\ accounts'[tx.from].balance = accounts[tx.from].balance - tx.amount - tx.fee
    BY <1>1, <2>2, ApplyAccounts
  <2> QED
    BY <2>1, <2>2, <2>3, <2>4 DEF OwnerSpendsStep
<1>2. ASSUME NEW tx \in Applied, NEW p \in Peer, AddWitness(tx, p)
      PROVE  OwnerSpendsStep
  <2>1. Applied' = Applied /\ \A t \in Applied : txs[t] \subseteq txs'[t]
    BY <1>2 DEF AddWitness, TypeOK, Applied, TxsWitnessed
  <2> QED
    BY <1>2, <2>1, WitnessAccounts DEF OwnerSpendsStep
<1>3. ASSUME NEW b \in Address, NEW amount \in GenesisAmounts, GenesisCredit(b, amount)
      PROVE  OwnerSpendsStep
  <2>1. txs' = txs
    BY <1>3 DEF GenesisCredit
  <2> QED
    BY <1>3, <2>1, GenesisAccounts DEF OwnerSpendsStep, Applied
<1> QED
  BY <1>1, <1>2, <1>3 DEF Next

\* Only a transaction of the owner, with the owner's next nonce, lowers a balance.
THEOREM OwnerSpends == Spec => OnlyOwnerSpends
BY InvariantHolds, NextOwnerSpends, PTL DEF Spec, OnlyOwnerSpends
=============================================================================
