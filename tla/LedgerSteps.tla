----------------------------- MODULE LedgerSteps -----------------------------
(***************************************************************************)
(* LocalLedger as the code runs it: no lock and no sled transaction, each  *)
(* read and each insert of a tree a step of its own.  The wallet command,  *)
(* the task that dispatches incoming messages and the hot-wallet task of   *)
(* the host call it from different threads.  update_account and            *)
(* record_outbound read a row, change it and write it back.  A crash ends  *)
(* all operations between two writes; sled keeps a prefix of the writes.   *)
(*                                                                         *)
(* With one thread this implements the atomic Ledger until it crashes.     *)
(***************************************************************************)
EXTENDS Ledger

CONSTANTS
    Thread,       \* callers of the ledger
    MaxCrashes    \* bound on crashes

ASSUME StepsConstants == MaxCrashes \in Nat

VARIABLES
    pc,        \* Thread -> the read or write the thread does next
    job,       \* Thread -> the arguments of the operation it runs
    reg,       \* Thread -> the account or velocity log it is about to write back
    crashes,   \* crashes so far
    torn       \* history: amount and fee of the operations a crash cut short

stepVars == <<txs, accounts, velocity, minted, pc, job, reg, crashes, torn>>
ledgerVars == <<txs, accounts, velocity, minted>>
crashVars == <<crashes, torn>>

Idle == [op |-> "none"]
Blank == [account |-> [balance |-> 0, nextNonce |-> 0, pending |-> 0], log |-> <<>>]

ApplyPCs == {"duplicate", "sender", "recipient", "velocity", "insert",
             "debitRead", "debitWrite", "creditRead", "creditWrite",
             "recordRead", "recordWrite"}
WitnessPCs == {"row", "cap", "settleRead", "settleWrite", "saveSettled", "save"}
GenesisPCs == {"faucet", "genesis", "genesisRead", "genesisWrite"}

Jobs ==
    [tx : Submitted, witnesses : Carried]
        \cup [tx : Submitted, peer : Peer, row : SUBSET Peer]
        \cup [address : Address, amount : GenesisAmounts]

StepsTypeOK ==
    /\ TypeOK
    /\ pc \in [Thread -> {"idle"} \cup ApplyPCs \cup WitnessPCs \cup GenesisPCs]
    /\ job \in [Thread -> Jobs \cup {Idle}]
    /\ reg \in [Thread -> [account : Account, log : Seq(Event)]]
    /\ crashes \in 0 .. MaxCrashes
    /\ torn \in Nat

StepsInit ==
    /\ Init
    /\ pc = [th \in Thread |-> "idle"]
    /\ job = [th \in Thread |-> Idle]
    /\ reg = [th \in Thread |-> Blank]
    /\ crashes = 0
    /\ torn = 0

-----------------------------------------------------------------------------
(* Threads *)

Start(th, first, arguments) ==
    /\ pc[th] = "idle"
    /\ pc' = [pc EXCEPT ![th] = first]
    /\ job' = [job EXCEPT ![th] = arguments]
    /\ UNCHANGED <<ledgerVars, reg, crashVars>>

\* The thread passes a check and goes on, or its operation returns.
Check(th, at, passes, next) ==
    /\ pc[th] = at
    /\ pc' = [pc EXCEPT ![th] = IF passes THEN next ELSE "idle"]
    /\ job' = [job EXCEPT ![th] = IF passes THEN @ ELSE Idle]
    /\ UNCHANGED <<ledgerVars, reg, crashVars>>

ReadAccount(th, at, a, next) ==
    /\ pc[th] = at
    /\ pc' = [pc EXCEPT ![th] = next]
    /\ reg' = [reg EXCEPT ![th].account = accounts[a]]
    /\ UNCHANGED <<ledgerVars, job, crashVars>>

\* The thread has written; it goes on at next, or returns when next is idle.
Wrote(th, at, next) ==
    /\ pc[th] = at
    /\ pc' = [pc EXCEPT ![th] = next]
    /\ job' = [job EXCEPT ![th] = IF next = "idle" THEN Idle ELSE @]
    /\ reg' = [reg EXCEPT ![th] = Blank]
    /\ UNCHANGED crashVars

-----------------------------------------------------------------------------
(* apply_transaction *)

CheckDuplicate(th) ==
    LET tx == job[th].tx
    IN  Check(th, "duplicate",
              /\ tx \notin Applied
              /\ tx.defect = "none"
              /\ tx.from # tx.to,
              "sender")

CheckSender(th) ==
    LET tx == job[th].tx
        account == accounts[tx.from]
    IN  Check(th, "sender",
              /\ tx.nonce = account.nextNonce
              /\ tx.amount + tx.fee <= MaxU64
              /\ tx.amount + tx.fee <= account.balance
              /\ TransferAmountOK(tx.amount),
              "recipient")

CheckRecipient(th) ==
    LET to == accounts[job[th].tx.to]
    IN  Check(th, "recipient",
              BalanceCapOK(to.balance, to.pending, job[th].tx.amount), "velocity")

CheckVelocity(th) ==
    LET tx == job[th].tx
    IN  Check(th, "velocity", VelocityOK(velocity[tx.from], tx.ts, tx.amount), "insert")

InsertRow(th) ==
    LET tx == job[th].tx
    IN  /\ Wrote(th, "insert", "debitRead")
        /\ txs' = [t \in Applied \cup {tx} |->
                       IF t = tx THEN job[th].witnesses ELSE txs[t]]
        /\ UNCHANGED <<accounts, velocity, minted>>

DebitRead(th) == ReadAccount(th, "debitRead", job[th].tx.from, "debitWrite")

DebitWrite(th) ==
    /\ Wrote(th, "debitWrite", "creditRead")
    /\ accounts' = [accounts EXCEPT
                        ![job[th].tx.from] = Debited(reg[th].account, job[th].tx)]
    /\ UNCHANGED <<txs, velocity, minted>>

CreditRead(th) == ReadAccount(th, "creditRead", job[th].tx.to, "creditWrite")

\* Mutant: the credit is written on the account the debit left behind.
CreditWriteStale(th) ==
    LET tx == job[th].tx
    IN  /\ Wrote(th, "creditWrite", "recordRead")
        /\ accounts' = [accounts EXCEPT
                            ![tx.to] = Received(accounts[tx.from], tx, job[th].witnesses)]
        /\ UNCHANGED <<txs, velocity, minted>>

CreditWrite(th) ==
    LET tx == job[th].tx
    IN  /\ Wrote(th, "creditWrite", "recordRead")
        /\ accounts' = [accounts EXCEPT
                            ![tx.to] = Received(reg[th].account, tx, job[th].witnesses)]
        /\ UNCHANGED <<txs, velocity, minted>>

RecordRead(th) ==
    /\ pc[th] = "recordRead"
    /\ pc' = [pc EXCEPT ![th] = "recordWrite"]
    /\ reg' = [reg EXCEPT ![th].log = velocity[job[th].tx.from]]
    /\ UNCHANGED <<ledgerVars, job, crashVars>>

RecordWrite(th) ==
    /\ Wrote(th, "recordWrite", "idle")
    /\ velocity' = [velocity EXCEPT
                        ![job[th].tx.from] = Recorded(reg[th].log, job[th].tx)]
    /\ UNCHANGED <<txs, accounts, minted>>

ApplySteps(th) ==
    \/ CheckDuplicate(th) \/ CheckSender(th) \/ CheckRecipient(th) \/ CheckVelocity(th)
    \/ InsertRow(th)
    \/ DebitRead(th) \/ DebitWrite(th)
    \/ CreditRead(th) \/ CreditWrite(th)
    \/ RecordRead(th) \/ RecordWrite(th)

-----------------------------------------------------------------------------
(* add_witness *)

\* Reads the transaction row: an unknown one, or a witness it has, ends the call.
WitnessRow(th) ==
    LET tx == job[th].tx
        p == job[th].peer
        isNew == tx \in Applied /\ p \notin txs[tx]
    IN  /\ pc[th] = "row"
        /\ pc' = [pc EXCEPT ![th] = IF ~isNew THEN "idle"
                                    ELSE IF Confirms(tx, p) THEN "cap" ELSE "save"]
        /\ job' = [job EXCEPT ![th] =
                        IF isNew THEN [@ EXCEPT !.row = txs[tx]] ELSE Idle]
        /\ UNCHANGED <<ledgerVars, reg, crashVars>>

CheckCap(th) ==
    LET tx == job[th].tx
        to == accounts[tx.to]
    IN  Check(th, "cap",
              BalanceCapOK(to.balance, SaturatingSub(to.pending, tx.amount), tx.amount),
              "settleRead")

SettleRead(th) == ReadAccount(th, "settleRead", job[th].tx.to, "settleWrite")

SettleWrite(th) ==
    /\ Wrote(th, "settleWrite", "saveSettled")
    /\ accounts' = [accounts EXCEPT
                        ![job[th].tx.to] = Settled(reg[th].account, job[th].tx)]
    /\ UNCHANGED <<txs, velocity, minted>>

\* Mutant: the witnesses the row had are lost.
SaveRowLast(th) ==
    /\ Wrote(th, pc[th], "idle") /\ pc[th] \in {"save", "saveSettled"}
    /\ txs' = [txs EXCEPT ![job[th].tx] = {job[th].peer}]
    /\ UNCHANGED <<accounts, velocity, minted>>

\* Writes back the row that was read when the call began.
SaveRow(th) ==
    /\ Wrote(th, pc[th], "idle") /\ pc[th] \in {"save", "saveSettled"}
    /\ txs' = [txs EXCEPT ![job[th].tx] = job[th].row \cup {job[th].peer}]
    /\ UNCHANGED <<accounts, velocity, minted>>

WitnessSteps(th) ==
    \/ WitnessRow(th) \/ CheckCap(th)
    \/ SettleRead(th) \/ SettleWrite(th)
    \/ SaveRow(th)

-----------------------------------------------------------------------------
(* request_faucet_coins and the genesis_credit it calls *)

CheckFaucet(th) ==
    LET acc == accounts[job[th].address]
    IN  Check(th, "faucet", acc.balance = 0 /\ acc.pending = 0, "genesis")

CheckGenesis(th) ==
    LET acc == accounts[job[th].address]
    IN  Check(th, "genesis",
              BalanceCapOK(acc.balance, acc.pending, job[th].amount), "genesisRead")

GenesisRead(th) ==
    ReadAccount(th, "genesisRead", job[th].address, "genesisWrite")

GenesisWrite(th) ==
    LET amount == job[th].amount
    IN  /\ Wrote(th, "genesisWrite", "idle")
        /\ accounts' = [accounts EXCEPT ![job[th].address] =
                            [reg[th].account EXCEPT !.balance = Wrap(@ + amount)]]
        /\ minted' = minted + amount
        /\ UNCHANGED <<txs, velocity>>

GenesisSteps(th) ==
    \/ CheckFaucet(th) \/ CheckGenesis(th)
    \/ GenesisRead(th) \/ GenesisWrite(th)

-----------------------------------------------------------------------------

Begin(th) ==
    \/ \E tx \in Submitted, w \in Carried :
           Start(th, "duplicate", [tx |-> tx, witnesses |-> w])
    \/ \E tx \in Submitted, p \in Peer :
           Start(th, "row", [tx |-> tx, peer |-> p, row |-> {}])
    \/ \E a \in Address, amount \in GenesisAmounts :
           Start(th, "faucet", [address |-> a, amount |-> amount])

\* Where a crash leaves an operation half done: between its first write and the
\* last one that moves value.
HalfDone(th) ==
    pc[th] \in {"debitRead", "debitWrite", "creditRead", "creditWrite", "saveSettled"}

\* The process stops and starts again on what sled has kept.
Crash ==
    /\ crashes < MaxCrashes
    /\ \E th \in Thread : pc[th] # "idle"
    /\ crashes' = crashes + 1
    /\ torn' = torn + MapThenSumSet(LAMBDA th : job[th].tx.amount + job[th].tx.fee,
                                    {th \in Thread : HalfDone(th)})
    /\ pc' = [th \in Thread |-> "idle"]
    /\ job' = [th \in Thread |-> Idle]
    /\ reg' = [th \in Thread |-> Blank]
    /\ UNCHANGED ledgerVars

StepsNext ==
    \/ \E th \in Thread :
           Begin(th) \/ ApplySteps(th) \/ WitnessSteps(th) \/ GenesisSteps(th)
    \/ Crash

StepsSpec == StepsInit /\ [][StepsNext]_stepVars

-----------------------------------------------------------------------------
(* Properties *)

\* The refinement mapping: an operation takes effect at its first write, so the
\* atomic ledger is this one with the writes still to come already done.
At(th, places) == pc[th] \in places

PendingDebit(th) == At(th, {"debitRead", "debitWrite"})
PendingCredit(th) == PendingDebit(th) \/ At(th, {"creditRead", "creditWrite"})
PendingRecord(th) == PendingCredit(th) \/ At(th, {"recordRead", "recordWrite"})

accountsBar ==
    [a \in Address |->
        IF \E th \in Thread : PendingDebit(th) /\ job[th].tx.from = a
        THEN LET th == CHOOSE th \in Thread : PendingDebit(th) /\ job[th].tx.from = a
             IN  Debited(accounts[a], job[th].tx)
        ELSE IF \E th \in Thread : PendingCredit(th) /\ job[th].tx.to = a
        THEN LET th == CHOOSE th \in Thread : PendingCredit(th) /\ job[th].tx.to = a
             IN  Received(accounts[a], job[th].tx, job[th].witnesses)
        ELSE accounts[a]]

velocityBar ==
    [a \in Address |->
        IF \E th \in Thread : PendingRecord(th) /\ job[th].tx.from = a
        THEN LET th == CHOOSE th \in Thread : PendingRecord(th) /\ job[th].tx.from = a
             IN  Recorded(velocity[a], job[th].tx)
        ELSE velocity[a]]

txsBar ==
    [t \in Applied |->
        txs[t] \cup {job[th].peer : th \in {u \in Thread : /\ At(u, {"saveSettled"})
                                                          /\ job[u].tx = t}}]

Atomic == INSTANCE Ledger WITH txs <- txsBar, accounts <- accountsBar,
                               velocity <- velocityBar, minted <- minted

\* The separate reads and writes of one caller implement the atomic ledger up to
\* the first crash: every check is still true when the writes it guards are made.
AtomicUntilCrash ==
    /\ Atomic!Init
    /\ [][crashes' = 0 => Atomic!Next \/ UNCHANGED Atomic!vars]_stepVars

\* However often a single caller is cut off between two writes, the value in the
\* ledger differs from what was minted by at most the operations cut off.
CrashErrorBounded ==
    LET held == MapThenSumSet(LAMBDA a : accountsBar[a].balance + accountsBar[a].pending,
                              Address)
                  + MapThenSumSet(LAMBDA t : t.fee, Applied)
    IN  held - minted <= torn /\ minted - held <= torn

\* The test double_spend_rejected: once a transaction has spent a nonce, another
\* one with the same sender and nonce is not accepted.
OneTransactionPerNonce ==
    \A t, u \in Applied : t.from = u.from /\ t.nonce = u.nonce => t = u
=============================================================================
