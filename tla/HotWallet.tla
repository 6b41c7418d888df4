------------------------------ MODULE HotWallet ------------------------------
(***************************************************************************)
(* A hot wallet that keeps its balance topped up from a cold one           *)
(* (hot_wallet.rs, refill.rs and the RefillRequest branch of               *)
(* CoinNode::handle_incoming), on top of CoinNet.  Whenever the device     *)
(* comes online the hot wallet asks for a refill if its confirmed balance  *)
(* is low and returns what exceeds its cap.  The cold node pays a request  *)
(* by an ordinary transfer, and marks it as applied after the transfer has *)
(* been broadcast: a crash may come between the two.                       *)
(***************************************************************************)
EXTENDS CoinNet, Sequences

CONSTANTS
    Hot, Cold,        \* the two nodes
    MaxCache,         \* max_cache_muon
    Threshold,        \* refill_threshold_muon
    RefillAmount,     \* refill_amount_muon
    MaxRequests,      \* bound on refill requests
    MaxFailures       \* bound on crashes and failed broadcasts

ASSUME HotConstants ==
    /\ Hot \in Node /\ Cold \in Node /\ Hot # Cold
    /\ MaxCache \in Nat /\ Threshold \in Nat /\ RefillAmount \in Nat
    /\ MaxRequests \in Nat /\ MaxFailures \in Nat

VARIABLES
    requests,         \* the amounts asked for; a request's id is its index
    live,             \* requests that are on their way and have not expired
    refillApplied,    \* the cold node's "refill_applied" tree
    durableApplied,   \* that tree as last flushed
    serving,          \* the request paid and not yet marked, 0 if none
    failures,         \* crashes of the cold node and failed broadcasts so far
    paid,             \* history: how often the cold node has paid each request
    capLeft,          \* what enforce_cap has still to return
    arrived           \* history: what was confirmed to Hot since enforce_cap began

hotVars == <<requests, live, refillApplied, durableApplied, serving, failures, paid,
             capLeft, arrived>>
walletVars == <<netVars, hotVars>>

Ids == 1 .. MaxRequests
HotConfirmed == ledger[Hot].accounts[Hot].balance

WalletTypeOK ==
    /\ NetTypeOK
    /\ requests \in Seq(Nat) /\ Len(requests) <= MaxRequests
    /\ live \subseteq DOMAIN requests
    /\ refillApplied \subseteq DOMAIN requests
    /\ durableApplied \subseteq DOMAIN requests
    /\ serving \in {0} \cup DOMAIN requests
    /\ failures \in 0 .. MaxFailures
    /\ paid \in [Ids -> Nat]
    /\ capLeft \in Nat /\ arrived \in Nat

WalletInit ==
    /\ NetInit
    /\ requests = <<>> /\ live = {}
    /\ refillApplied = {} /\ durableApplied = {} /\ serving = 0
    /\ failures = 0 /\ paid = [id \in Ids |-> 0]
    /\ capLeft = 0 /\ arrived = 0

\* Mutant: the wallet asks for a full cache.
MaybeRefillFull ==
    /\ Len(requests) < MaxRequests
    /\ HotConfirmed < Threshold
    /\ requests' = Append(requests, MaxCache)
    /\ live' = live \cup {Len(requests) + 1}
    /\ UNCHANGED <<netVars, refillApplied, durableApplied, serving, failures, paid,
                   capLeft, arrived>>

\* maybe_refill looks at the confirmed balance only: what is pending or already
\* asked for does not count.
MaybeRefill ==
    /\ Len(requests) < MaxRequests
    /\ HotConfirmed < Threshold
    /\ requests' = Append(requests, L(ledger[Hot])!SaturatingSub(RefillAmount, HotConfirmed))
    /\ live' = live \cup {Len(requests) + 1}
    /\ UNCHANGED <<netVars, refillApplied, durableApplied, serving, failures, paid,
                   capLeft, arrived>>

\* The fifteen minutes of a request are over, or it is lost.
Expire(id) ==
    /\ id \in live
    /\ live' = live \ {id}
    /\ UNCHANGED <<netVars, requests, refillApplied, durableApplied, serving, failures, paid,
                   capLeft, arrived>>

\* handle_incoming of a RefillRequest up to the broadcast of the transfer.  A
\* request may arrive again until it expires.  A transfer the cold ledger refuses
\* leaves the request unmarked.
ServeRefill(id) ==
    /\ serving = 0
    /\ id \in live
    /\ id \notin refillApplied
    /\ Submit(Cold, Hot, requests[id])
    /\ serving' = id
    /\ paid' = [paid EXCEPT ![id] = @ + 1]
    /\ UNCHANGED <<requests, live, refillApplied, durableApplied, failures, capLeft, arrived>>

\* The same with a broadcast that fails: the cold ledger has paid, the request
\* counts as failed and is not marked.
ServeUnsent(id) ==
    /\ failures < MaxFailures
    /\ serving = 0
    /\ id \in live
    /\ id \notin refillApplied
    /\ SubmitUnsent(Cold, Hot, requests[id])
    /\ failures' = failures + 1
    /\ paid' = [paid EXCEPT ![id] = @ + 1]
    /\ UNCHANGED <<requests, live, refillApplied, durableApplied, serving, capLeft, arrived>>

\* Mutant: the mark is forgotten.
MarkRefillNot ==
    /\ serving # 0
    /\ serving' = 0
    /\ UNCHANGED <<netVars, requests, live, refillApplied, durableApplied, failures, paid,
                   capLeft, arrived>>

MarkRefill ==
    /\ serving # 0
    /\ refillApplied' = refillApplied \cup {serving}
    /\ serving' = 0
    /\ UNCHANGED <<netVars, requests, live, durableApplied, failures, paid, capLeft, arrived>>

\* enforce_cap computes the excess once and returns it in chunks.
EnforceCap ==
    /\ capLeft = 0
    /\ HotConfirmed > MaxCache
    /\ capLeft' = HotConfirmed - MaxCache
    /\ arrived' = 0
    /\ UNCHANGED <<netVars, requests, live, refillApplied, durableApplied, serving, failures,
                   paid>>

Chunk == IF capLeft < MaxTransfer THEN capLeft ELSE MaxTransfer

\* Mutant: only one chunk is returned.
ReturnChunkOnce ==
    /\ capLeft > 0
    /\ Submit(Hot, Cold, Chunk)
    /\ capLeft' = 0
    /\ UNCHANGED <<requests, live, refillApplied, durableApplied, serving, failures, paid,
                   arrived>>

\* One turn of its loop; a chunk that the ledger refuses or that is not broadcast
\* ends it with an error.
ReturnChunk ==
    /\ capLeft > 0
    /\ \/ Submit(Hot, Cold, Chunk) /\ capLeft' = capLeft - Chunk /\ UNCHANGED failures
       \/ /\ ~L(ledger[Hot])!Acceptable(Transfer(Hot, Cold, Chunk))
          /\ capLeft' = 0
          /\ UNCHANGED <<netVars, failures>>
       \/ /\ failures < MaxFailures
          /\ SubmitUnsent(Hot, Cold, Chunk)
          /\ capLeft' = 0
          /\ failures' = failures + 1
    /\ UNCHANGED <<requests, live, refillApplied, durableApplied, serving, paid, arrived>>

\* Meanwhile the nodes exchange transactions and witnesses, and the user pays.
ReceiveCoins(n) ==
    /\ Receive(n)
    /\ arrived' = arrived + HotConfirmed' - HotConfirmed
    /\ UNCHANGED <<requests, live, refillApplied, durableApplied, serving, failures,
                   paid, capLeft>>

Spend(to, amount) ==
    /\ Submit(Hot, to, amount)
    /\ UNCHANGED hotVars

FlushCold ==
    /\ Flush(Cold)
    /\ durableApplied' = refillApplied
    /\ UNCHANGED <<requests, live, refillApplied, serving, failures, paid,
                   capLeft, arrived>>

CrashCold ==
    /\ failures < MaxFailures
    /\ failures' = failures + 1
    /\ Crash(Cold)
    /\ refillApplied' = durableApplied
    /\ serving' = 0
    /\ UNCHANGED <<requests, live, durableApplied, paid, capLeft, arrived>>

WalletNext ==
    \/ MaybeRefill
    \/ \E id \in Ids : Expire(id) \/ ServeRefill(id) \/ ServeUnsent(id)
    \/ MarkRefill
    \/ EnforceCap \/ ReturnChunk
    \/ \E n \in Node : ReceiveCoins(n)
    \/ \E to \in Node, amount \in Amounts : Spend(to, amount)
    \/ Cold \in CrashNodes /\ (FlushCold \/ CrashCold)

WalletSpec == WalletInit /\ [][WalletNext]_walletVars

\* Both nodes run and hear each other: a request is served when it can be.
FairWalletSpec ==
    /\ WalletSpec
    /\ WF_walletVars(MaybeRefill)
    /\ WF_walletVars(\E id \in Ids : ServeRefill(id))
    /\ WF_walletVars(MarkRefill)
    /\ \A n \in Node : WF_walletVars(ReceiveCoins(n))

-----------------------------------------------------------------------------
(* Properties *)

\* However often a request arrives, the cold node pays it once.  Only a crash
\* between payment and mark or before both are flushed, or a payment that could
\* not be broadcast, makes it pay again, and each of them once at most.
RepaidOnlyByFailure == \A id \in Ids : paid[id] <= 1 + failures

\* When enforce_cap has returned the last chunk, the confirmed balance is within
\* the cap but for what was confirmed to the wallet while it was returning.
CapRestored ==
    [][capLeft > 0 /\ capLeft' = 0 /\ network' # network
           => HotConfirmed' <= MaxCache + arrived']_walletVars

\* A wallet below its threshold shows "Refilling...": when its refill amount is within
\* the transfer limit the cold node sooner or later pays it, unless the request expires,
\* the balance recovers by itself or the bound on transfers is reached.
RefillArrives ==
    RefillAmount <= MaxTransfer =>
        (HotConfirmed < Threshold
            ~> \/ HotConfirmed >= Threshold
               \/ \E id \in DOMAIN requests : paid[id] > 0 \/ id \notin live
               \/ submits = MaxSubmits)
=============================================================================
