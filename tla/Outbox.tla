------------------------------- MODULE Outbox -------------------------------
(***************************************************************************)
(* The queue of outgoing messages of a node (NodeRunner::enqueue, evict_one, *)
(* evict_expired and forward_once in mycelium-node/src/node.rs).  A message *)
(* waits with the peer it is for until the forwarding tick sends it, it      *)
(* expires, or it is evicted because the queue is full.                     *)
(***************************************************************************)
EXTENDS NodeTypes, Sequences, FiniteSets, SequencesExt

CONSTANTS
    PendingCap,     \* pending_cap
    Budget,         \* messages per forwarding tick, for each energy state
    EnergyStates,   \* the energy states the application sets
    MaxMessages     \* bound on messages handed to the queue

ASSUME OutboxConstants ==
    /\ PendingCap \in Nat \ {0}
    /\ Budget \in [NodeState -> Nat]
    /\ EnergyStates \subseteq NodeState
    /\ MaxMessages \in Nat

VARIABLES
    pending,        \* the queue, as a sequence of items
    nodeState,      \* the energy state
    expired,        \* ids of messages whose time to live is over
    created,        \* number of messages handed to the queue; the last one's id
    sent,           \* history: id of the last message sent to each peer, 0 if none
    running         \* the node's loop has not ended with an error

outboxVars == <<pending, nodeState, expired, created, sent, running>>

Item == [to : Peer, id : 1 .. MaxMessages, priority : Priority]

OutboxTypeOK ==
    /\ pending \in Seq(Item)
    /\ nodeState \in NodeState
    /\ expired \subseteq 1 .. MaxMessages
    /\ created \in 0 .. MaxMessages
    /\ sent \in [Peer -> 0 .. MaxMessages]
    /\ running \in BOOLEAN

OutboxInit ==
    /\ pending = <<>>
    /\ nodeState = "Active"
    /\ expired = {}
    /\ created = 0
    /\ sent = [p \in Peer |-> 0]
    /\ running = TRUE

-----------------------------------------------------------------------------
EvictExpired(q) == SelectSeq(q, LAMBDA i : i.id \notin expired)

\* Mutant: the search for a victim keeps the last candidate of highest rank.
VictimHighest(q) ==
    CHOOSE k \in DOMAIN q : \A j \in DOMAIN q : q[j].priority <= q[k].priority

\* The first item of the lowest rank.
Victim(q) ==
    CHOOSE k \in DOMAIN q :
        /\ \A j \in DOMAIN q : q[k].priority <= q[j].priority
        /\ \A j \in 1 .. k - 1 : q[k].priority < q[j].priority

EvictOne(q) ==
    LET live == EvictExpired(q)
    IN  IF Len(live) < PendingCap \/ live = <<>> THEN live ELSE RemoveAt(live, Victim(live))

MakeRoom(q) == IF Len(q) >= PendingCap THEN EvictOne(q) ELSE q

\* Mutant: urgent messages jump the queue.
PushUrgent(q, item) == IF item.priority = High THEN <<item>> \o q ELSE Append(q, item)

Push(q, item) == Append(q, item)

\* enqueue hands a new message to the queue; "pending queue is full" would end the
\* node's loop.
Enqueue(q, item) == IF item.id \in expired THEN q ELSE Push(MakeRoom(q), item)

Overflows(q, item) == item.id \notin expired /\ Len(MakeRoom(q)) >= PendingCap

-----------------------------------------------------------------------------
\* The messages a tick takes from the queue, and what is left.
Tick(q) ==
    LET n == IF Len(q) < Budget[nodeState] THEN Len(q) ELSE Budget[nodeState]
    IN  [head |-> SubSeq(q, 1, n), rest |-> SubSeq(q, n + 1, Len(q))]

\* What the energy policy lets through of the messages a tick takes; the others are
\* dropped.
Forwarded(head) == SelectSeq(head, LAMBDA i : CanForward(nodeState, i.priority))

\* forward_once.  An error of send_direct is only logged.
ForwardOnce ==
    LET tick == Tick(EvictExpired(pending))
        out == Forwarded(tick.head)
    IN  /\ running
        /\ pending' = tick.rest
        /\ sent' = [p \in Peer |-> Max({sent[p]} \cup {out[k].id : k \in {k \in DOMAIN out : out[k].to = p}})]
        /\ UNCHANGED <<nodeState, expired, created, running>>

SetEnergyState(s) ==
    /\ running
    /\ s # nodeState
    /\ nodeState' = s
    /\ UNCHANGED <<pending, expired, created, sent, running>>

\* Time passes: a queued message outlives its time to live.
Expire(id) ==
    /\ id \notin expired
    /\ \E i \in ToSet(pending) : i.id = id
    /\ expired' = expired \cup {id}
    /\ UNCHANGED <<pending, nodeState, created, sent, running>>

-----------------------------------------------------------------------------
(* Properties *)

\* The queue keeps its order: what has been sent to a peer and what still waits for it
\* are in the order in which the node accepted them, whatever was evicted, refused or
\* expired in between.  It never outgrows its capacity, and enqueue never reports a full
\* queue: that error would end the loop of the node.
QueueSound ==
    /\ Len(pending) <= PendingCap
    /\ Len(MakeRoom(pending)) < PendingCap
    /\ \A i, j \in DOMAIN pending :
        /\ sent[pending[i].to] < pending[i].id
        /\ i < j /\ pending[i].to = pending[j].to => pending[i].id < pending[j].id

\* A message that is neither sent nor expired leaves the queue only because the
\* energy policy refuses it or to make room, and then no message in the queue but the
\* newest is of lower priority.
LowestEvicted ==
    [][\A i \in ToSet(pending) \ ToSet(pending') :
            \/ i.id \in expired
            \/ sent'[i.to] >= i.id
            \/ ~CanForward(nodeState, i.priority) /\ created' = created
            \/ \A k \in 1 .. Len(pending') - 1 : i.priority <= pending'[k].priority]_outboxVars
=============================================================================
