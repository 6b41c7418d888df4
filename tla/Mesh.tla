-------------------------------- MODULE Mesh --------------------------------
(***************************************************************************)
(* Messages on the mesh: what nodes send, relay, store, deliver and          *)
(* synchronise (send_direct_internal, broadcast_scoped,                     *)
(* handle_incoming_direct, the ingest pipeline and guard, peer reputation    *)
(* and the Sync* messages of mycelium-node).  Every node is in the Active    *)
(* energy state and has room in its queue: NodeCore is about those.  A       *)
(* queued message and one on the wire are both in net.                       *)
(***************************************************************************)
EXTENDS Integers, FiniteSets, FiniteSetsExt

CONSTANTS
    Node,
    Nobody,           \* the addressee of a message to all
    FirstLinks,       \* pairs of nodes connected at first
    Pairs,            \* pairs that may connect and disconnect
    MaxHops,          \* max_hops
    MaxRelayFanout,   \* max_relay_fanout
    Fanout,           \* base_fanout of a Normal message in the Active state
    RateLimit,        \* DIRECT_RATE_PER_MINUTE
    StrikeLimit,      \* strikes that throttle a peer
    Kinds,            \* kinds of messages the nodes send
    IdsBatch,         \* ids in one SyncIds,
    DataBatch,        \* messages in one SyncData
    Collide,          \* ids that a Bloom filter may wrongly contain
    SyncPairs,        \* bounds: pairs of nodes whose SyncBlooms are not lost,
    MaxSync,          \* Sync* packets that are on their way when a tick sends one,
    MaxMessages,      \* messages,
    MaxFaults,        \* crashes and closed connections,
    MaxLosses,        \* lost packets and messages that are no longer recent,
    MaxTime           \* and steps of time

ASSUME MeshConstants ==
    /\ Nobody \notin Node
    /\ FirstLinks \subseteq Pairs
    /\ \A l \in Pairs : l \subseteq Node /\ Cardinality(l) = 2
    /\ {MaxHops, MaxRelayFanout, Fanout, RateLimit, MaxSync, MaxMessages, MaxFaults, MaxLosses, MaxTime}
           \subseteq Nat
    /\ StrikeLimit \in Nat \ {0} /\ IdsBatch \in Nat \ {0} /\ DataBatch \in Nat \ {0}
    /\ Kinds \subseteq {"signed", "gossip"}
    /\ SyncPairs \subseteq Node \X Node

VARIABLES
    links,            \* pairs of connected nodes (known_peers)
    net,              \* packets queued or on the wire
    store,            \* the messages each node has ingested: store and seen cache
    window,           \* ids each node has persisted in the last ten minutes of this run
    replay,           \* ids in each node's AuthorReplayWindow
    rate,             \* each node's count for each author in this minute
    strikes,          \* each node's strikes of each peer
    lapsed,           \* peers whose last strike is more than a minute ago
    throttled,        \* peers each node ignores
    stale,            \* ids of messages older than REPLAY_MAX_AGE_MS
    nextId,
    delivered,        \* history: how often each node handed a message to its application
    forwards,         \* history: copies of a message each node has relayed
    lost,             \* history: how often a crash made each node forget a message
    faults, time

nodeState == <<store, window, replay, rate, strikes, lapsed, throttled>>
counters == <<lost, faults, time>>
meshVars == <<links, net, nodeState, stale, nextId, delivered, forwards, counters>>

Id == 1 .. MaxMessages
\* from_peer of a relayed message is the relay's own throw-away identity.
RelayOf(n) == <<"relay", n>>

\* The author's signature covers from_peer and hop_count as they were when it was made:
\* the author itself and 0.
Message == [id : Id, kind : {"signed", "gossip"}, author : Node,
            from : Node \cup {RelayOf(n) : n \in Node}, to : Node \cup {Nobody},
            hops : 0 .. MaxHops]

PacketType == {"Data", "SyncBloom", "SyncIds", "SyncRequest", "SyncData"}

Packet == [type : {"Data"}, src : Node, dst : Node, msg : Message]
          \cup [type : {"SyncBloom", "SyncIds", "SyncRequest"}, src : Node, dst : Node,
                ids : SUBSET Id]
          \cup [type : {"SyncData"}, src : Node, dst : Node, msgs : SUBSET Message]

MeshTypeOK ==
    /\ links \subseteq Pairs
    /\ net \subseteq Packet
    /\ store \in [Node -> SUBSET Message]
    /\ window \in [Node -> SUBSET Id] /\ replay \in [Node -> SUBSET Id]
    /\ rate \in [Node -> [Node -> 0 .. RateLimit]]
    /\ strikes \in [Node -> [Node -> 0 .. StrikeLimit]]
    /\ lapsed \in [Node -> SUBSET Node] /\ throttled \in [Node -> SUBSET Node]
    /\ stale \subseteq Id /\ nextId \in 1 .. MaxMessages + 1
    /\ {delivered, forwards, lost} \subseteq [Node -> [Id -> Nat]]

MeshInit ==
    /\ links = FirstLinks
    /\ net = {}
    /\ store = [n \in Node |-> {}]
    /\ window = [n \in Node |-> {}]
    /\ replay = [n \in Node |-> {}]
    /\ rate = [n \in Node |-> [a \in Node |-> 0]]
    /\ strikes = [n \in Node |-> [p \in Node |-> 0]]
    /\ lapsed = [n \in Node |-> {}]
    /\ throttled = [n \in Node |-> {}]
    /\ stale = {}
    /\ nextId = 1
    /\ delivered = [n \in Node |-> [i \in Id |-> 0]]
    /\ forwards = [n \in Node |-> [i \in Id |-> 0]]
    /\ lost = [n \in Node |-> [i \in Id |-> 0]]
    /\ faults = 0 /\ time = 0

Known(n) == {p \in Node : {n, p} \in links /\ p # n}
Stored(n) == {m.id : m \in store[n]}
Data(n, p, m) == [type |-> "Data", src |-> n, dst |-> p, msg |-> m]

-----------------------------------------------------------------------------
(* Reputation *)

RegisterStrike(n, p) ==
    LET k == (IF p \in lapsed[n] THEN 0 ELSE strikes[n][p]) + 1
    IN  /\ strikes' = [strikes EXCEPT ![n][p] = k]
        /\ lapsed' = [lapsed EXCEPT ![n] = @ \ {p}]
        /\ throttled' = [throttled EXCEPT ![n] = IF k >= StrikeLimit THEN @ \cup {p} ELSE @]

RewardPeer(n, p) ==
    /\ strikes' = [strikes EXCEPT ![n][p] = @ \div 2]
    /\ UNCHANGED <<lapsed, throttled>>

reputation == <<strikes, lapsed, throttled>>

-----------------------------------------------------------------------------
(* Sending *)

\* ingest of messages that are new: remembered, persisted and offered to neighbours.
Persist(n, msgs) ==
    /\ store' = [store EXCEPT ![n] = @ \cup msgs]
    /\ window' = [window EXCEPT ![n] = @ \cup {m.id : m \in msgs}]

NewMessage(n, to, kind, id) ==
    [id |-> id, kind |-> kind, author |-> n, from |-> n, to |-> to, hops |-> 0]

\* select_relay_candidates: as many as allowed, those with fewest strikes.
RelayCandidates(n, to) ==
    LET others == Known(n) \ {to}
        k == Min({MaxRelayFanout, Cardinality(others)})
    IN  {s \in kSubset(k, others) :
            \A p \in s, q \in others \ s : strikes[n][p] <= strikes[n][q]}

\* send_direct_internal
SendDirect(n, to) ==
    /\ nextId <= MaxMessages
    /\ LET m == NewMessage(n, to, "signed", nextId)
       IN  /\ Persist(n, {m})
           /\ \E targets \in IF to \in Known(n) THEN {{to}} ELSE RelayCandidates(n, to) :
                  net' = net \cup {Data(n, p, m) : p \in targets}
    /\ nextId' = nextId + 1
    /\ UNCHANGED <<links, replay, rate, reputation, stale, delivered, forwards, counters>>

\* broadcast_scoped to the neighbours, all of which have announced the scope.  The
\* copies have one id if they are made within a millisecond, else each has its own.
Broadcast(n, kind) ==
    /\ Known(n) # {}
    /\ \E ids \in [Known(n) -> Id] :
           /\ {ids[p] : p \in Known(n)} \in {{nextId}, nextId .. nextId + Cardinality(Known(n)) - 1}
           /\ LET m(p) == NewMessage(n, Nobody, kind, ids[p])
              IN  /\ Persist(n, {m(p) : p \in Known(n)})
                  /\ net' = net \cup {Data(n, p, m(p)) : p \in Known(n)}
           /\ nextId' = Max({ids[p] : p \in Known(n)}) + 1
    /\ UNCHANGED <<links, replay, rate, reputation, stale, delivered, forwards, counters>>

-----------------------------------------------------------------------------
(* Receiving *)

\* validate_data_message_signature: the bodies of gossip need none.
Verifies(m) == m.kind = "gossip" \/ (m.from = m.author /\ m.hops = 0)

\* Mutant: the relay forwards to all its neighbours.
RelayTargetsAll(n, src, m) == {Known(n)}

\* To the addressee if it is a neighbour, else to those the forwarding policy's hash
\* of message and peer selects, never back to the peer it came from.
RelayTargets(n, src, m) ==
    LET others == Known(n) \ {src}
    IN  IF m.to = n THEN {{}}
        ELSE IF m.to \in others THEN {{m.to}}
        ELSE {s \in SUBSET others : Cardinality(s) <= Fanout}

\* apply_relay_forward_mask, and one more hop
Relayed(n, m) == [m EXCEPT !.from = RelayOf(n), !.hops = @ + 1]

\* The Data branch after the checks: store, deliver and forward.
Accept(n, pkt) ==
    LET m == pkt.msg
    IN  /\ Persist(n, {m})
        /\ RewardPeer(n, pkt.src)
        /\ delivered' = [delivered EXCEPT ![n][m.id] = @ + 1]
        /\ \E targets \in RelayTargets(n, pkt.src, m) :
               /\ net' = (net \ {pkt}) \cup {Data(n, p, Relayed(n, m)) : p \in targets}
               /\ forwards' = [forwards EXCEPT ![n][m.id] = @ + Cardinality(targets)]

Reject(n, pkt, strike) ==
    /\ net' = net \ {pkt}
    /\ IF strike THEN RegisterStrike(n, pkt.src) ELSE UNCHANGED reputation
    /\ UNCHANGED <<store, window, delivered, forwards>>

\* allow_direct remembers the id before it looks at the rate.
Guard(n, m) ==
    /\ replay' = [replay EXCEPT ![n] = @ \cup {m.id}]
    /\ rate' = IF m.id \notin replay[n] /\ rate[n][m.author] < RateLimit
               THEN [rate EXCEPT ![n][m.author] = @ + 1] ELSE rate

\* Mutant: the store is not asked whether it has the message.
KnownIdSeen(n, id) == id \in window[n]

\* The seen cache or the store knows the id.
KnownId(n, id) == id \in Stored(n)

TooFar(m) == m.hops >= MaxHops

ReceiveData(n, pkt) ==
    LET m == pkt.msg
    IN  /\ pkt.type = "Data"
        /\ IF pkt.src \in throttled[n] \/ (Verifies(m) /\ (TooFar(m) \/ m.id \in stale))
           THEN Reject(n, pkt, FALSE) /\ UNCHANGED <<replay, rate>>
           ELSE IF ~Verifies(m)
           THEN Reject(n, pkt, TRUE) /\ UNCHANGED <<replay, rate>>
           ELSE /\ Guard(n, m)
                /\ IF m.id \in replay[n] \/ rate[n][m.author] >= RateLimit \/ KnownId(n, m.id)
                   THEN Reject(n, pkt, TRUE)
                   ELSE Accept(n, pkt)
        /\ UNCHANGED <<links, stale, nextId, counters>>

-----------------------------------------------------------------------------
(* Anti-entropy *)

Sync(type, n, p, ids) == [type |-> type, src |-> n, dst |-> p, ids |-> ids]

\* send_sync_bloom, at the periodic tick and when a peer comes up
Blooms(n, p) == IF window[n] = {} \/ <<n, p>> \notin SyncPairs THEN {} ELSE {Sync("SyncBloom", n, p, window[n])}

SyncTick(n, p) ==
    /\ p \in Known(n)
    /\ Cardinality({pkt \in net : pkt.type # "Data"}) < MaxSync
    /\ net' = net \cup Blooms(n, p)
    /\ UNCHANGED <<links, nodeState, stale, nextId, delivered, forwards, counters>>

Batch(k, S) == kSubset(Min({k, Cardinality(S)}), S)

\* Mutant: the answer lists what the remote has and this node has not.
BloomAnswerWrongWay(n, src, ids, bloom) ==
    IF bloom \ window[n] # {} THEN {{Sync("SyncIds", n, src, s)} : s \in Batch(IdsBatch, bloom \ window[n])}
    ELSE {{}}

\* What a node answers to a filter of the given ids: the ids the filter lacks if it has
\* about as many itself, its own filter if it has clearly fewer, else nothing.
BloomAnswer(n, src, ids, bloom) ==
    LET own == window[n]
        few == 10 * Cardinality(own) < 8 * Cardinality(ids)
        many == 10 * Cardinality(own) > 8 * Cardinality(ids)
    IN  IF many /\ own \ bloom # {} THEN {{Sync("SyncIds", n, src, s)} : s \in Batch(IdsBatch, own \ bloom)}
        ELSE IF few THEN {{Sync("SyncBloom", n, src, own)}}
        ELSE {{}}

ReceiveSyncBloom(n, pkt) ==
    /\ pkt.type = "SyncBloom"
    /\ \E slip \in SUBSET Collide :
           \E answer \in BloomAnswer(n, pkt.src, pkt.ids, pkt.ids \cup slip) :
               net' = (net \ {pkt}) \cup answer
    /\ UNCHANGED <<store, window>>

ReceiveSyncIds(n, pkt) ==
    /\ pkt.type = "SyncIds"
    /\ LET missing == {i \in pkt.ids : ~KnownId(n, i)}
       IN  net' = (net \ {pkt})
                  \cup (IF missing = {} THEN {} ELSE {Sync("SyncRequest", n, pkt.src, missing)})
    /\ UNCHANGED <<store, window>>

ReceiveSyncRequest(n, pkt) ==
    /\ pkt.type = "SyncRequest"
    /\ \E ids \in Batch(DataBatch, pkt.ids) :
           LET found == {m \in store[n] : m.id \in ids}
           IN  net' = (net \ {pkt})
                      \cup (IF found = {} THEN {} ELSE
                            {[type |-> "SyncData", src |-> n, dst |-> pkt.src, msgs |-> found]})
    /\ UNCHANGED <<store, window>>

\* Synchronised messages are ingested; they are handed to no application.
ReceiveSyncData(n, pkt) ==
    /\ pkt.type = "SyncData"
    /\ net' = net \ {pkt}
    /\ Persist(n, {m \in pkt.msgs : ~KnownId(n, m.id)})

ReceiveSync(n, pkt) ==
    /\ IF pkt.src \in throttled[n] THEN net' = net \ {pkt} /\ UNCHANGED <<store, window>>
       ELSE \/ ReceiveSyncBloom(n, pkt) \/ ReceiveSyncIds(n, pkt)
            \/ ReceiveSyncRequest(n, pkt) \/ ReceiveSyncData(n, pkt)
    /\ pkt.type # "Data"
    /\ UNCHANGED <<links, replay, rate, reputation, stale, nextId, delivered, forwards, counters>>

Receive(n, type) ==
    \E pkt \in net : /\ pkt.dst = n /\ pkt.type = type
                     /\ ReceiveData(n, pkt) \/ ReceiveSync(n, pkt)

-----------------------------------------------------------------------------
(* Faults and time *)

Connect(n, p) ==
    /\ {n, p} \in Pairs \ links
    /\ links' = links \cup {{n, p}}
    /\ net' = net \cup Blooms(n, p) \cup Blooms(p, n)
    /\ UNCHANGED <<nodeState, stale, nextId, delivered, forwards, counters>>

Fault == faults < MaxFaults /\ faults' = faults + 1
Loss == faults < MaxLosses /\ faults' = faults + 1

Disconnect(l) ==
    /\ Fault
    /\ l \in links
    /\ links' = links \ {l}
    /\ UNCHANGED <<net, nodeState, stale, nextId, delivered, forwards, lost, time>>

\* A message is evicted from the queue, refused by the energy policy or lost.
Lose(pkt) ==
    /\ Loss
    /\ net' = net \ {pkt}
    /\ UNCHANGED <<links, nodeState, stale, nextId, delivered, forwards, lost, time>>

\* A node dies and starts again without its queue, its seen cache, guard and
\* reputations; the store may have lost what was not flushed (external: sled).  The
\* list of recent ids starts empty.
Crash(n) ==
    /\ Fault
    /\ \E gone \in SUBSET store[n] :
           /\ store' = [store EXCEPT ![n] = @ \ gone]
           /\ lost' = [lost EXCEPT ![n] = [i \in Id |-> IF \E m \in gone : m.id = i
                                                       THEN lost[n][i] + 1 ELSE lost[n][i]]]
    /\ \E unsent \in SUBSET {pkt \in net : pkt.src = n /\ pkt.type = "Data"} :
           net' = net \ unsent
    /\ window' = [window EXCEPT ![n] = {}]
    /\ replay' = [replay EXCEPT ![n] = {}]
    /\ rate' = [rate EXCEPT ![n] = [a \in Node |-> 0]]
    /\ strikes' = [strikes EXCEPT ![n] = [p \in Node |-> 0]]
    /\ lapsed' = [lapsed EXCEPT ![n] = {}]
    /\ throttled' = [throttled EXCEPT ![n] = {}]
    /\ UNCHANGED <<links, stale, nextId, delivered, forwards, time>>

Later == time < MaxTime /\ time' = time + 1

\* A new rate window; a strike from now on starts a new count.
MinutePasses(n) ==
    /\ Later
    /\ rate' = [rate EXCEPT ![n] = [a \in Node |-> 0]]
    /\ lapsed' = [lapsed EXCEPT ![n] = Node]
    /\ UNCHANGED <<links, net, store, window, replay, strikes, throttled, stale, nextId,
                   delivered, forwards, lost, faults>>

\* Five minutes: throttled peers are heard again.  After ten, is_throttled forgets
\* their strikes.
ThrottleEnds(n) ==
    /\ throttled[n] # {}
    /\ throttled' = [throttled EXCEPT ![n] = {}]
    /\ strikes' \in {strikes, [strikes EXCEPT ![n] = [p \in Node |-> 0]]}
    /\ rate' = [rate EXCEPT ![n] = [a \in Node |-> 0]]
    /\ lapsed' = [lapsed EXCEPT ![n] = Node]
    /\ UNCHANGED <<links, net, store, window, replay, stale, nextId, delivered, forwards,
                   counters>>

\* Ten minutes: a stored message is no longer offered.
LeaveWindow(n, id) ==
    /\ Loss
    /\ id \in window[n]
    /\ window' = [window EXCEPT ![n] = @ \ {id}]
    /\ UNCHANGED <<links, net, store, replay, rate, reputation, stale, nextId, delivered,
                   forwards, lost, time>>

\* Half an hour: direct copies of a message are refused.
GrowStale(id) ==
    /\ Later
    /\ id < nextId /\ id \notin stale
    /\ stale' = stale \cup {id}
    /\ UNCHANGED <<links, net, nodeState, nextId, delivered, forwards, lost, faults>>

MeshNext ==
    \/ \E n, p \in Node : n # p /\ (SendDirect(n, p) \/ SyncTick(n, p))
    \/ \E n, p \in Node : Connect(n, p)
    \/ \E n \in Node, type \in PacketType : Receive(n, type)
    \/ \E n \in Node, kind \in Kinds : Broadcast(n, kind)
    \/ \E n \in Node : Crash(n) \/ MinutePasses(n) \/ ThrottleEnds(n)
    \/ \E l \in links : Disconnect(l)
    \/ \E pkt \in net : Lose(pkt)
    \/ \E n \in Node, id \in Id : LeaveWindow(n, id)
    \/ \E id \in Id : GrowStale(id)

MeshSpec == MeshInit /\ [][MeshNext]_meshVars

\* A connection is a stream: a packet does not wait for ever behind packets of other
\* types.  Sync ticks keep coming whenever MaxSync lets them, broken connections are
\* made again, throttling ends.
FairMeshSpec ==
    /\ MeshSpec
    /\ \A n \in Node : WF_meshVars(ThrottleEnds(n))
    /\ WF_meshVars(\E n, p \in Node : Connect(n, p))
    /\ \A n \in Node, type \in PacketType : WF_meshVars(Receive(n, type))
    /\ \A n, p \in Node : SF_meshVars(SyncTick(n, p))

-----------------------------------------------------------------------------
(* Properties *)

\* A node's application gets a message of another node once, and never its own back,
\* whatever way copies take, unless a crash makes the store forget the message.
DeliveredOnce ==
    \A n \in Node, id \in Id :
        delivered[n][id] <= lost[n][id] + (IF \E m \in store[n] : m.id = id /\ m.author = n
                                           THEN 0 ELSE 1)

\* A node relays at most Fanout copies of a message, once: no loop of neighbours
\* multiplies it.
FloodBounded ==
    \A n \in Node, id \in Id : forwards[n][id] <= Fanout * (1 + lost[n][id])

\* While two nodes stay connected, what one of them has stored lately the other one
\* stores sooner or later by the exchange of filters, ids and messages, unless it is no
\* longer recent.
SyncSpreads ==
    \A n, p \in Node, id \in Id :
        (id \in window[n] /\ p \in Known(n) /\ <<n, p>> \in SyncPairs)
            ~> (id \in Stored(p) \/ id \notin window[n] \/ p \notin Known(n))

\* Every message that a node relays is one that the next node accepts: the signature is
\* the author's, not the relay's.
RelayedVerifies ==
    \A pkt \in net : pkt.type = "Data" => Verifies(pkt.msg)
=============================================================================
