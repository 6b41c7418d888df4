------------------------------ MODULE NodeCore ------------------------------
(***************************************************************************)
(* The loop of a node (NodeRunner::run): the table of connected peers and    *)
(* the queue of outgoing messages, driven by swarm events, commands of the   *)
(* application and the forwarding tick.  Each arm of the loop's select runs  *)
(* to its end before the next one, and an error that an arm returns ends the *)
(* loop.                                                                    *)
(***************************************************************************)
EXTENDS Outbox, PeerTable

CONSTANTS
    MaxRelayFanout,     \* max_relay_fanout
    RelayPriority       \* priorities of the messages to be relayed

ASSUME RelayConstants == MaxRelayFanout \in Nat /\ RelayPriority \subseteq Priority

nodeVars == <<outboxVars, tableVars>>

NodeTypeOK == OutboxTypeOK /\ PeerTypeOK

NodeInit == OutboxInit /\ PeerInit

\* A message with the next id is handed to the queue for each peer of targets, in any
\* order (known_peers and peer_scopes are hash tables).
EnqueueAll(targets, priority) ==
    /\ created < MaxMessages
    /\ created' = created + 1
    /\ \E order \in SetToSeqs(targets) :
           LET item(p) == [to |-> p, id |-> created + 1, priority |-> priority]
           IN  /\ pending' = FoldLeft(LAMBDA q, p : Enqueue(q, item(p)), pending, order)
               /\ running' = \A k \in DOMAIN order :
                      ~Overflows(FoldLeft(LAMBDA q, p : Enqueue(q, item(p)), pending,
                                          SubSeq(order, 1, k - 1)), item(order[k]))
    /\ UNCHANGED <<nodeState, expired, sent>>

\* send_direct_internal: to the peer itself if it is known, else to a few others that
\* may relay it (those with fewest strikes; here any), else to nobody.
RelayCandidates(to) ==
    {s \in SUBSET (KnownPeers \ {to}) :
        Cardinality(s) = IF Cardinality(KnownPeers) < MaxRelayFanout
                         THEN Cardinality(KnownPeers) ELSE MaxRelayFanout}

SendDirect(to) ==
    /\ running
    /\ \E targets \in IF to \in KnownPeers THEN {{to}} ELSE RelayCandidates(to) :
           EnqueueAll(targets, Normal)
    /\ UNCHANGED tableVars

\* broadcast_scoped: to the peers that have announced the scope, else by gossip, which
\* fails when gossipsub has no peer for the topic.
BroadcastScoped ==
    /\ running
    /\ IF peerScopes # {}
       THEN EnqueueAll(peerScopes, Normal)
       ELSE \/ UNCHANGED outboxVars
            \/ running' = FALSE /\ UNCHANGED <<pending, nodeState, expired, created, sent>>
    /\ UNCHANGED tableVars

\* A Data message of a connected peer is forwarded to its addressee, or to peers that the
\* forwarding policy selects.
RelayData(from, priority) ==
    /\ running
    /\ open[from] > 0
    /\ lru' = Touch(lru, from)
    /\ CanForward(nodeState, priority)
    /\ \E targets \in SUBSET (KnownPeers \ {from}) \ {{}} :
           /\ Cardinality(targets) <= BaseFanout(nodeState, priority)
           /\ EnqueueAll(targets, priority)
    /\ UNCHANGED <<open, peers, peerScopes, evicted>>

\* The forwarding tick touches every peer it sends to.
ForwardTick ==
    /\ ForwardOnce
    /\ lru' = FoldLeft(LAMBDA s, i : Touch(s, i.to), lru,
                       Forwarded(Tick(EvictExpired(pending)).head))
    /\ UNCHANGED <<open, peers, peerScopes, evicted>>

NodeNext ==
    \/ /\ running
       /\ \/ \E p \in Peer : \/ ConnectionEstablished(p) \/ ConnectionClosed(p)
                             \/ IdentifyReceived(p)
                             \/ ReceivePeerInfo(p) \/ ReceiveScopeAnnounce(p)
          \/ SyncKnownPeers \/ ListPeers
       /\ UNCHANGED outboxVars
    \/ \E p \in Peer : SendDirect(p)
    \/ BroadcastScoped
    \/ \E from \in Peer, priority \in RelayPriority : RelayData(from, priority)
    \/ ForwardTick
    \/ \E s \in EnergyStates : SetEnergyState(s) /\ UNCHANGED tableVars
    \/ \E id \in 1 .. MaxMessages : Expire(id) /\ UNCHANGED tableVars

NodeSpec == NodeInit /\ [][NodeNext]_nodeVars

-----------------------------------------------------------------------------
(* Properties *)

\* The node's loop goes on whatever the application asks it to send, also with no peer in
\* reach: the ledger is "offline-first".
NodeSurvives == running
=============================================================================
