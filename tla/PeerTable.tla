------------------------------ MODULE PeerTable ------------------------------
(***************************************************************************)
(* The peers a node is connected to: the least-recently-used cap of the      *)
(* transport (DirectPeerCap and handle_swarm_event in                       *)
(* mycelium-node/src/transport.rs) and the tables the node keeps from its    *)
(* PeerUp and PeerDown events (node.rs).  Each swarm event is handled by the *)
(* transport and then by the node in the same turn of the node's loop.       *)
(***************************************************************************)
EXTENDS NodeTypes, Sequences, FiniteSets, SequencesExt

CONSTANTS
    MaxPeers,       \* max_peers; 0 is replaced by the default
    MaxConns        \* bound on simultaneous connections

ASSUME PeerConstants == MaxPeers \in Nat \ {0} /\ MaxConns \in Nat

VARIABLES
    open,           \* the swarm's connections to each peer (external)
    lru,            \* DirectPeerCap: its peers, the least recently seen first
    peers,          \* the node's list of peers
    peerScopes,     \* peers with an entry in peer_scopes (for the one scope modelled)
    evicted         \* history: peers evicted since they last came up

tableVars == <<open, lru, peers, peerScopes, evicted>>

PeerTypeOK ==
    /\ open \in [Peer -> 0 .. MaxConns]
    /\ lru \in Seq(Peer)
    /\ peers \subseteq Peer
    /\ peerScopes \subseteq Peer
    /\ evicted \subseteq Peer

PeerInit ==
    /\ open = [p \in Peer |-> 0]
    /\ lru = <<>>
    /\ peers = {} /\ peerScopes = {} /\ evicted = {}

-----------------------------------------------------------------------------
KnownPeers == ToSet(lru)

Without(s, p) == SelectSeq(s, LAMBDA q : q # p)

\* Mutant: touching a peer enters it in the table.
TouchAny(s, p) == Append(Without(s, p), p)

Touch(s, p) == IF p \in ToSet(s) THEN Append(Without(s, p), p) ELSE s

\* Mutant: the table is full only above its limit.
FullLate(s) == Len(s) > MaxPeers

Full(s) == Len(s) >= MaxPeers

\* handle_connection_established, and PeerUp at the node when it returns true: the new
\* peer is entered in the place of the least recently seen one, which is disconnected.
\* The node's own messages to the new peer touch an entry that is the newest already.
Admit(p) ==
    IF p \in KnownPeers
    THEN /\ lru' = Touch(lru, p)
         /\ UNCHANGED <<peers, evicted>>
    ELSE /\ IF Full(lru)
            THEN /\ lru' = Append(Tail(lru), p)
                 /\ evicted' = (evicted \cup {Head(lru)}) \ {p}
            ELSE /\ lru' = Append(lru, p)
                 /\ evicted' = evicted \ {p}
         /\ peers' = peers \cup {p}

ConnectionEstablished(p) ==
    /\ MapThenSumSet(LAMBDA q : open[q], Peer) < MaxConns
    /\ open' = [open EXCEPT ![p] = @ + 1]
    /\ Admit(p)
    /\ UNCHANGED <<peerScopes>>

\* The peer's identify protocol answers on a connection, at first and periodically.
IdentifyReceived(p) ==
    /\ open[p] > 0
    /\ Admit(p)
    /\ UNCHANGED <<open, peerScopes>>

PeerDown(p) ==
    /\ peers' = peers \ {p}
    /\ peerScopes' = peerScopes \ {p}

\* Any one of a peer's connections is closed.  The peer leaves the table even if it
\* has another one; a peer that is not in the table is not reported.
ConnectionClosed(p) ==
    /\ open[p] > 0
    /\ open' = [open EXCEPT ![p] = @ - 1]
    /\ IF p \in KnownPeers
       THEN lru' = Without(lru, p) /\ PeerDown(p)
       ELSE UNCHANGED <<lru, peers, peerScopes>>
    /\ UNCHANGED evicted

\* A direct message of a connected peer touches it; PeerInfo stores, as ScopeAnnounce of
\* a known peer does, the scopes it supports.  The key it brings lives in peer_x25519 as
\* long as the scopes in peer_scopes and is left out.
ReceivePeerInfo(p) ==
    /\ open[p] > 0
    /\ lru' = Touch(lru, p)
    /\ \E supports \in BOOLEAN :
           peerScopes' = IF supports THEN peerScopes \cup {p} ELSE peerScopes \ {p}
    /\ UNCHANGED <<open, peers, evicted>>

ReceiveScopeAnnounce(p) ==
    /\ open[p] > 0
    /\ lru' = Touch(lru, p)
    /\ IF p \in KnownPeers
       THEN \E supports \in BOOLEAN :
                peerScopes' = IF supports THEN peerScopes \cup {p} ELSE peerScopes \ {p}
       ELSE UNCHANGED peerScopes
    /\ UNCHANGED <<open, peers, evicted>>

\* The sync tick sends to every known peer, in the order of a hash table.
SyncKnownPeers ==
    /\ lru' \in SetToSeqs(KnownPeers)
    /\ UNCHANGED <<open, peers, peerScopes, evicted>>

ListPeers ==
    /\ peers' = KnownPeers
    /\ UNCHANGED <<open, lru, peerScopes, evicted>>

-----------------------------------------------------------------------------
(* Properties *)

\* The peers the transport reports as known are connected, are in the node's own list,
\* are listed once and are no more than the cap, whatever the order in which
\* connections come, are doubled, closed and evicted.  The node's list names a peer the
\* transport no longer knows only after an eviction, which is reported to nobody.
DirectPeersSound ==
    /\ Len(lru) <= MaxPeers
    /\ Cardinality(KnownPeers) = Len(lru)
    /\ \A p \in KnownPeers : open[p] > 0 /\ p \in peers
    /\ peers \ KnownPeers \subseteq evicted
=============================================================================
