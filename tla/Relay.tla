-------------------------------- MODULE Relay --------------------------------
(***************************************************************************)
(* The public relay (mycelium-relay/src/main.rs): what its event loop and    *)
(* its HTTP handlers keep about connections, reservations and peers that     *)
(* opted in to be found, and the clients that opt in and out                 *)
(* (mycelium-core/src/rendezvous.rs and the rendezvous task and command of   *)
(* a node).  The swarm's connections and the reservations that libp2p's      *)
(* relay holds on them are external.                                        *)
(***************************************************************************)
EXTENDS Integers, FiniteSets, FiniteSetsExt

CONSTANTS
    Peer,
    MaxConnections,   \* bounds: connections that are made,
    MaxReservations,  \* reservations that are granted,
    MaxToggles,       \* times that users change their mind
    MaxLosses         \* and HTTP requests that are lost

ASSUME RelayConstants ==
    {MaxConnections, MaxReservations, MaxToggles, MaxLosses} \subseteq Nat

VARIABLES
    plain,            \* connections of each peer without a reservation (external)
    held,             \* connections of each peer with one (external)
    connections, reservations, connectedPeers, reservedPeers, optIn,    \* StatusState
    enabled,          \* rendezvous_enabled of each peer's node
    posts,            \* HTTP requests on their way, by the node's task or its command
    made, granted, toggles, losses,     \* history for the bounds
    unheard           \* history: peers whose request to leave was lost or overtook another

relayState == <<connections, reservations, connectedPeers, reservedPeers, optIn>>
history == <<made, granted, toggles, losses, unheard>>
relayVars == <<plain, held, relayState, enabled, posts, history>>

Post == [peer : Peer, by : {"task", "command"}, register : BOOLEAN]

RelayTypeOK ==
    /\ plain \in [Peer -> Nat] /\ held \in [Peer -> Nat]
    /\ connections \in Nat /\ reservations \in Nat
    /\ connectedPeers \subseteq Peer /\ reservedPeers \subseteq Peer /\ optIn \subseteq Peer
    /\ enabled \in [Peer -> BOOLEAN]
    /\ posts \subseteq Post /\ unheard \subseteq Peer

RelayInit ==
    /\ plain = [p \in Peer |-> 0] /\ held = [p \in Peer |-> 0]
    /\ connections = 0 /\ reservations = 0
    /\ connectedPeers = {} /\ reservedPeers = {} /\ optIn = {}
    /\ enabled = [p \in Peer |-> FALSE]
    /\ posts = {}
    /\ made = 0 /\ granted = 0 /\ toggles = 0 /\ losses = 0
    /\ unheard = {}

-----------------------------------------------------------------------------
(* The relay *)

\* atomic_saturating_sub
SubOne(n) == IF n = 0 THEN 0 ELSE n - 1

ConnectionEstablished(p) ==
    /\ made < MaxConnections
    /\ made' = made + 1
    /\ plain' = [plain EXCEPT ![p] = @ + 1]
    /\ connections' = connections + 1
    /\ connectedPeers' = connectedPeers \cup {p}
    /\ UNCHANGED <<held, reservations, reservedPeers, optIn, enabled, posts, granted, toggles,
                   losses, unheard>>

\* Mutant: a peer that leaves keeps its entry.
ForgetConnected(p) ==
    /\ connectedPeers' = connectedPeers \ {p}
    /\ UNCHANGED <<reservedPeers, optIn, reservations>>

\* What the relay forgets of a peer when any one of its connections is closed; the
\* number of reservations is left alone.
Forget(p) ==
    /\ connectedPeers' = connectedPeers \ {p}
    /\ reservedPeers' = reservedPeers \ {p}
    /\ optIn' = optIn \ {p}
    /\ UNCHANGED reservations

ConnectionClosed(p) ==
    /\ \/ plain[p] > 0 /\ plain' = [plain EXCEPT ![p] = @ - 1] /\ UNCHANGED held
       \/ held[p] > 0 /\ held' = [held EXCEPT ![p] = @ - 1] /\ UNCHANGED plain
    /\ connections' = SubOne(connections)
    /\ Forget(p)
    /\ UNCHANGED <<enabled, posts, history>>

\* ReservationReqAccepted on a connection without a reservation
ReservationAccepted(p) ==
    /\ granted < MaxReservations
    /\ granted' = granted + 1
    /\ plain[p] > 0
    /\ plain' = [plain EXCEPT ![p] = @ - 1]
    /\ held' = [held EXCEPT ![p] = @ + 1]
    /\ reservations' = reservations + 1
    /\ reservedPeers' = reservedPeers \cup {p}
    /\ UNCHANGED <<connections, connectedPeers, optIn, enabled, posts, made, toggles, losses,
                   unheard>>

\* Mutant: a renewal is only counted.
ReservationRenewedOnly(p) ==
    /\ held[p] > 0
    /\ UNCHANGED relayVars

\* The same with renewed set
ReservationRenewed(p) ==
    /\ held[p] > 0
    /\ reservedPeers' = reservedPeers \cup {p}
    /\ UNCHANGED <<plain, held, connections, reservations, connectedPeers, optIn, enabled,
                   posts, history>>

ReservationTimedOut(p) ==
    /\ held[p] > 0
    /\ held' = [held EXCEPT ![p] = @ - 1]
    /\ plain' = [plain EXCEPT ![p] = @ + 1]
    /\ reservations' = SubOne(reservations)
    /\ reservedPeers' = reservedPeers \ {p}
    /\ optIn' = optIn \ {p}
    /\ UNCHANGED <<connections, connectedPeers, enabled, posts, history>>

\* rendezvous_register and rendezvous_unregister
Handle(post) ==
    /\ posts' = posts \ {post}
    /\ optIn' = IF post.register THEN optIn \cup {post.peer} ELSE optIn \ {post.peer}
    /\ unheard' = IF post.register THEN unheard
                  ELSE IF \E other \in posts : other.peer = post.peer /\ other.register
                       THEN unheard \cup {post.peer} ELSE unheard \ {post.peer}
    /\ UNCHANGED <<plain, held, connections, reservations, connectedPeers, reservedPeers,
                   enabled, made, granted, toggles, losses>>

\* GET /rendezvous
Listed == reservedPeers \cap optIn

-----------------------------------------------------------------------------
(* The clients *)

\* Mutant: only a node that opts in tells the relay.
SetFlagTellingOptIn(p, e) ==
    /\ toggles < MaxToggles
    /\ toggles' = toggles + 1
    /\ enabled' = [enabled EXCEPT ![p] = e]
    /\ posts' = posts \cup {post \in Post : post.peer = p /\ post.by = "command"
                                            /\ post.register /\ e}
    /\ UNCHANGED <<plain, held, relayState, made, granted, losses, unheard>>

\* The command sets the flag and leaves the request to a thread of its own.
SetRendezvousEnabled(p, e) ==
    /\ toggles < MaxToggles
    /\ toggles' = toggles + 1
    /\ enabled' = [enabled EXCEPT ![p] = e]
    /\ posts' = posts \cup {[peer |-> p, by |-> "command", register |-> e]}
    /\ UNCHANGED <<plain, held, relayState, made, granted, losses, unheard>>

\* Every 45 seconds, once its last request has ended, the task registers an enabled node.
RendezvousTick(p) ==
    /\ enabled[p]
    /\ \A post \in posts : post.peer = p => post.by # "task"
    /\ posts' = posts \cup {[peer |-> p, by |-> "task", register |-> TRUE]}
    /\ UNCHANGED <<plain, held, relayState, enabled, history>>

\* A request times out or fails: this is only logged.
LosePost(post) ==
    /\ losses < MaxLosses
    /\ losses' = losses + 1
    /\ posts' = posts \ {post}
    /\ unheard' = IF post.register THEN unheard ELSE unheard \cup {post.peer}
    /\ UNCHANGED <<plain, held, relayState, enabled, made, granted, toggles>>

-----------------------------------------------------------------------------
RelayNext ==
    \/ \E p \in Peer : \/ ConnectionEstablished(p) \/ ConnectionClosed(p)
                       \/ ReservationAccepted(p) \/ ReservationRenewed(p)
                       \/ ReservationTimedOut(p)
                       \/ RendezvousTick(p)
                       \/ \E e \in BOOLEAN : SetRendezvousEnabled(p, e)
    \/ \E post \in posts : Handle(post) \/ LosePost(post)

RelaySpec == RelayInit /\ [][RelayNext]_relayVars

\* The task's tick keeps coming, requests end, and libp2p's client renews its
\* reservation before it expires.
FairRelaySpec ==
    /\ RelaySpec
    /\ \A p \in Peer : WF_relayVars(RendezvousTick(p)) /\ WF_relayVars(ReservationRenewed(p))
    /\ \A post \in Post : WF_relayVars(post \in posts /\ Handle(post))

-----------------------------------------------------------------------------
(* Properties *)

\* A peer that GET /rendezvous lists holds a reservation: whoever asks can reach it,
\* whichever of its connections and reservations came and went.
ListedReachable == \A p \in Listed : held[p] > 0

\* SetRendezvousEnabled, rendezvous_unregister: a peer that opted out is opted in at the
\* relay only while its request to leave is on its way, or if that request was lost or
\* handled before a registration still on its way; nothing sends it again.
OptOutHeard ==
    \A p \in optIn :
        \/ enabled[p] \/ p \in unheard
        \/ \E post \in posts : post.peer = p /\ ~post.register

\* An enabled node with a reservation comes to be listed while both last, also after
\* another of its connections is closed or a request is lost.
EnabledListed ==
    \A p \in Peer :
        (enabled[p] /\ held[p] > 0) ~> (p \in Listed \/ ~enabled[p] \/ held[p] = 0)
=============================================================================
