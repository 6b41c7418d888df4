---------------------------- MODULE RelayProofs ----------------------------
(***************************************************************************)
(* Whatever peers there are and however long the relay runs, the peers it    *)
(* lists can be reached.  ListedReachable is not inductive: an unregistered  *)
(* peer without a reservation could register.  ReservedHeld, about all       *)
(* reserved peers, is.                                                      *)
(***************************************************************************)
EXTENDS Relay, TLAPS

\* A peer that the relay takes to be reserved has a reservation on some connection.
ReservedHeld == \A p \in reservedPeers : held[p] > 0

IInv == RelayTypeOK /\ ReservedHeld

\* The relay starts with no peers.
LEMMA InitIInv == RelayInit => IInv
BY DEF RelayInit, IInv, RelayTypeOK, ReservedHeld

\* The relay's own handlers keep the reserved peers right: each one that gives up a
\* reservation of a peer also takes the peer from the list.
LEMMA RelayStep ==
    ASSUME IInv, NEW p \in Peer,
           \/ ConnectionEstablished(p) \/ ConnectionClosed(p) \/ ReservationAccepted(p)
           \/ ReservationRenewed(p) \/ ReservationTimedOut(p)
    PROVE  IInv'
<1> USE DEF IInv, RelayTypeOK, ReservedHeld
<1>1. CASE ConnectionEstablished(p)
  BY <1>1 DEF ConnectionEstablished
<1>2. CASE ConnectionClosed(p)
  BY <1>2 DEF ConnectionClosed, Forget, SubOne, history
<1>3. CASE ReservationAccepted(p)
  BY <1>3 DEF ReservationAccepted
<1>4. CASE ReservationRenewed(p)
  BY <1>4 DEF ReservationRenewed, history
<1>5. CASE ReservationTimedOut(p)
  BY <1>5 DEF ReservationTimedOut, SubOne, history
<1> QED
  BY <1>1, <1>2, <1>3, <1>4, <1>5

\* The clients and their requests touch neither reservations nor reserved peers.
LEMMA ClientStep ==
    ASSUME IInv,
           \/ \E p \in Peer : RendezvousTick(p) \/ \E e \in BOOLEAN : SetRendezvousEnabled(p, e)
           \/ \E post \in posts : Handle(post) \/ LosePost(post)
    PROVE  IInv'
<1>1. ASSUME NEW p \in Peer, NEW e \in BOOLEAN, NEW by \in {"task", "command"}
      PROVE  [peer |-> p, by |-> by, register |-> e] \in Post
  BY <1>1, Zenon DEF Post
<1>2. ASSUME posts' \subseteq Post, enabled' \in [Peer -> BOOLEAN], optIn' \subseteq Peer,
             unheard' \subseteq Peer,
             UNCHANGED <<plain, held, connections, reservations, connectedPeers, reservedPeers>>
      PROVE  IInv'
  BY <1>2 DEF IInv, RelayTypeOK, ReservedHeld
<1>3. /\ posts \subseteq Post /\ enabled \in [Peer -> BOOLEAN] /\ optIn \subseteq Peer
      /\ unheard \subseteq Peer
  BY DEF IInv, RelayTypeOK
<1>4. ASSUME NEW p \in Peer, RendezvousTick(p) PROVE IInv'
  <2>1. [peer |-> p, by |-> "task", register |-> TRUE] \in Post
    BY <1>1, Zenon
  <2> QED
    BY <1>2, <1>3, <1>4, <2>1, Zenon DEF RendezvousTick, relayState, history
<1>5. ASSUME NEW p \in Peer, NEW e \in BOOLEAN, SetRendezvousEnabled(p, e) PROVE IInv'
  <2>1. [peer |-> p, by |-> "command", register |-> e] \in Post
    BY <1>1, Zenon
  <2>2. posts' \subseteq Post
    BY <1>3, <1>5, <2>1 DEF SetRendezvousEnabled
  <2>3. enabled' \in [Peer -> BOOLEAN]
    BY <1>3, <1>5, Zenon DEF SetRendezvousEnabled
  <2> QED
    BY <1>2, <1>3, <1>5, <2>2, <2>3 DEF SetRendezvousEnabled, relayState
<1>6. ASSUME NEW post \in posts, Handle(post) PROVE IInv'
  <2>1. post.peer \in Peer
    BY <1>3 DEF Post
  <2> QED
    BY <1>2, <1>3, <1>6, <2>1 DEF Handle
<1>7. ASSUME NEW post \in posts, LosePost(post) PROVE IInv'
  <2>1. post.peer \in Peer
    BY <1>3 DEF Post
  <2> QED
    BY <1>2, <1>3, <1>7, <2>1 DEF LosePost, relayState
<1> QED
  BY <1>4, <1>5, <1>6, <1>7

\* Every step keeps the invariant.
LEMMA RelayInvStep == IInv /\ [RelayNext]_relayVars => IInv'
<1> SUFFICES ASSUME IInv, [RelayNext]_relayVars PROVE IInv'
  OBVIOUS
<1>1. CASE UNCHANGED relayVars
  BY <1>1 DEF relayVars, relayState, history, IInv, RelayTypeOK, ReservedHeld
<1>2. CASE RelayNext
  BY <1>2, RelayStep, ClientStep DEF RelayNext
<1> QED
  BY <1>1, <1>2

\* Every peer that GET /rendezvous lists holds a reservation, whatever the order of
\* connections, reservations, time-outs and requests.
THEOREM ListedAreReachable == RelaySpec => []ListedReachable
<1>1. IInv => ListedReachable
  BY DEF IInv, ReservedHeld, ListedReachable, Listed
<1> QED
  BY InitIInv, RelayInvStep, <1>1, PTL DEF RelaySpec

-----------------------------------------------------------------------------
Leaving(p) == \E post \in posts : post.peer = p /\ ~post.register
Joining(p) == \E post \in posts : post.peer = p /\ post.register

\* A registration on its way is as good as an entry: it will make one.
HeardInv ==
    \A p \in Peer : (p \in optIn \/ Joining(p)) => enabled[p] \/ p \in unheard \/ Leaving(p)

\* The relay's handlers only take peers from the list.
LEMMA RelayHeard ==
    ASSUME HeardInv, optIn' \subseteq optIn, UNCHANGED <<posts, enabled, unheard>>
    PROVE  HeardInv'
BY DEF HeardInv, Joining, Leaving

\* Handling or losing a request: what it leaves unsaid is remembered.
LEMMA PostHeard ==
    ASSUME IInv, HeardInv, NEW post \in posts, Handle(post) \/ LosePost(post)
    PROVE  HeardInv'
<1>1. /\ posts' = posts \ {post} /\ enabled' = enabled
      /\ optIn' = optIn \/ Handle(post)
  BY DEF Handle, LosePost, relayState
<1> SUFFICES ASSUME NEW p \in Peer, (p \in optIn \/ Joining(p))',
                    ~enabled[p]
             PROVE  (p \in unheard \/ Leaving(p))'
  BY <1>1 DEF HeardInv
<1>2. p \in optIn \/ Joining(p)
  BY <1>1 DEF Handle, Joining
<1>3. p \in unheard \/ Leaving(p)
  BY <1>2 DEF HeardInv
<1>4. CASE post.register
  <2>1. unheard' = unheard
    BY <1>4 DEF Handle, LosePost
  <2>2. Leaving(p) => Leaving(p)'
    BY <1>1, <1>4 DEF Leaving
  <2> QED BY <1>3, <2>1, <2>2
<1>5. CASE ~post.register /\ post.peer # p
  <2>1. p \in unheard => p \in unheard'
    BY <1>5 DEF Handle, LosePost
  <2>2. Leaving(p) => Leaving(p)'
    BY <1>1, <1>5 DEF Leaving
  <2> QED BY <1>3, <2>1, <2>2
<1>6. CASE ~post.register /\ post.peer = p
  <2>1. CASE LosePost(post)
    BY <1>6, <2>1 DEF LosePost
  <2>2. CASE Handle(post)
    <3>1. p \notin optIn'
      BY <1>6, <2>2 DEF Handle
    <3>2. \E other \in posts : other.peer = post.peer /\ other.register
      BY <1>1, <1>6, <3>1 DEF Joining
    <3> QED BY <1>6, <2>2, <3>2 DEF Handle
  <2> QED BY <2>1, <2>2
<1> QED BY <1>4, <1>5, <1>6

\* A peer that opted out stays opted in at the relay only while its request to leave is
\* on its way, or after that request was lost or overtook a registration.
THEOREM OptOutsAreHeard == RelaySpec => []OptOutHeard
<1>1. RelayInit => HeardInv
  BY DEF RelayInit, HeardInv, Joining
<1>2. IInv /\ HeardInv /\ [RelayNext]_relayVars => HeardInv'
  <2> SUFFICES ASSUME IInv, HeardInv, [RelayNext]_relayVars PROVE HeardInv'
    OBVIOUS
  <2>1. ASSUME NEW p \in Peer,
               \/ ConnectionEstablished(p) \/ ConnectionClosed(p) \/ ReservationAccepted(p)
               \/ ReservationRenewed(p) \/ ReservationTimedOut(p)
        PROVE  HeardInv'
    BY <2>1, RelayHeard DEF ConnectionEstablished, ConnectionClosed, ReservationAccepted,
       ReservationRenewed, ReservationTimedOut, Forget, history
  <2>2. ASSUME NEW p \in Peer, RendezvousTick(p) PROVE HeardInv'
    <3> DEFINE new == [peer |-> p, by |-> "task", register |-> TRUE]
    <3>1. /\ posts' = posts \cup {new} /\ new.peer = p /\ enabled[p]
          /\ UNCHANGED <<optIn, enabled, unheard>>
      BY <2>2 DEF RendezvousTick, relayState, history
    <3> HIDE DEF new
    <3> QED BY <3>1 DEF HeardInv, Joining, Leaving
  <2>3. ASSUME NEW p \in Peer, NEW e \in BOOLEAN, SetRendezvousEnabled(p, e) PROVE HeardInv'
    <3> DEFINE new == [peer |-> p, by |-> "command", register |-> e]
    <3>1. /\ posts' = posts \cup {new} /\ new.peer = p
          /\ UNCHANGED <<optIn, unheard>>
      BY <2>3 DEF SetRendezvousEnabled, relayState
    <3>2. new.register = e
      BY Zenon
    <3>3. enabled' = [enabled EXCEPT ![p] = e] /\ enabled \in [Peer -> BOOLEAN]
      BY <2>3 DEF SetRendezvousEnabled, IInv, RelayTypeOK
    <3>4. enabled'[p] = e /\ \A q \in Peer \ {p} : enabled'[q] = enabled[q]
      BY <3>3, Zenon
    <3> HIDE DEF new
    <3>5. ASSUME NEW q \in Peer, q # p, (q \in optIn \/ Joining(q))'
          PROVE  (enabled[q] \/ q \in unheard \/ Leaving(q))'
      <4>1. q \in optIn \/ Joining(q)
        BY <3>1, <3>5 DEF Joining
      <4>2. Leaving(q) => Leaving(q)'
        BY <3>1 DEF Leaving
      <4>3. enabled[q] \/ q \in unheard \/ Leaving(q)
        BY <4>1 DEF HeardInv
      <4> QED BY <3>1, <3>4, <3>5, <4>2, <4>3, Zenon
    <3>6. enabled'[p] \/ Leaving(p)'
      <4>1. CASE e = TRUE
        BY <3>4, <4>1, Zenon
      <4>2. CASE e = FALSE
        BY <3>1, <3>2, <4>2, Zenon DEF Leaving
      <4> QED BY <4>1, <4>2, Zenon
    <3> QED BY <3>5, <3>6, Zenon DEF HeardInv
  <2>4. ASSUME NEW post \in posts, Handle(post) \/ LosePost(post) PROVE HeardInv'
    BY <2>4, PostHeard
  <2>5. CASE UNCHANGED relayVars
    BY <2>5, RelayHeard DEF relayVars, relayState, history
  <2> QED BY <2>1, <2>2, <2>3, <2>4, <2>5 DEF RelayNext
<1>3. IInv /\ [RelayNext]_relayVars => IInv'
  BY RelayInvStep
<1>4. IInv /\ HeardInv => OptOutHeard
  BY DEF IInv, RelayTypeOK, HeardInv, OptOutHeard, Leaving
<1> QED BY InitIInv, <1>1, <1>2, <1>3, <1>4, PTL DEF RelaySpec
=============================================================================
