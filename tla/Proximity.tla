------------------------------ MODULE Proximity ------------------------------
(***************************************************************************)
(* Proximity mode of one device (mycelium-app/src/node.rs 669-910 and the  *)
(* files of mycelium-app/src/proximity): presence broadcasts, the store of *)
(* nearby profiles, mutual interest, and the messages that need a match.   *)
(*                                                                         *)
(* Three actors meet here: the user's commands (start, stop, interest,     *)
(* message; one at a time), the dispatch task that handles payloads from   *)
(* the mesh, and the refresh tasks that start_proximity spawns.  A step    *)
(* ends where the code awaits a lock, a channel or a timer.  The peers run *)
(* the same code and are abstracted to what they may broadcast.  Profiles, *)
(* scores and the text of messages are left out.                           *)
(***************************************************************************)
EXTENDS Integers, Sequences, FiniteSets

CONSTANTS Self,         \* this device
          Person,       \* the other devices in range
          Ttl,          \* ttl of a presence signal and of an intent, in ticks
          MaxNearby,    \* ProximityStore max_size
          MaxProxInbox, \* ProximityInbox max_size
          MaxProxTick,  \* bound: the clock
          MaxPayloads,  \* bound: payloads handled
          MaxProxOps    \* bound: user commands

ASSUME InboxHolds == MaxProxInbox \in Nat \ {0}

VARIABLES proxClock,    \* now_ms()
          active,       \* proximity_active
          presence,     \* my_presence is Some
          sleeping,     \* refresh tasks in their 60 s sleep
          sending,      \* refresh tasks that passed the check after it
          nearby,       \* proximity_store: set of [who, at]
          outgoing,     \* ProximityMatchState
          incoming,
          proxInbox,    \* proximity_inbox: the senders, oldest first
          payload,      \* the payload in the dispatch task, and where it is
          userCall,     \* the user command in progress
          loopUp,       \* the node loop still receives commands
          payloads, proxOps,
          wooed,        \* ghost: peers Self ever expressed interest in
          likes,        \* ghost: per peer, whom it expressed interest in
          midStop,      \* ghost: a payload was in the dispatch task at the last stop
          lateSends, passed  \* ghosts: presences sent while off; tasks past the check at a stop

proxVars == <<proxClock, active, presence, sleeping, sending, nearby, outgoing,
              incoming, proxInbox, payload, userCall, loopUp, payloads, proxOps,
              wooed, likes, midStop, lateSends, passed>>

matchVars == <<outgoing, incoming>>
taskVars == <<presence, sleeping, sending, lateSends>>

NoPayload == [step |-> "idle"]
Quiet == [op |-> "none"]

\* PresenceSignal::is_expired and ProximityMatchIntent::is_expired.
Expired(at) == proxClock - at > Ttl

\* Mutant: one-sided interest is a match.
OneSided(p) == p \in incoming

\* ProximityMatchState::is_mutual.
IsMutual(p) == p \in outgoing /\ p \in incoming

\* ProximityStore::insert: at the limit the oldest signal makes room.  A
\* refresh carries a new ephemeral_id, so a peer may be listed more than once.
Insert(signal) ==
    IF Cardinality(nearby) < MaxNearby
    THEN {nearby \cup {signal}}
    ELSE {(nearby \ {old}) \cup {signal} :
             old \in {s \in nearby : \A t \in nearby : s.at <= t.at}}

\* ProximityStore::active_signals.
ActiveSignals == {s \in nearby : ~Expired(s.at)}

\* ProximityInbox::push.
PushMessage(from) ==
    proxInbox' = Append(IF Len(proxInbox) >= MaxProxInbox THEN Tail(proxInbox)
                        ELSE proxInbox, from)

ProximityInit ==
    /\ proxClock = 0 /\ active = FALSE /\ presence = FALSE
    /\ sleeping = 0 /\ sending = 0 /\ lateSends = 0 /\ passed = 0
    /\ nearby = {} /\ outgoing = {} /\ incoming = {} /\ proxInbox = <<>>
    /\ payload = NoPayload /\ userCall = Quiet /\ loopUp = TRUE
    /\ payloads = 0 /\ proxOps = 0
    /\ wooed = {} /\ likes = [p \in Person |-> {}] /\ midStop = FALSE

TickProximity ==
    /\ proxClock < MaxProxTick /\ proxClock' = proxClock + 1
    /\ UNCHANGED <<active, taskVars, nearby, matchVars, proxInbox, payload, userCall, loopUp,
                   payloads, proxOps, wooed, likes, midStop, passed>>

\* The node loop ends; from then on every command sent to it is an error.
LoopEnds ==
    /\ loopUp /\ loopUp' = FALSE
    /\ UNCHANGED <<proxClock, active, taskVars, nearby, matchVars, proxInbox, payload, userCall,
                   payloads, proxOps, wooed, likes, midStop, passed>>

BeginCommand(c) ==
    /\ userCall = Quiet /\ proxOps < MaxProxOps /\ proxOps' = proxOps + 1
    /\ userCall' = c

(***************************************************************************)
(* start_proximity: presence, profile and flag are set, then the scope is  *)
(* subscribed and the presence broadcast (an error leaves the mode on      *)
(* without a task), then a refresh task is spawned -- also when one from   *)
(* an earlier start is still asleep.                                       *)
(***************************************************************************)
StartProximity ==
    /\ BeginCommand([op |-> "start"])
    /\ presence' = TRUE /\ active' = TRUE /\ lateSends' = 0 /\ passed' = 0
    /\ UNCHANGED <<proxClock, sleeping, sending, nearby, matchVars, proxInbox, payload, loopUp,
                   payloads, wooed, likes, midStop>>

SpawnRefresh ==
    /\ userCall.op = "start" /\ userCall' = Quiet
    /\ sleeping' = IF loopUp THEN sleeping + 1 ELSE sleeping
    /\ UNCHANGED <<proxClock, active, presence, sending, lateSends, nearby, matchVars, proxInbox,
                   payload, loopUp, payloads, proxOps, wooed, likes, midStop, passed>>

\* The refresh task after its sleep: it ends when the mode is off.
WakeRefresh ==
    /\ sleeping > 0 /\ sleeping' = sleeping - 1
    /\ sending' = IF active THEN sending + 1 ELSE sending
    /\ UNCHANGED <<proxClock, active, presence, lateSends, nearby, matchVars, proxInbox, payload,
                   userCall, loopUp, payloads, proxOps, wooed, likes, midStop, passed>>

\* It refreshes my_presence, broadcasts, and tests the flag again.
SendRefresh ==
    /\ sending > 0 /\ sending' = sending - 1
    /\ presence' = TRUE
    /\ lateSends' = IF active THEN lateSends ELSE lateSends + 1
    /\ sleeping' = IF active THEN sleeping + 1 ELSE sleeping
    /\ UNCHANGED <<proxClock, active, nearby, matchVars, proxInbox, payload, userCall, loopUp,
                   payloads, proxOps, wooed, likes, midStop, passed>>

\* stop_proximity: the flag, then each store under its own lock.
StopProximity ==
    /\ BeginCommand([op |-> "store"])
    /\ active' = FALSE /\ passed' = sending /\ lateSends' = 0
    /\ midStop' = (payload # NoPayload)
    /\ UNCHANGED <<proxClock, presence, sleeping, sending, nearby, matchVars, proxInbox, payload,
                   loopUp, payloads, wooed, likes>>

\* Mutant: the matches of the ended session are kept.
ClearAllButMatches ==
    /\ \/ /\ userCall.op = "store" /\ userCall' = [op |-> "matches"]
          /\ presence' = FALSE /\ nearby' = {} /\ UNCHANGED <<matchVars, proxInbox>>
       \/ /\ userCall.op = "matches" /\ userCall' = [op |-> "inbox"]
          /\ UNCHANGED <<presence, nearby, matchVars, proxInbox>>
       \/ /\ userCall.op = "inbox" /\ userCall' = Quiet
          /\ proxInbox' = <<>> /\ UNCHANGED <<presence, nearby, matchVars>>
    /\ UNCHANGED <<proxClock, active, sleeping, sending, lateSends, payload, loopUp, payloads, proxOps,
                   wooed, likes, midStop, passed>>

\* The rest of stop_proximity; its last step also unsubscribes the scope.
ClearStores ==
    /\ \/ /\ userCall.op = "store" /\ userCall' = [op |-> "matches"]
          /\ presence' = FALSE /\ nearby' = {} /\ UNCHANGED <<matchVars, proxInbox>>
       \/ /\ userCall.op = "matches" /\ userCall' = [op |-> "inbox"]
          /\ outgoing' = {} /\ incoming' = {} /\ UNCHANGED <<presence, nearby, proxInbox>>
       \/ /\ userCall.op = "inbox" /\ userCall' = Quiet
          /\ proxInbox' = <<>> /\ UNCHANGED <<presence, nearby, matchVars>>
    /\ UNCHANGED <<proxClock, active, sleeping, sending, lateSends, payload, loopUp, payloads, proxOps,
                   wooed, likes, midStop, passed>>

\* nearby_profiles: prunes the store; the scores and their order are left out.
NearbyProfiles ==
    /\ userCall = Quiet /\ nearby # ActiveSignals
    /\ nearby' = ActiveSignals
    /\ UNCHANGED <<proxClock, active, taskVars, matchVars, proxInbox, payload, userCall, loopUp,
                   payloads, proxOps, wooed, likes, midStop, passed>>

\* express_proximity_interest: visible now, then recorded, then broadcast.  The
\* intent names its author only.
ExpressInterest(p) ==
    /\ \E s \in ActiveSignals : s.who = p
    /\ BeginCommand([op |-> "interest", who |-> p])
    /\ UNCHANGED <<proxClock, active, taskVars, nearby, matchVars, proxInbox, payload, loopUp,
                   payloads, wooed, likes, midStop, passed>>

RecordOutgoing ==
    /\ userCall.op = "interest" /\ userCall' = Quiet
    /\ outgoing' = outgoing \cup {userCall.who} /\ wooed' = wooed \cup {userCall.who}
    /\ UNCHANGED <<proxClock, active, taskVars, nearby, incoming, proxInbox, payload, loopUp,
                   payloads, proxOps, likes, midStop, passed>>

(***************************************************************************)
(* What the peers may broadcast.  A peer is visible, or expresses interest *)
(* in anyone, at will; it messages Self once it liked Self and heard an    *)
(* intent of Self, which names nobody.                                     *)
(***************************************************************************)
PeerPayload(p) ==
    [kind : {"presence", "intent"}, who : {p}, at : {proxClock - Ttl - 1, proxClock} \cap Nat]
    \cup {[kind |-> "direct", who |-> p, to |-> x] :
              x \in {y \in likes[p] : y = Self => wooed # {}}}

\* The early returns of handle_proximity_payload: a message for someone else,
\* a presence or intent that has expired.
Relevant(m) == IF m.kind = "direct" THEN m.to = Self ELSE ~Expired(m.at)

\* handle_proximity_payload up to its first await: dropped while the mode is off.
AcceptPayload(p) ==
    /\ payload = NoPayload /\ payloads < MaxPayloads /\ payloads' = payloads + 1
    /\ \E m \in PeerPayload(p) :
         /\ payload' = IF active /\ Relevant(m)
                       THEN [step |-> "locked", msg |-> m] ELSE NoPayload
         /\ IF m.kind = "intent"
            THEN \E liked \in Person \cup {Self} :
                    liked # p /\ likes' = [likes EXCEPT ![p] = @ \cup {liked}]
            ELSE UNCHANGED likes
    /\ UNCHANGED <<proxClock, active, taskVars, nearby, matchVars, proxInbox, userCall, loopUp,
                   proxOps, wooed, midStop, passed>>

\* The store, match or mutual check behind the first lock.
HandlePayload ==
    /\ payload.step = "locked"
    /\ LET m == payload.msg IN
       \/ /\ m.kind = "presence" /\ payload' = NoPayload
          /\ nearby' \in Insert([who |-> m.who, at |-> m.at]) /\ UNCHANGED incoming
       \/ /\ m.kind = "intent" /\ payload' = NoPayload
          /\ incoming' = incoming \cup {m.who} /\ UNCHANGED nearby
       \/ /\ m.kind = "direct"
          /\ payload' = IF IsMutual(m.who) THEN [payload EXCEPT !.step = "push"] ELSE NoPayload
          /\ UNCHANGED <<nearby, incoming>>
    /\ UNCHANGED <<proxClock, active, taskVars, outgoing, proxInbox, userCall, loopUp, payloads,
                   proxOps, wooed, likes, midStop, passed>>

PushDirect ==
    /\ payload.step = "push" /\ payload' = NoPayload
    /\ PushMessage(payload.msg.who)
    /\ UNCHANGED <<proxClock, active, taskVars, nearby, matchVars, userCall, loopUp, payloads,
                   proxOps, wooed, likes, midStop, passed>>

ProximityNext ==
    \/ TickProximity \/ LoopEnds
    \/ StartProximity \/ SpawnRefresh \/ WakeRefresh \/ SendRefresh
    \/ StopProximity \/ ClearStores \/ NearbyProfiles \/ RecordOutgoing
    \/ \E p \in Person : ExpressInterest(p) \/ AcceptPayload(p)
    \/ HandlePayload \/ PushDirect

ProximitySpec == ProximityInit /\ [][ProximityNext]_proxVars

-----------------------------------------------------------------------------
\* Types of the proximity state.
ProximityTypeOK ==
    /\ proxClock \in 0..MaxProxTick /\ active \in BOOLEAN /\ presence \in BOOLEAN
    /\ {sleeping, sending} \subseteq 0..MaxProxOps
    /\ nearby \subseteq [who : Person, at : 0..MaxProxTick]
    /\ Cardinality(nearby) <= MaxNearby
    /\ outgoing \subseteq Person /\ incoming \subseteq Person
    /\ proxInbox \in Seq(Person) /\ Len(proxInbox) <= MaxProxInbox

\* Whoever's message is shown expressed interest in this device, and this
\* device in them -- possibly in an earlier session.
\* (A listed match is weaker: intents name no target, so a peer in both sets
\* may have meant someone else.)
MessagesWereMutual ==
    \A i \in DOMAIN proxInbox :
        /\ proxInbox[i] \in wooed
        /\ Self \in likes[proxInbox[i]]

\* Once stop_proximity has returned, no profile, match or message of the
\* session is left -- unless a payload that had passed the active check
\* before the stop was still on its way into a store.
StopLeavesNothing ==
    (userCall = Quiet /\ ~active /\ ~midStop)
        => nearby = {} /\ incoming = {} /\ outgoing = {} /\ proxInbox = <<>>

\* After a stop no presence goes out, except from refresh tasks that were past
\* their second check when the flag was cleared: one broadcast each.
QuietAfterStop == lateSends <= passed

\* stop_proximity is final for what the device keeps and for what it sends, up to what
\* had passed the active check before.
StopIsFinal == StopLeavesNothing /\ QuietAfterStop
=============================================================================
