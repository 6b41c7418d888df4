-------------------------- MODULE ProximityProofs --------------------------
(* For any number of devices, starts, payloads and refresh tasks: what a     *)
(* stop of proximity mode leaves behind, and what a shown message means.     *)
(* Each property has an inductive invariant of its own.                      *)
EXTENDS Proximity, TLAPS

(*-------------------------------------------------------------------------*)
(* The refresh tasks.  While the mode is off no task passes the check any   *)
(* more, so those past it and those that have sent since the stop are        *)
(* together at most the ones that were past it at the stop.                  *)
(*-------------------------------------------------------------------------*)
QuietInv ==
    /\ active \in BOOLEAN
    /\ sending \in Nat /\ lateSends \in Nat /\ passed \in Nat
    /\ lateSends <= passed
    /\ ~active => lateSends + sending <= passed

\* Every other action leaves the flag, the tasks past the check and the counts alone.
quietVars == <<active, sending, lateSends, passed>>

\* Nothing has been sent at the start.
LEMMA QuietInit == ProximityInit => QuietInv
  <1> SUFFICES ASSUME ProximityInit PROVE QuietInv
    OBVIOUS
  <1>1. active \in BOOLEAN
    BY Zenon DEF ProximityInit
  <1>2. sending = 0 /\ lateSends = 0 /\ passed = 0
    BY DEF ProximityInit
  <1> QED BY <1>1, <1>2 DEF QuietInv

\* A task past the check sends once; no task passes it while inactive.
LEMMA QuietStep == QuietInv /\ [ProximityNext]_proxVars => QuietInv'
  <1> SUFFICES ASSUME QuietInv, [ProximityNext]_proxVars PROVE QuietInv'
    OBVIOUS
  <1> USE DEF QuietInv
  <1>1. CASE StartProximity
    BY <1>1 DEF StartProximity
  <1>2. CASE WakeRefresh
    BY <1>2 DEF WakeRefresh
  <1>3. CASE SendRefresh
    BY <1>3 DEF SendRefresh
  <1>4. CASE StopProximity
    <2>1. active' \in BOOLEAN
      BY <1>4, Zenon DEF StopProximity
    <2>2. passed' = sending /\ lateSends' = 0 /\ sending' = sending
      BY <1>4 DEF StopProximity
    <2> QED BY <2>1, <2>2
  <1>5. CASE UNCHANGED quietVars
    BY <1>5 DEF quietVars
  <1>6. CASE TickProximity \/ LoopEnds \/ SpawnRefresh \/ ClearStores \/ NearbyProfiles
             \/ RecordOutgoing \/ HandlePayload \/ PushDirect
    BY <1>5, <1>6 DEF quietVars, taskVars, TickProximity, LoopEnds, SpawnRefresh, ClearStores,
       NearbyProfiles, RecordOutgoing, HandlePayload, PushDirect
  <1>7. ASSUME NEW p \in Person, ExpressInterest(p) \/ AcceptPayload(p) PROVE QuietInv'
    BY <1>5, <1>7 DEF quietVars, taskVars, ExpressInterest, AcceptPayload
  <1>8. CASE UNCHANGED proxVars
    BY <1>5, <1>8 DEF quietVars, proxVars
  <1> QED
    BY <1>1, <1>2, <1>3, <1>4, <1>6, <1>7, <1>8 DEF ProximityNext

(* After stop_proximity at most one presence goes out for each refresh task  *)
(* that had passed its check when the flag was cleared.                      *)
THEOREM StopIsQuiet == ProximitySpec => []QuietAfterStop
  <1>1. QuietInv => QuietAfterStop
    BY DEF QuietInv, QuietAfterStop
  <1> QED BY <1>1, QuietInit, QuietStep, PTL DEF ProximitySpec

(*-------------------------------------------------------------------------*)
(* The stores.  Between a stop and the next start each step of the stop      *)
(* empties one store, and nothing fills one again: payloads are dropped,     *)
(* and interest needs a visible profile.                                     *)
(*-------------------------------------------------------------------------*)
Commands == [op : {"none", "start", "store", "matches", "inbox"}]
            \cup [op : {"interest"}, who : Person]

StopInv ==
    /\ active \in BOOLEAN /\ midStop \in BOOLEAN
    /\ userCall \in Commands
    /\ (~active /\ ~midStop) =>
        /\ payload = NoPayload
        /\ userCall.op \in {"none", "store", "matches", "inbox"}
        /\ userCall.op # "store" => nearby = {}
        /\ userCall.op \in {"inbox", "none"} => incoming = {} /\ outgoing = {}
        /\ userCall.op = "none" => proxInbox = <<>>

stopVars == <<active, midStop, userCall, payload, nearby, matchVars, proxInbox>>

\* Nothing is kept at the start.
LEMMA StopInit == ProximityInit => StopInv
  <1> SUFFICES ASSUME ProximityInit PROVE StopInv
    OBVIOUS
  <1>1. active \in BOOLEAN /\ midStop \in BOOLEAN
    BY Zenon DEF ProximityInit
  <1>2. /\ userCall = Quiet /\ payload = NoPayload
        /\ nearby = {} /\ incoming = {} /\ outgoing = {} /\ proxInbox = <<>>
    BY DEF ProximityInit
  <1>3. userCall \in Commands /\ userCall.op = "none"
    BY <1>2 DEF Commands, Quiet
  <1> QED BY <1>1, <1>2, <1>3 DEF StopInv

\* stop clears the stores one after the other, and nothing fills them again.
LEMMA StopStep == StopInv /\ [ProximityNext]_proxVars => StopInv'
  <1> SUFFICES ASSUME StopInv, [ProximityNext]_proxVars PROVE StopInv'
    OBVIOUS
  <1> USE DEF StopInv, Commands, Quiet, NoPayload
  <1>1. CASE UNCHANGED stopVars
    BY <1>1 DEF stopVars, matchVars
  <1>2. CASE TickProximity \/ LoopEnds \/ WakeRefresh \/ SendRefresh \/ UNCHANGED proxVars
    BY <1>1, <1>2 DEF stopVars, TickProximity, LoopEnds, WakeRefresh, SendRefresh, proxVars
  <1>3. CASE StartProximity
    BY <1>3 DEF StartProximity, BeginCommand
  <1>4. CASE SpawnRefresh
    BY <1>4 DEF SpawnRefresh, matchVars
  <1>5. CASE StopProximity
    BY <1>5, Zenon DEF StopProximity, BeginCommand
  <1>6. CASE ClearStores
    BY <1>6 DEF ClearStores, matchVars
  <1>7. CASE NearbyProfiles
    BY <1>7 DEF NearbyProfiles, ActiveSignals, matchVars
  <1>8. CASE RecordOutgoing
    BY <1>8 DEF RecordOutgoing
  <1>9. ASSUME NEW p \in Person, ExpressInterest(p) PROVE StopInv'
    BY <1>9 DEF ExpressInterest, BeginCommand, ActiveSignals, matchVars
  <1>10. ASSUME NEW p \in Person, AcceptPayload(p) PROVE StopInv'
    BY <1>10 DEF AcceptPayload, matchVars
  <1>11. CASE HandlePayload
    BY <1>11 DEF HandlePayload
  <1>12. CASE PushDirect
    BY <1>12 DEF PushDirect, matchVars
  <1> QED
    BY <1>2, <1>3, <1>4, <1>5, <1>6, <1>7, <1>8, <1>9, <1>10, <1>11, <1>12 DEF ProximityNext

(* Once stop_proximity has returned, no profile, match or message is left,   *)
(* unless a payload was past the active check at the stop.                   *)
THEOREM StopClears == ProximitySpec => []StopLeavesNothing
  <1>1. StopInv => StopLeavesNothing
    BY DEF StopInv, StopLeavesNothing, Quiet
  <1> QED BY <1>1, StopInit, StopStep, PTL DEF ProximitySpec

\* stop_proximity is final for the stores and for the broadcasts, for any people and any
\* number of starts and stops.
THEOREM StopsAreFinal == ProximitySpec => []StopIsFinal
  <1>1. StopLeavesNothing /\ QuietAfterStop => StopIsFinal
    BY DEF StopIsFinal
  <1> QED BY <1>1, StopClears, StopIsQuiet, PTL

(*-------------------------------------------------------------------------*)
(* The messages.  A message may be checked in one session and shown in the   *)
(* next, when the matches it was checked against are gone: the invariant     *)
(* follows it through the dispatch task, against what was ever expressed.    *)
(*-------------------------------------------------------------------------*)
Payloads ==
    {NoPayload}
    \cup [step : {"locked"}, msg : [kind : {"presence", "intent"}, who : Person, at : Nat]]
    \cup [step : {"locked", "push"},
          msg : [kind : {"direct"}, who : Person, to : Person \cup {Self}]]

MutualInv ==
    /\ proxInbox \in Seq(Person)
    /\ likes \in [Person -> SUBSET (Person \cup {Self})]
    /\ payload \in Payloads
    /\ outgoing \subseteq wooed
    /\ payload # NoPayload /\ payload.msg.kind = "direct" => Self \in likes[payload.msg.who]
    /\ payload.step = "push" => payload.msg.who \in wooed
    /\ MessagesWereMutual

mutualVars == <<proxInbox, likes, payload, outgoing, wooed>>

\* No message is shown at the start.
LEMMA MutualInit == ProximityInit => MutualInv
  BY DEF ProximityInit, MutualInv, Payloads, NoPayload, MessagesWereMutual

\* A message is shown only after both interests were there.
LEMMA MutualStep == MutualInv /\ [ProximityNext]_proxVars => MutualInv'
  <1> SUFFICES ASSUME MutualInv, [ProximityNext]_proxVars PROVE MutualInv'
    OBVIOUS
  <1> USE DEF MutualInv
  <1>1. CASE UNCHANGED mutualVars
    BY <1>1 DEF mutualVars, MessagesWereMutual
  <1>2. CASE TickProximity \/ LoopEnds \/ StartProximity \/ SpawnRefresh \/ WakeRefresh
             \/ SendRefresh \/ StopProximity \/ NearbyProfiles \/ UNCHANGED proxVars
    <2>1. CASE TickProximity \/ LoopEnds
      BY <1>1, <2>1 DEF mutualVars, matchVars, TickProximity, LoopEnds
    <2>2. CASE StartProximity \/ SpawnRefresh
      BY <1>1, <2>2 DEF mutualVars, matchVars, StartProximity, SpawnRefresh
    <2>3. CASE WakeRefresh \/ SendRefresh
      BY <1>1, <2>3 DEF mutualVars, matchVars, WakeRefresh, SendRefresh
    <2>4. CASE StopProximity \/ NearbyProfiles
      BY <1>1, <2>4 DEF mutualVars, matchVars, StopProximity, NearbyProfiles
    <2>5. CASE UNCHANGED proxVars
      BY <1>1, <2>5 DEF mutualVars, matchVars, proxVars
    <2> QED BY <1>2, <2>1, <2>2, <2>3, <2>4, <2>5, Zenon
  <1>3. CASE ClearStores
    <2>1. UNCHANGED <<likes, payload, wooed>>
      BY <1>3 DEF ClearStores
    <2>2. outgoing' \subseteq outgoing
      BY <1>3 DEF ClearStores, matchVars
    <2>3. proxInbox' = proxInbox \/ proxInbox' = <<>>
      BY <1>3 DEF ClearStores
    <2>4. proxInbox' \in Seq(Person) /\ DOMAIN proxInbox' \subseteq DOMAIN proxInbox
      <3>1. <<>> \in Seq(Person) /\ DOMAIN <<>> = {}
        OBVIOUS
      <3> QED BY <2>3, <3>1, Zenon
    <2>5. \A i \in DOMAIN proxInbox' : proxInbox'[i] = proxInbox[i]
      BY <2>3
    <2>6. MessagesWereMutual'
      BY <2>1, <2>4, <2>5 DEF MessagesWereMutual
    <2> QED BY <2>1, <2>2, <2>4, <2>6
  <1>4. CASE RecordOutgoing
    BY <1>4 DEF RecordOutgoing, MessagesWereMutual
  <1>5. ASSUME NEW p \in Person, ExpressInterest(p) PROVE MutualInv'
    BY <1>1, <1>5 DEF mutualVars, matchVars, ExpressInterest
  <1>6. ASSUME NEW p \in Person, AcceptPayload(p) PROVE MutualInv'
    <2>1. PICK m \in PeerPayload(p) :
             /\ payload' = IF active /\ Relevant(m)
                           THEN [step |-> "locked", msg |-> m] ELSE NoPayload
             /\ IF m.kind = "intent"
                THEN \E liked \in Person \cup {Self} :
                        liked # p /\ likes' = [likes EXCEPT ![p] = @ \cup {liked}]
                ELSE UNCHANGED likes
      BY <1>6, Zenon DEF AcceptPayload
    <2>2. UNCHANGED <<proxInbox, outgoing, wooed>>
      BY <1>6 DEF AcceptPayload, matchVars
    <2>3. /\ likes' \in [Person -> SUBSET (Person \cup {Self})]
          /\ \A q \in Person : likes[q] \subseteq likes'[q]
      BY <2>1
    <2>4. MessagesWereMutual'
      BY <2>2, <2>3 DEF MessagesWereMutual
    <2>5. CASE m \in [kind : {"presence", "intent"}, who : {p},
                      at : {proxClock - Ttl - 1, proxClock} \cap Nat]
      <3>1. payload' \in Payloads /\ payload'.step # "push"
        BY <2>1, <2>5 DEF Payloads, NoPayload
      <3>2. payload' # NoPayload => payload'.msg.kind # "direct"
        BY <2>1, <2>5 DEF NoPayload
      <3> QED BY <2>2, <2>3, <2>4, <3>1, <3>2
    <2>6. ASSUME NEW x \in likes[p], m = [kind |-> "direct", who |-> p, to |-> x]
          PROVE  MutualInv'
      <3>1. x \in Person \cup {Self}
        OBVIOUS
      <3>2. payload' \in Payloads /\ payload'.step # "push"
        BY <2>1, <2>6, <3>1 DEF Payloads, NoPayload
      <3>3. payload' # NoPayload => payload'.msg = m /\ x = Self
        BY <2>1, <2>6 DEF Relevant
      <3>4. payload' # NoPayload => Self \in likes'[payload'.msg.who]
        BY <2>3, <2>6, <3>3
      <3> QED BY <2>2, <2>3, <2>4, <3>2, <3>4
    <2> QED BY <2>1, <2>5, <2>6 DEF PeerPayload
  <1>7. CASE HandlePayload
    <2>1. UNCHANGED <<proxInbox, likes, outgoing, wooed>>
      BY <1>7 DEF HandlePayload
    <2>2. MessagesWereMutual'
      BY <2>1 DEF MessagesWereMutual
    <2>3. CASE payload' = NoPayload
      BY <2>1, <2>2, <2>3 DEF NoPayload, Payloads
    <2>4. CASE payload' = [payload EXCEPT !.step = "push"] /\ payload.msg.kind = "direct"
               /\ IsMutual(payload.msg.who) /\ payload.step = "locked"
      <3>1. payload \in [step : {"locked", "push"},
                         msg : [kind : {"direct"}, who : Person, to : Person \cup {Self}]]
        BY <2>4 DEF Payloads, NoPayload
      <3>2. payload' \in Payloads /\ payload'.msg = payload.msg
        BY <2>4, <3>1 DEF Payloads
      <3>3. payload.msg.who \in wooed /\ Self \in likes[payload.msg.who]
        BY <2>4, <3>1 DEF IsMutual, NoPayload
      <3> QED BY <2>1, <2>2, <3>2, <3>3
    <2> QED BY <1>7, <2>3, <2>4 DEF HandlePayload
  <1>8. CASE PushDirect
    <2>1. /\ payload.step = "push" /\ payload' = NoPayload
          /\ UNCHANGED <<likes, outgoing, wooed>>
      BY <1>8 DEF PushDirect, matchVars
    <2>2. payload \in [step : {"locked", "push"},
                       msg : [kind : {"direct"}, who : Person, to : Person \cup {Self}]]
      BY <2>1 DEF Payloads, NoPayload
    <2> DEFINE who == payload.msg.who
    <2>3. who \in Person /\ who \in wooed /\ Self \in likes[who]
      BY <2>1, <2>2 DEF NoPayload
    <2>4. PICK kept \in Seq(Person) :
             /\ proxInbox' = Append(kept, who)
             /\ \A i \in DOMAIN kept : \E j \in DOMAIN proxInbox : kept[i] = proxInbox[j]
      <3>1. CASE proxInbox' = Append(proxInbox, who)
        BY <3>1
      <3>2. CASE proxInbox' = Append(Tail(proxInbox), who) /\ proxInbox # <<>>
        <4>1. Tail(proxInbox) \in Seq(Person)
          BY <3>2
        <4>2. \A i \in DOMAIN Tail(proxInbox) :
                 i + 1 \in DOMAIN proxInbox /\ Tail(proxInbox)[i] = proxInbox[i + 1]
          BY <3>2
        <4> QED BY <3>2, <4>1, <4>2, Zenon
      <3>3. proxInbox' = Append(IF Len(proxInbox) >= MaxProxInbox THEN Tail(proxInbox)
                                ELSE proxInbox, who)
        BY <1>8 DEF PushDirect, PushMessage
      <3>4. Len(proxInbox) >= MaxProxInbox => proxInbox # <<>>
        BY InboxHolds
      <3> QED BY <3>1, <3>2, <3>3, <3>4, SMTT(30)
    <2>5. proxInbox' \in Seq(Person)
      BY <2>3, <2>4
    <2>6. MessagesWereMutual'
      <3> SUFFICES ASSUME NEW i \in DOMAIN proxInbox'
                   PROVE  proxInbox'[i] \in wooed /\ Self \in likes[proxInbox'[i]]
        BY <2>1 DEF MessagesWereMutual
      <3>1. CASE i \in DOMAIN kept
        BY <2>3, <2>4, <3>1 DEF MessagesWereMutual
      <3>2. CASE i = Len(kept) + 1
        BY <2>3, <2>4, <3>2
      <3> QED BY <2>3, <2>4, <3>1, <3>2
    <2> QED BY <2>1, <2>5, <2>6 DEF NoPayload, Payloads
  <1> QED
    BY <1>2, <1>3, <1>4, <1>5, <1>6, <1>7, <1>8 DEF ProximityNext

(* Whoever's message handle_proximity_payload shows had expressed interest   *)
(* in this device, and this device in them.                                  *)
THEOREM ShownAreMutual == ProximitySpec => []MessagesWereMutual
  <1>1. MutualInv => MessagesWereMutual
    BY DEF MutualInv
  <1> QED BY <1>1, MutualInit, MutualStep, PTL DEF ProximitySpec
=============================================================================
