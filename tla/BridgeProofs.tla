---------------------------- MODULE BridgeProofs ----------------------------
(* For any number of calls in flight, keys, ticks and commands: what a call  *)
(* of a mini-app may do when it comes to act, and how far calls side by side *)
(* can take the storage past its limit.                                      *)
EXTENDS Bridge, FiniteSetTheorems, TLAPS

Cap == [permission : Permission \cup {"none"}, token : Nat, expires : Nat]
CallRecord ==
    [pc : {"idle", "open", "admitted", "act"}, method : Method, key : Key, token : Nat,
     cap : Cap, permissions : SUBSET Permission, safe : BOOLEAN, entitled : BOOLEAN]

BridgeTypes ==
    /\ tick \in Nat /\ sessions \in Nat /\ safe \in BOOLEAN
    /\ grants \in Manifest \cup {Absent}
    /\ caps \subseteq Cap /\ kv \subseteq Key
    /\ call \in [Call -> CallRecord]

\* An idle slot is a call record.
LEMMA NoCallTyped == NoCall \in CallRecord /\ NoCall.pc = "idle"
  <1>1. (CHOOSE k \in Key : TRUE) \in Key
    BY BridgeConstants
  <1> QED BY <1>1 DEF NoCall, CallRecord, NoCap, Cap, Method

\* The keys a method may name are keys.
LEMMA KeysForTyped ==
  ASSUME BridgeTypes, NEW m \in Method
  PROVE  KeysFor(m) \subseteq Key
  <1>1. KeysInUse \subseteq Key
    BY DEF BridgeTypes, KeysInUse, CallRecord
  <1>2. Key # KeysInUse => (CHOOSE k \in Key \ KeysInUse : TRUE) \in Key
    <2> SUFFICES ASSUME Key # KeysInUse PROVE (CHOOSE k \in Key \ KeysInUse : TRUE) \in Key
      OBVIOUS
    <2>1. \E k : k \in Key \ KeysInUse
      BY <1>1
    <2> QED BY <2>1
  <1>3. NoCall.key \in Key
    BY NoCallTyped DEF CallRecord
  <1> QED BY <1>1, <1>2, <1>3 DEF KeysFor, BridgeTypes

(* The calls in flight after each step of one. *)
LEMMA ReplyTyped ==
  ASSUME BridgeTypes, NEW c \in Call, Reply(c)
  PROVE  /\ call' \in [Call -> CallRecord]
         /\ call'[c].pc = "idle"
         /\ \A d \in Call \ {c} : call'[d] = call[d]
  BY NoCallTyped DEF BridgeTypes, Reply

\* A call that moves on changes nothing but its step.
LEMMA AdvanceTyped ==
  ASSUME BridgeTypes, NEW c \in Call, NEW s \in {"admitted", "act"},
         call' = [call EXCEPT ![c].pc = s]
  PROVE  /\ call' \in [Call -> CallRecord]
         /\ call'[c].pc = s /\ call'[c].method = call[c].method /\ call'[c].key = call[c].key
         /\ call'[c].permissions = call[c].permissions
         /\ call'[c].safe = call[c].safe /\ call'[c].entitled = call[c].entitled
         /\ \A d \in Call \ {c} : call'[d] = call[d]
  BY DEF BridgeTypes, CallRecord

\* A call that opens is a call record.
LEMMA OpenTyped ==
  ASSUME BridgeTypes, NEW c \in Call, NEW m \in Method, NEW token \in 1 .. sessions,
         NEW k \in KeysFor(m), NEW cap \in CapsFor(m), OpenCall(c, m, k, token, cap)
  PROVE  call' \in [Call -> CallRecord]
  <1>1. k \in Key
    BY KeysForTyped
  <1>2. cap \in Cap
    BY DEF CapsFor, BridgeTypes, NoCap, Cap
  <1>3. (IF grants = Absent THEN {} ELSE grants) \in SUBSET Permission
    BY DEF BridgeTypes, Manifest, Permission
  <1>4. token \in Nat
    BY DEF BridgeTypes
  <1>5. EffectiveSafe \in BOOLEAN
    BY DEF EffectiveSafe, BridgeTypes
  <1> DEFINE opened ==
       [pc |-> "open", method |-> m, key |-> k, token |-> token, cap |-> cap,
        permissions |-> IF grants = Absent THEN {} ELSE grants,
        safe |-> EffectiveSafe,
        entitled |-> /\ RequiredPermission(m) \subseteq grants
                     /\ EffectiveSafe => MethodAllowedInSafeMode(m)]
  <1>6. opened \in CallRecord
    BY <1>1, <1>2, <1>3, <1>4, <1>5 DEF CallRecord
  <1>7. call' = [call EXCEPT ![c] = opened]
    BY DEF OpenCall
  <1> HIDE DEF opened
  <1> QED BY <1>6, <1>7 DEF BridgeTypes

\* The bridge starts well typed.
LEMMA TypesInit == BridgeInit => BridgeTypes
  <1> SUFFICES ASSUME BridgeInit PROVE BridgeTypes
    OBVIOUS
  <1>1. safe \in BOOLEAN
    BY Zenon DEF BridgeInit
  <1>2. call \in [Call -> CallRecord]
    BY NoCallTyped DEF BridgeInit
  <1>3. tick \in Nat /\ sessions \in Nat /\ grants \in Manifest /\ kv \subseteq Key
    BY DEF BridgeInit, Manifest
  <1>4. caps \subseteq Cap
    BY BridgeConstants DEF BridgeInit, Cap, Permission
  <1> QED BY <1>1, <1>2, <1>3, <1>4 DEF BridgeTypes

\* Every step keeps the types.
LEMMA TypesStep == BridgeTypes /\ [BridgeNext]_bridgeVars => BridgeTypes'
  <1> SUFFICES ASSUME BridgeTypes, [BridgeNext]_bridgeVars PROVE BridgeTypes'
    OBVIOUS
  <1> USE DEF BridgeTypes
  <1>1. CASE IssueSession \/ RevokeSession \/ ToggleSafeMode \/ TickBridge
             \/ UNCHANGED bridgeVars
    <2>1. /\ UNCHANGED <<grants, caps, kv, call>>
          /\ tick' \in {tick, tick + 1} /\ sessions' \in {sessions, sessions + 1}
      BY <1>1 DEF IssueSession, RevokeSession, ToggleSafeMode, TickBridge, bridgeVars
    <2>2. safe' \in BOOLEAN
      BY <1>1, Zenon DEF IssueSession, RevokeSession, ToggleSafeMode, TickBridge, bridgeVars
    <2> QED BY <2>1, <2>2
  <1>2. ASSUME NEW token \in 1 .. sessions, IssueCapability("MessagingBroadcast", token)
        PROVE  BridgeTypes'
    <2>1. [permission |-> "MessagingBroadcast", token |-> token, expires |-> tick + CapTtl] \in Cap
      BY BridgeConstants DEF Cap, Permission
    <2> QED BY <1>2, <2>1 DEF IssueCapability
  <1>3. ASSUME NEW ffi \in BOOLEAN, UninstallApp(ffi) PROVE BridgeTypes'
    BY <1>3 DEF UninstallApp
  <1>4. ASSUME NEW m \in Manifest, UpgradeApp(m) PROVE BridgeTypes'
    BY <1>4 DEF UpgradeApp
  <1>5. ASSUME NEW c \in Call, NEW m \in Method, NEW token \in 1 .. sessions,
               NEW k \in KeysFor(m), NEW cap \in CapsFor(m), OpenCall(c, m, k, token, cap)
        PROVE  BridgeTypes'
    <2>1. call' \in [Call -> CallRecord]
      BY <1>5, OpenTyped
    <2> QED BY <1>5, <2>1 DEF OpenCall
  <1>6. ASSUME NEW c \in Call, AdmitCall(c) PROVE BridgeTypes'
    <2>1. Reply(c) \/ call' = [call EXCEPT ![c].pc = "admitted"]
      BY <1>6 DEF AdmitCall
    <2>2. call' \in [Call -> CallRecord]
      BY <2>1, ReplyTyped, AdvanceTyped
    <2> QED BY <1>6, <2>2 DEF AdmitCall
  <1>7. ASSUME NEW c \in Call, AuthoriseCall(c) PROVE BridgeTypes'
    <2>1. Reply(c) \/ call' = [call EXCEPT ![c].pc = "act"]
      BY <1>7 DEF AuthoriseCall
    <2>2. call' \in [Call -> CallRecord]
      BY <2>1, ReplyTyped, AdvanceTyped
    <2> QED BY <1>7, <2>2 DEF AuthoriseCall
  <1>8. ASSUME NEW c \in Call, Act(c) PROVE BridgeTypes'
    <2>1. call' \in [Call -> CallRecord]
      BY <1>8, ReplyTyped DEF Act
    <2>2. kv' \subseteq Key
      BY <1>8 DEF Act, CallRecord
    <2> QED BY <1>8, <2>1, <2>2 DEF Act
  <1> QED
    BY <1>1, <1>2, <1>3, <1>4, <1>5, <1>6, <1>7, <1>8 DEF BridgeNext

\* BridgeHost::handle, issue_session, revoke_session: the calls in flight, the sessions, the
\* capabilities and the stored keys keep their shape whatever the page and the user do.
THEOREM BridgeTyped == BridgeSpec => []BridgeTypes
  BY TypesInit, TypesStep, PTL DEF BridgeSpec

(*-------------------------------------------------------------------------*)
(* What a call may do.  The policy is looked at when the call is opened, and *)
(* tested against what was read then: the invariant says that what was read  *)
(* implies what held, also for an app that is not installed.                 *)
(*-------------------------------------------------------------------------*)
Holds(r) ==
    /\ r.safe => MethodAllowedInSafeMode(r.method)
    /\ RequiredPermission(r.method) \subseteq r.permissions

EntitledInv ==
    \A c \in Call :
        /\ call[c].pc # "idle" /\ Holds(call[c]) => call[c].entitled
        /\ call[c].pc = "act" => call[c].entitled

\* No step brings a call to its effect that was not entitled when it opened.
LEMMA EntitledStep ==
  ASSUME BridgeTypes, EntitledInv, [BridgeNext]_bridgeVars
  PROVE  EntitledInv'
  <1>1. CASE UNCHANGED call
    BY <1>1 DEF EntitledInv, Holds
  <1>2. ASSUME NEW c \in Call, Reply(c) PROVE EntitledInv'
    BY <1>2, ReplyTyped DEF EntitledInv, Holds
  <1>3. ASSUME NEW c \in Call, NEW m \in Method, NEW token \in 1 .. sessions,
               NEW k \in KeysFor(m), NEW cap \in CapsFor(m), OpenCall(c, m, k, token, cap)
        PROVE  EntitledInv'
    <2> DEFINE entitled ==
         /\ RequiredPermission(m) \subseteq grants
         /\ EffectiveSafe => MethodAllowedInSafeMode(m)
    <2>1. /\ call'[c].pc = "open" /\ call'[c].method = m
          /\ call'[c].permissions = IF grants = Absent THEN {} ELSE grants
          /\ call'[c].safe = EffectiveSafe /\ call'[c].entitled = entitled
          /\ \A d \in Call \ {c} : call'[d] = call[d]
      BY <1>3 DEF OpenCall, BridgeTypes
    <2>2. Holds(call'[c]) => entitled
      <3>1. (IF grants = Absent THEN {} ELSE grants) \subseteq grants
        OBVIOUS
      <3> QED BY <2>1, <3>1 DEF Holds
    <2> HIDE DEF entitled
    <2>3. Holds(call'[c]) => call'[c].entitled
      BY <2>1, <2>2
    <2> QED BY <2>1, <2>3 DEF EntitledInv, Holds
  <1>4. ASSUME NEW c \in Call, AdmitCall(c) PROVE EntitledInv'
    <2>1. CASE Reply(c)
      BY <1>2, <2>1
    <2>2. CASE call' = [call EXCEPT ![c].pc = "admitted"]
      BY <1>4, <2>2, AdvanceTyped DEF EntitledInv, Holds, AdmitCall
    <2> QED BY <1>4, <2>1, <2>2 DEF AdmitCall
  <1>5. ASSUME NEW c \in Call, AuthoriseCall(c) PROVE EntitledInv'
    <2>1. CASE Reply(c)
      BY <1>2, <2>1
    <2>2. CASE call' = [call EXCEPT ![c].pc = "act"] /\ Authorised(c)
      <3>1. call[c].entitled
        BY <1>5, <2>2 DEF AuthoriseCall, Authorised, EntitledInv, Holds
      <3> QED BY <2>2, <3>1, AdvanceTyped DEF EntitledInv, Holds
    <2> QED BY <1>5, <2>1, <2>2 DEF AuthoriseCall
  <1>6. ASSUME NEW c \in Call, Act(c) PROVE EntitledInv'
    BY <1>2, <1>6 DEF Act
  <1>7. CASE UNCHANGED bridgeVars
    BY <1>1, <1>7 DEF bridgeVars
  <1>8. CASE \/ IssueSession \/ RevokeSession \/ ToggleSafeMode \/ TickBridge
             \/ \E token \in 1 .. sessions : IssueCapability("MessagingBroadcast", token)
             \/ \E ffi \in BOOLEAN : UninstallApp(ffi)
             \/ \E m \in Manifest : UpgradeApp(m)
    BY <1>1, <1>8 DEF IssueSession, RevokeSession, ToggleSafeMode, TickBridge, IssueCapability,
       UninstallApp, UpgradeApp
  <1> QED
    BY <1>3, <1>4, <1>5, <1>6, <1>7, <1>8 DEF BridgeNext

(* A method acts only for an app that had its permission, and was not held   *)
(* in safe mode, when the call was opened (bridge_host.rs handle).           *)
THEOREM ActsAreEntitled == BridgeSpec => []EffectsPermitted
  <1>1. BridgeInit => EntitledInv
    <2> SUFFICES ASSUME BridgeInit, NEW c \in Call PROVE call[c].pc = "idle"
      BY DEF EntitledInv
    <2> QED BY NoCallTyped DEF BridgeInit
  <1>2. BridgeTypes /\ EntitledInv /\ [BridgeNext]_bridgeVars => EntitledInv'
    BY EntitledStep
  <1>3. EntitledInv => EffectsPermitted
    BY DEF EntitledInv, EffectsPermitted
  <1> QED BY <1>1, <1>2, <1>3, BridgeTyped, PTL DEF BridgeSpec

(*-------------------------------------------------------------------------*)
(* The storage.  A key is counted from the moment its write passed the       *)
(* quota: the keys stored and those on their way can only grow by a call     *)
(* that found room, and then at most the calls in flight are on their way.   *)
(*-------------------------------------------------------------------------*)
Writers == {c \in Call : call[c].pc = "act" /\ call[c].method = "storage.set"}
OnTheirWay == {call[c].key : c \in Writers}

QuotaInv ==
    /\ IsFiniteSet(kv)
    /\ Cardinality(kv \cup OnTheirWay) <= MaxKeys + Cardinality(Call) - 1

\* There are no more writes on their way than calls.
LEMMA FewOnTheirWay ==
  IsFiniteSet(OnTheirWay) /\ Cardinality(OnTheirWay) <= Cardinality(Call)
  <1>1. /\ IsFiniteSet(Writers) /\ Cardinality(Writers) \in Nat
        /\ Cardinality(Writers) <= Cardinality(Call)
    BY BridgeConstants, FS_Subset, FS_CardinalityType DEF Writers
  <1> DEFINE f == [c \in Writers |-> call[c].key]
  <1>2. f \in Surjection(Writers, OnTheirWay)
    BY DEF Surjection, OnTheirWay
  <1>3. IsFiniteSet(OnTheirWay) /\ Cardinality(OnTheirWay) <= Cardinality(Writers)
    BY <1>1, <1>2, FS_Surjection
  <1>4. Cardinality(OnTheirWay) \in Nat /\ Cardinality(Call) \in Nat
    BY <1>3, BridgeConstants, FS_CardinalityType
  <1> QED BY <1>1, <1>3, <1>4

\* A step that stores or starts no new key keeps the bound.
LEMMA QuotaShrinks ==
  ASSUME QuotaInv, kv' \cup OnTheirWay' \subseteq kv \cup OnTheirWay
  PROVE  QuotaInv'
  <1>1. IsFiniteSet(kv \cup OnTheirWay)
    BY FewOnTheirWay, FS_Union, Zenon DEF QuotaInv
  <1>2. /\ IsFiniteSet(kv' \cup OnTheirWay')
        /\ Cardinality(kv' \cup OnTheirWay') <= Cardinality(kv \cup OnTheirWay)
    BY <1>1, FS_Subset
  <1>3. IsFiniteSet(kv')
    BY <1>2, FS_Subset
  <1>4. /\ Cardinality(kv' \cup OnTheirWay') \in Nat /\ Cardinality(kv \cup OnTheirWay) \in Nat
        /\ Cardinality(Call) \in Nat
    BY <1>1, <1>2, BridgeConstants, FS_CardinalityType
  <1> QED BY <1>2, <1>3, <1>4, BridgeConstants DEF QuotaInv

\* A write passes the check only below the quota, so the keys stay within the bound.
LEMMA QuotaStep ==
  ASSUME BridgeTypes, QuotaInv, [BridgeNext]_bridgeVars
  PROVE  QuotaInv'
  <1>1. CASE UNCHANGED <<kv, call>>
    BY <1>1, QuotaShrinks DEF OnTheirWay, Writers
  <1>2. ASSUME NEW c \in Call, Reply(c), UNCHANGED kv PROVE QuotaInv'
    <2>1. OnTheirWay' \subseteq OnTheirWay
      BY <1>2, ReplyTyped DEF OnTheirWay, Writers
    <2> QED BY <1>2, <2>1, QuotaShrinks
  <1>3. ASSUME NEW ffi \in BOOLEAN, UninstallApp(ffi) PROVE QuotaInv'
    <2>1. kv' \subseteq kv /\ OnTheirWay' = OnTheirWay
      BY <1>3 DEF UninstallApp, OnTheirWay, Writers
    <2> QED BY <2>1, QuotaShrinks
  <1>4. ASSUME NEW c \in Call, NEW m \in Method, NEW token \in 1 .. sessions,
               NEW k \in KeysFor(m), NEW cap \in CapsFor(m), OpenCall(c, m, k, token, cap)
        PROVE  QuotaInv'
    <2>1. call'[c].pc = "open" /\ \A d \in Call \ {c} : call'[d] = call[d]
      BY <1>4 DEF OpenCall, BridgeTypes
    <2>2. OnTheirWay' \subseteq OnTheirWay
      BY <2>1 DEF OnTheirWay, Writers
    <2> QED BY <1>4, <2>2, QuotaShrinks DEF OpenCall
  <1>5. ASSUME NEW c \in Call, AdmitCall(c) PROVE QuotaInv'
    <2>1. CASE Reply(c)
      BY <1>2, <1>5, <2>1 DEF AdmitCall
    <2>2. CASE call' = [call EXCEPT ![c].pc = "admitted"]
      <3>1. OnTheirWay' \subseteq OnTheirWay
        BY <2>2, AdvanceTyped DEF OnTheirWay, Writers
      <3> QED BY <1>5, <3>1, QuotaShrinks DEF AdmitCall
    <2> QED BY <1>5, <2>1, <2>2 DEF AdmitCall
  <1>6. ASSUME NEW c \in Call, AuthoriseCall(c) PROVE QuotaInv'
    <2>1. UNCHANGED kv
      BY <1>6 DEF AuthoriseCall
    <2>2. CASE Reply(c)
      BY <1>2, <2>1, <2>2
    <2>3. CASE /\ call' = [call EXCEPT ![c].pc = "act"]
               /\ call[c].method = "storage.set" => WithinQuota(call[c].key)
      <3>1. OnTheirWay' \subseteq OnTheirWay \cup {call[c].key}
        BY <2>3, AdvanceTyped DEF OnTheirWay, Writers
      <3>2. CASE call[c].method # "storage.set" \/ call[c].key \in kv
        <4>1. kv' \cup OnTheirWay' \subseteq kv \cup OnTheirWay
          BY <2>1, <2>3, <3>1, <3>2, AdvanceTyped DEF OnTheirWay, Writers
        <4> QED BY <4>1, QuotaShrinks
      <3>3. CASE Cardinality(kv) < MaxKeys
        <4>1. (IsFiniteSet(OnTheirWay) /\ Cardinality(OnTheirWay) <= Cardinality(Call))'
          BY FewOnTheirWay, PTL
        <4>2. /\ IsFiniteSet(kv \cup OnTheirWay')
              /\ Cardinality(kv \cup OnTheirWay')
                   = Cardinality(kv) + Cardinality(OnTheirWay') - Cardinality(kv \cap OnTheirWay')
          BY <4>1, FS_Union DEF QuotaInv
        <4>3. IsFiniteSet(kv \cap OnTheirWay')
          BY FS_Intersection DEF QuotaInv
        <4>4. /\ Cardinality(kv) \in Nat /\ Cardinality(OnTheirWay') \in Nat
              /\ Cardinality(kv \cap OnTheirWay') \in Nat /\ Cardinality(Call) \in Nat
          BY <4>1, <4>3, BridgeConstants, FS_CardinalityType DEF QuotaInv
        <4>5. Cardinality(kv \cup OnTheirWay') <= MaxKeys + Cardinality(Call) - 1
          BY <3>3, <4>1, <4>2, <4>4, BridgeConstants
        <4> QED BY <2>1, <4>5 DEF QuotaInv
      <3> QED BY <2>3, <3>2, <3>3 DEF WithinQuota
    <2> QED BY <1>6, <2>2, <2>3 DEF AuthoriseCall
  <1>7. ASSUME NEW c \in Call, Act(c) PROVE QuotaInv'
    <2>1. Reply(c) /\ call[c].pc = "act"
      BY <1>7 DEF Act
    <2>2. OnTheirWay' \subseteq OnTheirWay
      BY <2>1, ReplyTyped DEF OnTheirWay, Writers
    <2>3. kv' \subseteq kv \cup OnTheirWay
      BY <1>7, <2>1 DEF Act, OnTheirWay, Writers
    <2> QED BY <2>2, <2>3, QuotaShrinks
  <1>8. CASE \/ IssueSession \/ RevokeSession \/ ToggleSafeMode \/ TickBridge
             \/ \E token \in 1 .. sessions : IssueCapability("MessagingBroadcast", token)
             \/ \E m \in Manifest : UpgradeApp(m)
             \/ UNCHANGED bridgeVars
    BY <1>1, <1>8 DEF IssueSession, RevokeSession, ToggleSafeMode, TickBridge, IssueCapability,
       UpgradeApp, bridgeVars
  <1> QED
    BY <1>3, <1>4, <1>5, <1>6, <1>7, <1>8 DEF BridgeNext

(* However many storage.set calls run side by side, an app never holds more  *)
(* keys than the limit plus the other calls in flight                        *)
(* (check_storage_quota and the write after it).                             *)
THEOREM OvershootBounded == BridgeSpec => []QuotaOvershootBounded
  <1>1. BridgeInit => QuotaInv
    <2> SUFFICES ASSUME BridgeInit PROVE QuotaInv
      OBVIOUS
    <2>1. kv = {} /\ OnTheirWay = {}
      BY NoCallTyped DEF BridgeInit, OnTheirWay, Writers
    <2>2. Cardinality(Call) \in Nat
      BY BridgeConstants, FS_CardinalityType
    <2>3. kv \cup OnTheirWay = {}
      BY <2>1
    <2> QED BY <2>1, <2>2, <2>3, FS_EmptySet, BridgeConstants DEF QuotaInv
  <1>2. BridgeTypes /\ QuotaInv /\ [BridgeNext]_bridgeVars => QuotaInv'
    BY QuotaStep
  <1>3. QuotaInv => QuotaOvershootBounded
    <2> SUFFICES ASSUME QuotaInv PROVE QuotaOvershootBounded
      OBVIOUS
    <2>1. IsFiniteSet(kv \cup OnTheirWay)
      BY FewOnTheirWay, FS_Union, Zenon DEF QuotaInv
    <2>2. Cardinality(kv) <= Cardinality(kv \cup OnTheirWay)
      BY <2>1, FS_Subset
    <2>3. /\ Cardinality(kv) \in Nat /\ Cardinality(kv \cup OnTheirWay) \in Nat
          /\ Cardinality(Call) \in Nat
      BY <2>1, BridgeConstants, FS_CardinalityType DEF QuotaInv
    <2> QED BY <2>2, <2>3, BridgeConstants DEF QuotaInv, QuotaOvershootBounded
  <1> QED BY <1>1, <1>2, <1>3, BridgeTyped, PTL DEF BridgeSpec
=============================================================================
