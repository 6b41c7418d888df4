------------------------------- MODULE Bridge -------------------------------
(* The calls a running mini-app makes to its host (bridge_host.rs) and what  *)
(* they are checked against: the session, the call rate, safe mode, the      *)
(* capability, the manifest's permissions, the storage quota                 *)
(* (bridge_session.rs, bridge_limits.rs, capability_token.rs, safe_mode.rs,  *)
(* storage_quota.rs).  A shell serves calls of one app concurrently; a call  *)
(* is taken apart where another call or a command of the user can come in    *)
(* between.  One method stands for every method that is checked alike.       *)
EXTENDS Integers, FiniteSets

CONSTANTS
    Call,           \* calls that can be in flight at once
    Key,            \* storage keys the app uses
    MaxKeys,        \* MAX_KEYS_PER_APP
    MaxCallRate,    \* MAX_CALLS_PER_MINUTE
    MaxBroadcastRate,
    SessionTtl, CapTtl, RateWindow, BroadcastWindow,
    MaxTick, MaxMoves               \* bounds: clock ticks; calls and commands made

ASSUME BridgeConstants ==
    /\ IsFiniteSet(Call) /\ Key # {}
    /\ MaxKeys \in Nat \ {0} /\ CapTtl \in Nat

VARIABLES
    tick,           \* now_ms
    grants,         \* the installed manifest's permissions, Absent if uninstalled
    safe,           \* effective_safe_mode
    bscore,         \* reputation
    session,        \* SESSIONS: the app's token and when it was issued
    sessions,       \* tokens issued so far
    caps,           \* capability tokens issued so far
    limiter,        \* BRIDGE_LIMITS and BROADCAST_LIMITS: window start and count
    kv,             \* the app's keys in miniapp_storage
    call,           \* the calls in flight
    moves,
    admitted        \* ghost: how many calls each limiter has let through up to each tick

bridgeVars == <<tick, grants, safe, bscore, session, sessions, caps, limiter, kv, call,
                moves, admitted>>

Permission == {"Storage", "MessagingBroadcast"}
Absent == {"absent"}
Manifest == {Permission, {"Storage"}}
Method == {"storage.get", "storage.set", "storage.delete", "messaging.broadcast", "util.alert"}
Limiter == {"bridge", "broadcast"}
NoCap == [permission |-> "none", token |-> 0, expires |-> 0]
NoSession == [token |-> 0, issued |-> 0]
NoCall == [pc |-> "idle", method |-> "util.alert", key |-> CHOOSE k \in Key : TRUE,
           token |-> 0, cap |-> NoCap, permissions |-> {}, safe |-> FALSE,
           entitled |-> FALSE]

(* What a call of a method carries that its checks look at; keys not used    *)
(* yet are interchangeable, so one of them stands for all.                   *)
KeysInUse == kv \cup {call[c].key : c \in {d \in Call : call[d].method = "storage.set"}}
KeysFor(m) ==
    IF m = "storage.set"
    THEN KeysInUse \cup (IF Key = KeysInUse THEN {} ELSE {CHOOSE k \in Key \ KeysInUse : TRUE})
    ELSE IF m = "storage.delete" /\ kv # {} THEN kv ELSE {NoCall.key}
CapsFor(m) == IF m = "messaging.broadcast" THEN caps \cup {NoCap} ELSE {NoCap}

(* permission_for_method: the methods that need a capability. *)
PermissionForMethod(m) ==
    IF m = "messaging.broadcast" THEN {"MessagingBroadcast"} ELSE {}

(* The require_permission of each arm of handle. *)
RequiredPermission(m) ==
    IF m \in {"storage.get", "storage.set", "storage.delete"} THEN {"Storage"}
    ELSE PermissionForMethod(m)

MethodAllowedInSafeMode(m) == m = "storage.get"

EffectiveSafe == safe \/ bscore < 40

ValidateSession(token) ==
    /\ session.token # 0 /\ session.token = token
    /\ tick - session.issued <= SessionTtl

(* validate_capability: a token the host made, for this permission and this  *)
(* session, not past its time.                                               *)
ValidateCapability(permission, token, cap) ==
    /\ cap \in caps
    /\ cap.permission = permission
    /\ cap.token = token
    /\ tick <= cap.expires

(* check_bridge_rate, check_broadcast_rate: the entry after a look at it. *)
Window(l) == IF l = "bridge" THEN RateWindow ELSE BroadcastWindow
Limit(l) == IF l = "bridge" THEN MaxCallRate ELSE MaxBroadcastRate
Entry(l) ==
    IF tick - limiter[l].start > Window(l) THEN [start |-> tick, count |-> 0] ELSE limiter[l]

\* Mutant: the limit is off by one.
OneOverLimit(l) == Entry(l).count <= Limit(l)

WithinRate(l) == Entry(l).count < Limit(l)

CountCall(l) == limiter' = [limiter EXCEPT ![l] = [Entry(l) EXCEPT !.count = @ + 1]]
Admit(l) ==
    admitted' = [admitted EXCEPT ![l] = [t \in DOMAIN @ |-> IF t >= tick THEN @[t] + 1 ELSE @[t]]]
CountNone(l) == limiter' = [limiter EXCEPT ![l] = Entry(l)]

\* Mutant: the key limit lets one more in.
LooseQuota(k) == k \in kv \/ Cardinality(kv) <= MaxKeys

(* check_storage_quota: by keys; the limit on bytes is checked alike. *)
WithinQuota(k) == k \in kv \/ Cardinality(kv) < MaxKeys

(* The app's page is open; the user may have granted it to broadcast. *)
BridgeInit ==
    /\ tick = 0
    /\ grants = Permission /\ safe = FALSE /\ bscore = 50
    /\ session = [token |-> 1, issued |-> 0] /\ sessions = 1
    /\ caps \in {{}, {[permission |-> "MessagingBroadcast", token |-> 1, expires |-> CapTtl]}}
    /\ limiter = [l \in Limiter |-> [start |-> 0, count |-> 0]]
    /\ kv = {} /\ call = [c \in Call |-> NoCall] /\ moves = 0
    /\ admitted = [l \in Limiter |-> [t \in 0 .. MaxTick |-> 0]]

Move == moves < MaxMoves /\ moves' = moves + 1

(* issue_session, when the app's page is opened: the older token is dead. *)
IssueSession ==
    /\ grants # Absent
    /\ Move
    /\ sessions' = sessions + 1
    /\ session' = [token |-> sessions + 1, issued |-> tick]
    /\ UNCHANGED <<tick, grants, safe, bscore, caps, limiter, kv, call, admitted>>

RevokeSession ==
    /\ session # NoSession
    /\ Move
    /\ session' = NoSession
    /\ UNCHANGED <<tick, grants, safe, bscore, sessions, caps, limiter, kv, call, admitted>>

(* issue_capability: the user grants it; neither the session nor the         *)
(* manifest is looked at.                                                    *)
IssueCapability(permission, token) ==
    /\ Move
    /\ caps' = caps \cup {[permission |-> permission, token |-> token, expires |-> tick + CapTtl]}
    /\ UNCHANGED <<tick, grants, safe, bscore, session, sessions, limiter, kv, call, admitted>>

(* miniapp_bridge_call: the permissions and safe mode are read once, before  *)
(* the host is built.  "entitled" is a ghost: what the policy says now.      *)
OpenCall(c, m, k, token, cap) ==
    /\ c = CHOOSE d \in Call : call[d].pc = "idle" \/ \A e \in Call : call[e].pc # "idle"
    /\ call[c].pc = "idle"
    /\ Move
    /\ call' = [call EXCEPT ![c] =
            [pc |-> "open", method |-> m, key |-> k, token |-> token, cap |-> cap,
             permissions |-> IF grants = Absent THEN {} ELSE grants,
             safe |-> EffectiveSafe,
             entitled |-> /\ RequiredPermission(m) \subseteq grants
                          /\ EffectiveSafe => MethodAllowedInSafeMode(m)]]
    /\ UNCHANGED <<tick, grants, safe, bscore, session, sessions, caps, limiter, kv, admitted>>

Reply(c) == call' = [call EXCEPT ![c] = NoCall]

(* handle: the session, then the rate; a call over the limit costs the app   *)
(* 25 points of reputation.                                                  *)
AdmitCall(c) ==
    /\ call[c].pc = "open"
    /\ \/ /\ ~ValidateSession(call[c].token)
          /\ Reply(c)
          /\ UNCHANGED <<bscore, limiter, admitted>>
       \/ /\ ValidateSession(call[c].token)
          /\ ~WithinRate("bridge")
          /\ CountNone("bridge")
          /\ bscore' = IF bscore < 25 THEN 0 ELSE bscore - 25
          /\ Reply(c)
          /\ UNCHANGED admitted
       \/ /\ ValidateSession(call[c].token)
          /\ WithinRate("bridge")
          /\ CountCall("bridge")
          /\ Admit("bridge")
          /\ call' = [call EXCEPT ![c].pc = "admitted"]
          /\ UNCHANGED bscore
    /\ UNCHANGED <<tick, grants, safe, session, sessions, caps, kv, moves>>

\* Mutant: the arm of the method does not ask for its permission.
CapabilityAlone(c) ==
    /\ call[c].safe => MethodAllowedInSafeMode(call[c].method)
    /\ \A p \in PermissionForMethod(call[c].method) :
        /\ p \in call[c].permissions
        /\ ValidateCapability(p, call[c].token, call[c].cap)

(* require_not_blocked_by_safe_mode, require_capability, require_permission. *)
Authorised(c) ==
    /\ call[c].safe => MethodAllowedInSafeMode(call[c].method)
    /\ \A p \in PermissionForMethod(call[c].method) :
        /\ p \in call[c].permissions
        /\ ValidateCapability(p, call[c].token, call[c].cap)
    /\ RequiredPermission(call[c].method) \subseteq call[c].permissions

(* Then the limit of the method itself: the quota of storage.set, the rate   *)
(* of messaging.broadcast.                                                   *)
AuthoriseCall(c) ==
    /\ call[c].pc = "admitted"
    /\ IF \/ ~Authorised(c)
          \/ call[c].method = "storage.set" /\ ~WithinQuota(call[c].key)
          \/ call[c].method = "messaging.broadcast" /\ ~WithinRate("broadcast")
       THEN Reply(c)
       ELSE call' = [call EXCEPT ![c].pc = "act"]
    /\ IF call[c].method # "messaging.broadcast" \/ ~Authorised(c)
       THEN UNCHANGED <<limiter, admitted>>
       ELSE IF WithinRate("broadcast")
       THEN CountCall("broadcast") /\ Admit("broadcast")
       ELSE CountNone("broadcast") /\ UNCHANGED admitted
    /\ UNCHANGED <<tick, grants, safe, bscore, session, sessions, caps, kv, moves>>

Act(c) ==
    /\ call[c].pc = "act"
    /\ kv' = CASE call[c].method = "storage.set" -> kv \cup {call[c].key}
               [] call[c].method = "storage.delete" -> kv \ {call[c].key}
               [] OTHER -> kv
    /\ Reply(c)
    /\ UNCHANGED <<tick, grants, safe, bscore, session, sessions, caps, limiter, moves, admitted>>

(* An upgrade may bring other permissions; the pages stay open. *)
UpgradeApp(m) ==
    /\ m # grants
    /\ Move
    /\ grants' = m
    /\ UNCHANGED <<tick, safe, bscore, session, sessions, caps, limiter, kv, call, admitted>>

(* uninstall_app: the FFI shell also ends the session and clears the keys,   *)
(* miniapp_uninstall of the desktop does neither.                            *)
UninstallApp(ffi) ==
    /\ grants # Absent
    /\ Move
    /\ grants' = Absent
    /\ session' = IF ffi THEN NoSession ELSE session
    /\ kv' = IF ffi THEN {} ELSE kv
    /\ UNCHANGED <<tick, safe, bscore, sessions, caps, limiter, call, admitted>>

ToggleSafeMode ==
    /\ Move
    /\ safe' = ~safe
    /\ UNCHANGED <<tick, grants, bscore, session, sessions, caps, limiter, kv, call, admitted>>

TickBridge ==
    /\ tick < MaxTick
    /\ tick' = tick + 1
    /\ UNCHANGED <<grants, safe, bscore, session, sessions, caps, limiter, kv, call, moves, admitted>>

BridgeNext ==
    \/ IssueSession \/ RevokeSession \/ ToggleSafeMode \/ TickBridge
    \/ \E token \in 1 .. sessions : IssueCapability("MessagingBroadcast", token)
    \/ \E ffi \in BOOLEAN : UninstallApp(ffi)
    \/ \E m \in Manifest : UpgradeApp(m)
    \/ \E c \in Call, m \in Method, token \in 1 .. sessions :
        \E k \in KeysFor(m), cap \in CapsFor(m) : OpenCall(c, m, k, token, cap)
    \/ \E c \in Call : AdmitCall(c) \/ AuthoriseCall(c) \/ Act(c)

BridgeSpec == BridgeInit /\ [][BridgeNext]_bridgeVars

BridgeTypeOK ==
    /\ tick \in 0 .. MaxTick /\ safe \in BOOLEAN
    /\ grants \in Manifest \cup {Absent} /\ bscore \in 0 .. 100
    /\ session \in [token : 0 .. MaxMoves + 1, issued : 0 .. MaxTick]
    /\ sessions \in 1 .. MaxMoves + 1
    /\ caps \subseteq [permission : Permission, token : 1 .. MaxMoves + 1,
                       expires : 0 .. MaxTick + CapTtl]
    /\ limiter \in [Limiter -> [start : 0 .. MaxTick, count : Nat]]
    /\ kv \subseteq Key /\ moves \in 0 .. MaxMoves
    /\ \A c \in Call : call[c].pc \in {"idle", "open", "admitted", "act"}

(* handle: a method acts only for an app that was installed with the         *)
(* permission, and was not held in safe mode, when the call was opened; the  *)
(* call outlives neither check by more than itself, whatever is uninstalled, *)
(* upgraded or restricted meanwhile.                                         *)
EffectsPermitted ==
    \A c \in Call : call[c].pc = "act" => call[c].entitled

(* check_bridge_rate, check_broadcast_rate: the windows are fixed, not       *)
(* sliding, so a stretch as long as a window can see two windows' worth of   *)
(* calls, and never more.                                                    *)
RateBounded ==
    \A l \in Limiter, t \in 0 .. MaxTick :
        LET before == IF t > Window(l) THEN admitted[l][t - Window(l) - 1] ELSE 0
        IN  admitted[l][t] - before <= 2 * Limit(l)

(* check_storage_quota, storage.set: the check and the write are not one     *)
(* step, so calls side by side overshoot the limit, by at most the other     *)
(* calls in flight; the excess never builds up.                              *)
QuotaOvershootBounded ==
    Cardinality(kv) <= MaxKeys + Cardinality(Call) - 1
=============================================================================
