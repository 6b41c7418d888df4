------------------------------- MODULE Scopes -------------------------------
(* Scoped messages between devices: subscriptions and their announcement,    *)
(* the choice between copies to announced peers and gossip, and whether the  *)
(* application at the other end recognises what arrives (node.rs of          *)
(* mycelium-node and of mycelium-app, scope_key.rs, groups.rs).  Neighbours  *)
(* only: relaying, loss and synchronisation are the business of Mesh.        *)
EXTENDS Naturals, FiniteSets

CONSTANTS
    Device,
    Author,         \* the devices that publish
    MaxPosts,       \* bounds: messages published,
    MaxScopeOps     \* and links, subscriptions and keys made or dropped

VARIABLES
    links,          \* pairs of connected devices
    up,             \* devices whose node loop runs
    subs,           \* subscribed_scopes
    known,          \* peer_scopes: what each peer announced, {} without an entry
    wire,           \* packets on their way
    scopeKey,       \* the key of the bulletin scope, 0 if none
    keys,           \* keys made so far
    posts,          \* messages published so far
    shown,          \* the messages each device's application has taken in
    scopeOps,
    late,           \* ghost: <<d, e>> where e's subscriptions changed since e told d
    skipped,        \* ghost: <<post, d>>, d subscribed and connected but not sent the post
    owed            \* ghost: <<post, d>>, a copy was sent to d, which has the key for it

scopeVars == <<links, up, subs, known, wire, scopeKey, keys, posts, shown, scopeOps,
               late, skipped, owed>>

(* "market" is a bulletin scope; "group" the scope of one group, which every *)
(* node matches by the pattern mycelium/group/*.                             *)
Scope == {"chat", "appstore", "group", "market", "revocations"}
FirstScopes == {"chat", "appstore", "group"}
Kind == {"chat", "listing", "group", "bulletin", "revocation"}
ScopeOf(kind) ==
    CASE kind = "chat" -> "chat" [] kind = "listing" -> "appstore" [] kind = "group" -> "group"
      [] kind = "bulletin" -> "market" [] kind = "revocation" -> "revocations"

(* A pattern is no gossip topic. *)
Topics(d) == subs[d] \ {"group"}

Connected(d) == {e \in Device : {d, e} \in links}

\* Mutant: the body is the one the dispatch of the other side looks for.
TaggedCopyBody(kind) ==
    CASE kind = "group" -> "[mycelium:group]" [] kind = "bulletin" -> "[bulletin]"
      [] OTHER -> "text"

\* Mutant: every copy but a chat's is tagged as a bulletin.
BulletinCopyBody(kind) ==
    IF kind = "chat" THEN "text" ELSE IF kind = "group" THEN "[group message]" ELSE "[bulletin]"

(* The body a copy carries: what the application wrote when it published.    *)
CopyBody(kind) ==
    CASE kind = "group" -> "[group message]" [] kind = "bulletin" -> "[bulletin]"
      [] OTHER -> "text"

(* The body of a message that came by gossip, made from its scope alone: no  *)
(* payload here is UTF-8.                                                    *)
GossipBody(kind) ==
    CASE kind = "group" -> "[mycelium:group]" [] kind = "listing" -> "[appstore]"
      [] OTHER -> "[bulletin]"

(* handle_bulletin_payload on an "enc1:" payload or a plain one. *)
Opens(d, p) == p.key = 0 \/ p.key = scopeKey[d]

(* dispatch_incoming: by the body first, then by what the payload decodes to. *)
Recognises(d, body, p) ==
    CASE body = "[mycelium:group]" -> p.kind = "group"
      [] body = "[bulletin]" -> p.kind = "bulletin" /\ Opens(d, p)
      [] OTHER -> p.kind \in {"chat", "listing", "bulletin", "revocation"}

ScopesInit ==
    /\ links = {} /\ up = Device
    /\ subs = [d \in Device |-> FirstScopes]
    /\ known = [d \in Device |-> [e \in Device |-> {}]]
    /\ wire = {}
    /\ scopeKey = [d \in Device |-> 0] /\ keys = 0
    /\ posts = {} /\ shown = [d \in Device |-> {}]
    /\ scopeOps = 0 /\ late = {} /\ skipped = {} /\ owed = {}

ScopeOp == scopeOps < MaxScopeOps /\ scopeOps' = scopeOps + 1

Announce(d, e) == [type |-> "announce", src |-> d, dst |-> e, scopes |-> subs[d]]
Copy(p, e) == [type |-> "copy", src |-> p.author, dst |-> e, post |-> p]
Gossip(p, e) == [type |-> "gossip", src |-> p.author, dst |-> e, post |-> p]

\* Mutant: only the side that dialled announces.
DialerAnnounces(d, e) ==
    /\ {d, e} \subseteq up /\ d # e /\ {d, e} \notin links
    /\ ScopeOp
    /\ links' = links \cup {{d, e}}
    /\ wire' = wire \cup {Announce(d, e)}
    /\ late' = late \ {<<d, e>>, <<e, d>>}
    /\ UNCHANGED <<up, subs, known, scopeKey, keys, posts, shown, skipped, owed>>

(* PeerUp on both sides: send_scope_announce. *)
LinkUp(d, e) ==
    /\ {d, e} \subseteq up /\ d # e /\ {d, e} \notin links
    /\ ScopeOp
    /\ links' = links \cup {{d, e}}
    /\ wire' = wire \cup {Announce(d, e), Announce(e, d)}
    /\ late' = late \ {<<d, e>>, <<e, d>>}
    /\ UNCHANGED <<up, subs, known, scopeKey, keys, posts, shown, skipped, owed>>

(* PeerDown on both sides; what was on the way is lost.  Also what is left   *)
(* of the devices in gone when their node loops end.                         *)
Cut(broken, gone) ==
    /\ links' = links \ broken
    /\ known' = [d \in Device |-> [e \in Device |->
                    IF {d, e} \in broken \/ d \in gone THEN {} ELSE known[d][e]]]
    /\ wire' = {w \in wire : {w.src, w.dst} \notin broken}
    /\ owed' = {o \in owed : {o[1].author, o[2]} \notin broken}

LinkDown(l) ==
    /\ l \in links
    /\ ScopeOp
    /\ Cut({l}, {})
    /\ UNCHANGED <<up, subs, scopeKey, keys, posts, shown, late, skipped>>

ReceiveAnnounce(w) ==
    /\ w \in wire /\ w.type = "announce"
    /\ wire' = wire \ {w}
    /\ known' = [known EXCEPT ![w.dst][w.src] = w.scopes]
    /\ UNCHANGED <<links, up, subs, scopeKey, keys, posts, shown, scopeOps, late, skipped, owed>>

(* SubscribeBulletinScope, UnsubscribeBulletinScope: no peer is told. *)
SetSubscription(d, scopes) ==
    /\ subs' = [subs EXCEPT ![d] = scopes]
    /\ late' = IF scopes = subs[d] THEN late ELSE late \cup {<<e, d>> : e \in Connected(d)}

Subscribe(d) ==
    /\ d \in up /\ "market" \notin subs[d]
    /\ ScopeOp
    /\ SetSubscription(d, subs[d] \cup {"market"})
    /\ UNCHANGED <<links, up, known, wire, scopeKey, keys, posts, shown, skipped, owed>>

Unsubscribe(d) ==
    /\ d \in up /\ "market" \in subs[d]
    /\ ScopeOp
    /\ SetSubscription(d, subs[d] \ {"market"})
    /\ UNCHANGED <<links, up, known, wire, scopeKey, keys, posts, shown, skipped, owed>>

(* create_scope_key: a fresh key, over an older one if there is one. *)
CreateScopeKey(d) ==
    /\ d \in up
    /\ ScopeOp
    /\ keys' = keys + 1
    /\ scopeKey' = [scopeKey EXCEPT ![d] = keys + 1]
    /\ SetSubscription(d, subs[d] \cup {"market"})
    /\ UNCHANGED <<links, up, known, wire, posts, shown, skipped, owed>>

(* export_scope_key at one device, add_scope_key_from_invite at the other. *)
AddScopeKeyFromInvite(d, e) ==
    /\ d \in up /\ scopeKey[e] \notin {0, scopeKey[d]}
    /\ ScopeOp
    /\ scopeKey' = [scopeKey EXCEPT ![d] = scopeKey[e]]
    /\ SetSubscription(d, subs[d] \cup {"market"})
    /\ UNCHANGED <<links, up, known, wire, keys, posts, shown, skipped, owed>>

DeleteScopeKey(d) ==
    /\ d \in up /\ scopeKey[d] # 0
    /\ ScopeOp
    /\ scopeKey' = [scopeKey EXCEPT ![d] = 0]
    /\ SetSubscription(d, subs[d] \ {"market"})
    /\ UNCHANGED <<links, up, known, wire, keys, posts, shown, skipped, owed>>

TargetsForScope(d, scope) == {e \in Device : scope \in known[d][e]}

(* External, gossipsub: the peers a published message gets to, hop by hop    *)
(* through subscribers of the topic.                                         *)
Hearers(d, scope) ==
    LET near == {e \in Connected(d) : scope \in Topics(e)}
    IN  near \cup {f \in Device \ {d} : scope \in Topics(f) /\ \E e \in near : {e, f} \in links}

(* post_bulletin, send_group_message, broadcast_chat, publish_app_listing    *)
(* and publish_app_revocation with the broadcast_scoped they lead to.  The   *)
(* application keeps its own copy; bulletins also subscribe their author.    *)
(* With no announced peer and no subscriber to gossip to, publish_scoped     *)
(* fails and the error ends the node loop.                                   *)
Publish(d, kind) ==
    LET scope == ScopeOf(kind)
        p == [id |-> Cardinality(posts) + 1, kind |-> kind, author |-> d,
              key |-> IF kind = "bulletin" THEN scopeKey[d] ELSE 0]
        targets == TargetsForScope(d, scope)
        hearers == Hearers(d, scope)
    IN  /\ d \in up
        /\ Cardinality(posts) < MaxPosts
        /\ posts' = posts \cup {p}
        /\ shown' = [shown EXCEPT ![d] =
                        IF kind \in {"bulletin", "group", "revocation"} THEN @ \cup {p} ELSE @]
        /\ SetSubscription(d, IF kind = "bulletin" THEN subs[d] \cup {"market"} ELSE subs[d])
        /\ \/ /\ targets # {}
              /\ wire' = wire \cup {Copy(p, e) : e \in targets}
              /\ owed' = owed \cup
                    {<<p, e>> : e \in {f \in targets : kind # "group" /\ Opens(f, p)}}
              /\ skipped' = skipped \cup
                    {<<p, e>> : e \in {f \in Connected(d) \ targets : scope \in subs[f]}}
              /\ UNCHANGED <<links, up, known>>
           \/ /\ targets = {} /\ hearers # {}
              /\ wire' = wire \cup {Gossip(p, e) : e \in hearers}
              /\ UNCHANGED <<links, up, known, owed, skipped>>
           \/ /\ targets = {} /\ hearers = {}
              /\ up' = up \ {d}
              /\ Cut({l \in links : d \in l}, {d})
              /\ UNCHANGED skipped
        /\ UNCHANGED <<scopeKey, keys, scopeOps>>

TakeIn(w, body) ==
    /\ wire' = wire \ {w}
    /\ shown' = [shown EXCEPT ![w.dst] =
                    IF Recognises(w.dst, body, w.post) THEN @ \cup {w.post} ELSE @]
    /\ owed' = IF Recognises(w.dst, body, w.post) \/ ~Opens(w.dst, w.post)
               THEN owed \ {<<w.post, w.dst>>} ELSE owed
    /\ UNCHANGED <<links, up, subs, known, scopeKey, keys, posts, scopeOps, late, skipped>>

(* handle_incoming_direct: a copy is taken in whatever the subscriptions. *)
ReceiveCopy(w) ==
    /\ w \in wire /\ w.type = "copy"
    /\ TakeIn(w, CopyBody(w.post.kind))

(* ScopedReceived: dropped unless a subscription matches. *)
ReceiveGossip(w) ==
    /\ w \in wire /\ w.type = "gossip"
    /\ IF ScopeOf(w.post.kind) \in subs[w.dst]
       THEN TakeIn(w, GossipBody(w.post.kind))
       ELSE /\ wire' = wire \ {w}
            /\ UNCHANGED <<links, up, subs, known, scopeKey, keys, posts, shown, scopeOps,
                           late, skipped, owed>>

ScopesNext ==
    \/ \E d, e \in Device : LinkUp(d, e) \/ AddScopeKeyFromInvite(d, e)
    \/ \E l \in links : LinkDown(l)
    \/ \E d \in Device : Subscribe(d) \/ Unsubscribe(d) \/ CreateScopeKey(d) \/ DeleteScopeKey(d)
    \/ \E d \in Author, kind \in Kind : Publish(d, kind)
    \/ \E w \in wire : ReceiveAnnounce(w) \/ ReceiveCopy(w) \/ ReceiveGossip(w)

ScopesSpec == ScopesInit /\ [][ScopesNext]_scopeVars

Post == [id : 1 .. MaxPosts, kind : Kind, author : Device, key : 0 .. MaxScopeOps]
ScopesTypeOK ==
    /\ links \subseteq {{d, e} : d, e \in Device} /\ up \subseteq Device
    /\ subs \in [Device -> SUBSET Scope]
    /\ known \in [Device -> [Device -> SUBSET Scope]]
    /\ \A w \in wire : w.type \in {"announce", "copy", "gossip"} /\ {w.src, w.dst} \subseteq Device
    /\ scopeKey \in [Device -> 0 .. keys] /\ keys \in 0 .. MaxScopeOps
    /\ posts \subseteq Post /\ shown \in [Device -> SUBSET posts]
    /\ scopeOps \in 0 .. MaxScopeOps
    /\ late \subseteq Device \X Device
    /\ skipped \subseteq Post \X Device /\ owed \subseteq Post \X Device

(* broadcast_scoped, dispatch_incoming: a chat, a listing or a bulletin sent *)
(* as a copy to a device that can open it is recognised there and taken in,  *)
(* unless the connection goes or the receiver's key changes first.           *)
CopiesTakenIn ==
    \A o \in owed : Copy(o[1], o[2]) \in wire

(* send_scope_announce is called when a connection comes up and not again:   *)
(* a connected subscriber is passed over only when it subscribed later, or   *)
(* when its announcement is still on its way.                                *)
SkippedOnlyIfLate ==
    [][\A s \in skipped' \ skipped :
            \/ <<s[1].author, s[2]>> \in late
            \/ \E w \in wire : w.type = "announce" /\ w.src = s[2] /\ w.dst = s[1].author]_scopeVars

(* send_group_message, publish_app_revocation: the scope a group message is  *)
(* published on is nobody's gossip topic, and the body its copies carry is   *)
(* not the one dispatch_incoming looks for; revocations go to a scope nobody *)
(* subscribes to.  Neither is ever taken in by another device.               *)
GroupAndRevocationStayHome ==
    \A d \in Device : \A p \in shown[d] :
        p.kind \in {"group", "revocation"} => p.author = d
=============================================================================
