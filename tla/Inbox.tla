------------------------------- MODULE Inbox -------------------------------
(* The application node of one device (mycelium-app's node.rs, storage.rs,   *)
(* contacts.rs, groups.rs): the dispatch task takes messages from a bounded  *)
(* broadcast channel and writes contacts, chats, groups and mail; the user's *)
(* commands write the same rows.  Rows are read and written back without a   *)
(* lock, so dispatch is taken apart between a read and the write it leads to.*)
EXTENDS Naturals, Sequences, FiniteSets

CONSTANTS
    Peer,
    Me,             \* local_peer_id
    Capacity,       \* of the incoming channel
    MaxArrivals, MaxInboxOps, MaxInstant        \* bounds

ASSUME InboxConstants ==
    /\ Me \notin Peer
    /\ Capacity \in Nat \ {0} /\ MaxInstant \in Nat \ {0}

VARIABLES
    queue,          \* messages the dispatch task has not received
    lagged,         \* the channel overwrote one of them
    alive,          \* the dispatch task runs
    dispatch,       \* the message it is handling
    contact,        \* contacts:data
    group,          \* groups:data, one group: the members seen, NoGroup if it has no row
    chats,          \* chat:<peer>, by timestamp
    groupChats,     \* groupchat:<id>
    inbox, readMail,
    command,        \* the user's group message under way
    arrived,        \* ids of messages so far
    inboxOps,
    handled,        \* history: messages dispatch is done with
    dropped,        \* history: messages the channel overwrote
    saved,          \* history: chats ever saved, as <<peer, instant, id>>
    wanted,         \* ghost: contacts the user accepted and has not touched since
    left,           \* ghost: the user left the group
    overtaken       \* ghost: decisions taken while dispatch held an older read

inboxVars == <<queue, lagged, alive, dispatch, contact, group, chats, groupChats, inbox,
               readMail, command, arrived, inboxOps, handled, dropped, saved, wanted, left,
               overtaken>>

Instant == 1 .. MaxInstant
MessageKind == {"chat", "group", "mail"}
NoGroup == {"no group"}
None == [pc |-> "idle", id |-> 0, kind |-> "mail", from |-> Me, at |-> 1,
         accepted |-> FALSE, seen |-> {}]

(* ts_key: a chat's row is its timestamp, within the tree of its peer. *)
TsKey(at) == at

InboxInit ==
    /\ queue = <<>> /\ lagged = FALSE /\ alive = TRUE /\ dispatch = None
    /\ contact = [p \in Peer |-> "none"]
    /\ group = NoGroup
    /\ chats = [p \in Peer |-> [t \in Instant |-> 0]]
    /\ groupChats = {} /\ inbox = {} /\ readMail = {}
    /\ command = None
    /\ arrived = 0 /\ inboxOps = 0
    /\ handled = {} /\ dropped = {} /\ saved = {}
    /\ wanted = {} /\ left = FALSE /\ overtaken = {}

rows == <<contact, group, chats, groupChats, inbox, readMail>>
ghosts == <<saved, wanted, left, overtaken>>

\* Mutant: a full channel turns the new message away and says nothing.
DropNewest(m) ==
    /\ queue' = IF Len(queue) = Capacity THEN queue ELSE Append(queue, m)
    /\ dropped' = IF Len(queue) = Capacity THEN dropped \cup {m.id} ELSE dropped
    /\ lagged' = lagged

(* External, tokio's broadcast channel: a sender never waits; the slowest    *)
(* receiver loses its oldest message and is told so on its next recv.        *)
ChannelSend(m) ==
    IF Len(queue) = Capacity
    THEN /\ queue' = Append(Tail(queue), m)
         /\ dropped' = dropped \cup {Head(queue).id}
         /\ lagged' = TRUE
    ELSE queue' = Append(queue, m) /\ UNCHANGED <<dropped, lagged>>

Arrive(kind, p, t) ==
    /\ arrived < MaxArrivals
    /\ arrived' = arrived + 1
    /\ ChannelSend([None EXCEPT !.id = arrived + 1, !.kind = kind, !.from = p, !.at = t])
    /\ UNCHANGED <<alive, dispatch, rows, command, inboxOps, handled, ghosts>>

(* start_incoming_task: any error of recv ends the loop, a lag as well. *)
StopOnLag ==
    /\ alive /\ dispatch = None /\ lagged
    /\ alive' = FALSE
    /\ UNCHANGED <<queue, lagged, dispatch, rows, command, arrived, inboxOps, handled, dropped, ghosts>>

Finish == dispatch' = None /\ handled' = handled \cup {dispatch.id}

(* dispatch_incoming up to its first read: who sent a chat, or the group. *)
Receive ==
    /\ alive /\ dispatch = None /\ ~lagged /\ queue # <<>>
    /\ queue' = Tail(queue)
    /\ dispatch' = [Head(queue) EXCEPT
            !.pc = CASE Head(queue).kind = "mail" -> "mail"
                     [] Head(queue).kind = "group" -> IF group = NoGroup THEN "done" ELSE "groupchat"
                     [] Head(queue).kind = "chat" ->
                            IF contact[Head(queue).from] = "none" THEN "upsert" ELSE "save",
            !.accepted = Head(queue).kind = "chat" /\ contact[Head(queue).from] = "Accepted"]
    /\ UNCHANGED <<lagged, alive, rows, command, arrived, inboxOps, handled, dropped, ghosts>>

SaveMail ==
    /\ dispatch.pc \in {"mail", "done"}
    /\ Finish
    /\ inbox' = IF dispatch.pc = "mail" THEN inbox \cup {dispatch.id} ELSE inbox
    /\ UNCHANGED <<queue, lagged, alive, contact, group, chats, groupChats, readMail, command,
                   arrived, inboxOps, dropped, ghosts>>

(* A chat from a stranger: a Pending row, over whatever is there by now. *)
UpsertPending ==
    /\ dispatch.pc = "upsert"
    /\ contact' = [contact EXCEPT ![dispatch.from] = "Pending"]
    /\ dispatch' = [dispatch EXCEPT !.pc = "save"]
    /\ UNCHANGED <<queue, lagged, alive, group, chats, groupChats, inbox, readMail, command,
                   arrived, inboxOps, handled, dropped, ghosts>>

SaveChat(p, t, id) ==
    /\ chats' = [chats EXCEPT ![p][TsKey(t)] = id]
    /\ saved' = saved \cup {<<p, t, id>>}

\* Mutant: a chat makes its sender Pending, known or not.
SaveChatResetContact ==
    /\ dispatch.pc = "save"
    /\ SaveChat(dispatch.from, dispatch.at, dispatch.id)
    /\ Finish
    /\ contact' = [contact EXCEPT ![dispatch.from] = "Pending"]
    /\ UNCHANGED <<queue, lagged, alive, group, groupChats, inbox, readMail, command,
                   arrived, inboxOps, dropped, wanted, left, overtaken>>

SaveIncomingChat ==
    /\ dispatch.pc = "save"
    /\ SaveChat(dispatch.from, dispatch.at, dispatch.id)
    /\ Finish
    /\ UNCHANGED <<queue, lagged, alive, contact, group, groupChats, inbox, readMail, command,
                   arrived, inboxOps, dropped, wanted, left, overtaken>>

(* save_group_chat, then group_record_peer_seen: it reads the row ... *)
SaveGroupChat ==
    /\ dispatch.pc = "groupchat"
    /\ groupChats' = groupChats \cup {dispatch.id}
    /\ dispatch' = [dispatch EXCEPT !.pc = IF group = NoGroup THEN "done" ELSE "member",
                                    !.seen = group]
    /\ UNCHANGED <<queue, lagged, alive, contact, group, chats, inbox, readMail, command,
                   arrived, inboxOps, handled, dropped, ghosts>>

(* ... and writes it back with the sender in it. *)
SaveMember ==
    /\ dispatch.pc = "member"
    /\ group' = dispatch.seen \cup {dispatch.from}
    /\ Finish
    /\ UNCHANGED <<queue, lagged, alive, contact, chats, groupChats, inbox, readMail, command,
                   arrived, inboxOps, dropped, ghosts>>

UserOp == /\ inboxOps < MaxInboxOps
          /\ command = None
          /\ inboxOps' = inboxOps + 1

(* The decision is overtaken when dispatch still has to write on an older read. *)
Overtake(decision, pc) ==
    overtaken' = IF dispatch.pc = pc /\ (pc = "upsert" => dispatch.from = decision)
                 THEN overtaken \cup {decision} ELSE overtaken \ {decision}

(* accept_contact, add_contact with accepted set, the first half of a send. *)
AcceptContact(p) ==
    /\ UserOp
    /\ contact' = [contact EXCEPT ![p] = "Accepted"]
    /\ wanted' = wanted \cup {p}
    /\ Overtake(p, "upsert")
    /\ UNCHANGED <<queue, lagged, alive, dispatch, group, chats, groupChats, inbox, readMail,
                   command, arrived, handled, dropped, saved, left>>

(* add_contact without it: also a step back for an accepted contact. *)
AddPendingContact(p) ==
    /\ UserOp
    /\ contact' = [contact EXCEPT ![p] = "Pending"]
    /\ wanted' = wanted \ {p}
    /\ UNCHANGED <<queue, lagged, alive, dispatch, group, chats, groupChats, inbox, readMail,
                   command, arrived, handled, dropped, saved, left, overtaken>>

(* reject_contact, remove_contact. *)
DeleteContact(p) ==
    /\ UserOp
    /\ contact[p] # "none"
    /\ contact' = [contact EXCEPT ![p] = "none"]
    /\ wanted' = wanted \ {p}
    /\ UNCHANGED <<queue, lagged, alive, dispatch, group, chats, groupChats, inbox, readMail,
                   command, arrived, handled, dropped, saved, left, overtaken>>

(* send_chat to a peer whose key is known: accepts the contact, saves the    *)
(* chat under the sender's clock.                                            *)
SendChat(p, t) ==
    /\ UserOp
    /\ arrived < MaxArrivals
    /\ arrived' = arrived + 1
    /\ contact' = [contact EXCEPT ![p] = "Accepted"]
    /\ wanted' = wanted \cup {p}
    /\ Overtake(p, "upsert")
    /\ SaveChat(p, t, arrived + 1)
    /\ handled' = handled \cup {arrived + 1}
    /\ UNCHANGED <<queue, lagged, alive, dispatch, group, groupChats, inbox, readMail,
                   command, dropped, left>>

(* create_group, join_group of the shells: save_group. *)
JoinGroup ==
    /\ UserOp
    /\ group = NoGroup
    /\ group' = {Me}
    /\ left' = FALSE
    /\ UNCHANGED <<queue, lagged, alive, dispatch, contact, chats, groupChats, inbox, readMail,
                   command, arrived, handled, dropped, saved, wanted, overtaken>>

LeaveGroup ==
    /\ UserOp
    /\ group # NoGroup
    /\ group' = NoGroup
    /\ left' = TRUE
    /\ Overtake(Me, "member")
    /\ UNCHANGED <<queue, lagged, alive, dispatch, contact, chats, groupChats, inbox, readMail,
                   command, arrived, handled, dropped, saved, wanted>>

(* send_group_message: the same read and write of the row, for oneself. *)
BeginGroupMessage ==
    /\ UserOp
    /\ group # NoGroup
    /\ command' = [None EXCEPT !.pc = "member", !.seen = group]
    /\ UNCHANGED <<queue, lagged, alive, dispatch, rows, arrived, handled, dropped, ghosts>>

SendGroupMessage ==
    /\ command.pc = "member"
    /\ group' = command.seen \cup {Me}
    /\ command' = None
    /\ UNCHANGED <<queue, lagged, alive, dispatch, contact, chats, groupChats, inbox, readMail,
                   arrived, inboxOps, handled, dropped, ghosts>>

MarkMailRead(id) ==
    /\ UserOp
    /\ id \in inbox \ readMail
    /\ readMail' = readMail \cup {id}
    /\ UNCHANGED <<queue, lagged, alive, dispatch, contact, group, chats, groupChats, inbox,
                   command, arrived, handled, dropped, ghosts>>

InboxNext ==
    \/ \E p \in Peer, t \in Instant : Arrive("chat", p, t) \/ SendChat(p, t)
    \/ \E p \in Peer, kind \in {"group", "mail"} : Arrive(kind, p, 1)
    \/ StopOnLag \/ Receive \/ SaveMail \/ UpsertPending \/ SaveIncomingChat
    \/ SaveGroupChat \/ SaveMember
    \/ \E p \in Peer : AcceptContact(p) \/ AddPendingContact(p) \/ DeleteContact(p)
    \/ JoinGroup \/ LeaveGroup \/ BeginGroupMessage \/ SendGroupMessage
    \/ \E id \in inbox : MarkMailRead(id)

InboxSpec == InboxInit /\ [][InboxNext]_inboxVars

Ids == 1 .. MaxArrivals
InboxTypeOK ==
    /\ Len(queue) <= Capacity /\ lagged \in BOOLEAN /\ alive \in BOOLEAN
    /\ contact \in [Peer -> {"none", "Pending", "Accepted"}]
    /\ group = NoGroup \/ group \subseteq Peer \cup {Me}
    /\ chats \in [Peer -> [Instant -> 0 .. MaxArrivals]]
    /\ groupChats \subseteq Ids /\ inbox \subseteq Ids /\ readMail \subseteq inbox
    /\ handled \subseteq Ids /\ dropped \subseteq Ids /\ wanted \subseteq Peer
    /\ arrived \in 0 .. MaxArrivals /\ inboxOps \in 0 .. MaxInboxOps

(* dispatch_incoming, upsert_contact, group_record_peer_seen: a contact the  *)
(* user accepted stays accepted, and a group the user left stays gone; only  *)
(* a message whose dispatch had read the row before the decision, and writes *)
(* it after, undoes it.                                                      *)
DecisionsStick ==
    /\ \A p \in wanted : contact[p] = "Accepted" \/ p \in overtaken
    /\ left => group = NoGroup \/ Me \in overtaken

(* start_incoming_task: every message handed to the application is waiting,  *)
(* being handled or handled, or was overwritten in a full channel; that ends *)
(* the dispatch of all that follow, and nothing else does.                   *)
ArrivedAccounted ==
    /\ \A i \in 1 .. arrived :
        \/ i \in handled \cup dropped \cup {dispatch.id}
        \/ \E k \in DOMAIN queue : queue[k].id = i
    /\ dropped # {} => lagged
    /\ ~alive => lagged

(* save_chat: a chat once saved is found again under its peer and timestamp, *)
(* unless another of the same peer and millisecond has taken its row.        *)
ChatsKept ==
    \A c \in saved :
        \/ chats[c[1]][c[2]] = c[3]
        \/ \E d \in saved : d # c /\ d[1] = c[1] /\ d[2] = c[2] /\ chats[c[1]][c[2]] = d[3]
=============================================================================
