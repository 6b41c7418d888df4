---------------------------- MODULE InboxProofs ----------------------------
(* For any number of peers, messages, commands and any channel capacity: the *)
(* user's decisions stick unless dispatch held an older read, no message     *)
(* goes unaccounted for, and a chat keeps its row.                           *)
EXTENDS Inbox, TLAPS

Pc == {"idle", "mail", "done", "upsert", "save", "groupchat", "member"}
Members == SUBSET (Peer \cup {Me, "no group"})
Incoming ==
    [pc : Pc, id : Nat, kind : MessageKind, from : Peer, at : Instant,
     accepted : BOOLEAN, seen : Members]

InboxTypes ==
    /\ queue \in Seq(Incoming) /\ Len(queue) <= Capacity
    /\ dispatch = None \/ dispatch \in Incoming
    /\ contact \in [Peer -> {"none", "Pending", "Accepted"}]
    /\ group \in Members
    /\ chats \in [Peer -> [Instant -> Nat]]
    /\ arrived \in Nat
    /\ command = None \/ (command.pc = "member" /\ command.seen \in Members)

(*-------------------------------------------------------------------------*)
\* The dispatch task at rest has no message.
LEMMA NoneFields == None.pc = "idle" /\ None.id = 0
  BY DEF None

\* A message that arrives is well formed.
LEMMA ArrivingTyped ==
  ASSUME NEW kind \in MessageKind, NEW p \in Peer, NEW t \in Instant, NEW id \in Nat
  PROVE  LET m == [None EXCEPT !.id = id, !.kind = kind, !.from = p, !.at = t]
         IN  m \in Incoming /\ m.id = id
  BY Zenon DEF None, Incoming, Pc, Members

\* The channel never holds more than its capacity.
LEMMA ChannelSendTyped ==
  ASSUME queue \in Seq(Incoming), Len(queue) <= Capacity, NEW m \in Incoming, ChannelSend(m)
  PROVE  queue' \in Seq(Incoming) /\ Len(queue') <= Capacity
  <1>1. CASE Len(queue) = Capacity
    <2>1. queue # <<>> /\ queue' = Append(Tail(queue), m)
      BY <1>1, InboxConstants DEF ChannelSend
    <2>2. Tail(queue) \in Seq(Incoming) /\ Len(Tail(queue)) = Len(queue) - 1
      BY <2>1
    <2> QED BY <1>1, <2>1, <2>2
  <1>2. CASE Len(queue) # Capacity
    <2>1. queue' = Append(queue, m)
      BY <1>2 DEF ChannelSend
    <2> QED BY <1>2, <2>1, InboxConstants
  <1> QED BY <1>1, <1>2

\* What dispatch knows of a message it has just received.
LEMMA ReceivedTyped ==
  ASSUME InboxTypes, Receive
  PROVE  /\ queue' \in Seq(Incoming) /\ Len(queue') <= Capacity
         /\ dispatch' \in Incoming /\ dispatch'.id = Head(queue).id
         /\ dispatch'.from = Head(queue).from
         /\ dispatch'.pc \in {"mail", "done", "groupchat", "upsert", "save"}
         /\ dispatch'.pc = "upsert" => contact[dispatch'.from] = "none"
  <1>1. /\ queue # <<>> /\ queue' = Tail(queue)
        /\ queue \in Seq(Incoming) /\ Len(queue) <= Capacity
    BY DEF Receive, InboxTypes
  <1>2. Head(queue) \in Incoming /\ Tail(queue) \in Seq(Incoming)
        /\ Len(Tail(queue)) = Len(queue) - 1
    BY <1>1
  <1>3. queue' \in Seq(Incoming) /\ Len(queue') <= Capacity
    BY <1>1, <1>2, InboxConstants
  <1> DEFINE h == Head(queue)
             pc == CASE h.kind = "mail" -> "mail"
                     [] h.kind = "group" -> IF group = NoGroup THEN "done" ELSE "groupchat"
                     [] h.kind = "chat" -> IF contact[h.from] = "none" THEN "upsert" ELSE "save"
             acc == h.kind = "chat" /\ contact[h.from] = "Accepted"
  <1>4. dispatch' = [h EXCEPT !.pc = pc, !.accepted = acc]
    BY DEF Receive
  <1>5. /\ pc \in {"mail", "done", "groupchat", "upsert", "save"}
        /\ pc = "upsert" => contact[h.from] = "none"
    BY <1>2 DEF Incoming, MessageKind
  <1>6. acc \in BOOLEAN
    OBVIOUS
  <1> HIDE DEF pc, acc
  <1>7. /\ dispatch' \in Incoming /\ dispatch'.id = h.id /\ dispatch'.from = h.from
        /\ dispatch'.pc = pc
    BY <1>2, <1>4, <1>5, <1>6, Zenon DEF Incoming, Pc
  <1> QED BY <1>3, <1>5, <1>7

\* A message under way is well formed.
LEMMA DispatchFields ==
  ASSUME InboxTypes, dispatch.pc # "idle"
  PROVE  /\ dispatch \in Incoming /\ dispatch.from \in Peer /\ dispatch.at \in Instant
         /\ dispatch.id \in Nat /\ dispatch.seen \in Members
  BY NoneFields DEF InboxTypes, Incoming

\* Every step keeps the types.
LEMMA InboxTypesStep == InboxTypes /\ [InboxNext]_inboxVars => InboxTypes'
  <1> SUFFICES ASSUME InboxTypes, [InboxNext]_inboxVars PROVE InboxTypes'
    BY Zenon
  <1> USE DEF InboxTypes
  <1>1. ASSUME NEW kind \in MessageKind, NEW p \in Peer, NEW t \in Instant, Arrive(kind, p, t)
        PROVE  InboxTypes'
    <2> DEFINE m == [None EXCEPT !.id = arrived + 1, !.kind = kind, !.from = p, !.at = t]
    <2>0. arrived + 1 \in Nat
      OBVIOUS
    <2>1. m \in Incoming
      BY <2>0, ArrivingTyped, Zenon
    <2>2. ChannelSend(m) /\ arrived' = arrived + 1 /\ UNCHANGED <<dispatch, rows, command>>
      BY <1>1 DEF Arrive
    <2> HIDE DEF m
    <2>3. queue' \in Seq(Incoming) /\ Len(queue') <= Capacity
      BY <2>1, <2>2, ChannelSendTyped
    <2> QED BY <2>2, <2>3 DEF rows
  <1>2. ASSUME NEW p \in Peer, NEW t \in Instant, SendChat(p, t) PROVE InboxTypes'
    <2>1. chats' \in [Peer -> [Instant -> Nat]]
      BY <1>2 DEF SendChat, SaveChat, TsKey
    <2>2. /\ arrived' \in Nat
          /\ UNCHANGED <<queue, dispatch, group, command>>
      BY <1>2 DEF SendChat
    <2>3. contact' \in [Peer -> {"none", "Pending", "Accepted"}]
      BY <1>2 DEF SendChat
    <2> QED BY <2>1, <2>2, <2>3
  <1>3. CASE Receive
    BY <1>3, ReceivedTyped, Zenon DEF Receive, rows
  <1>4. CASE StopOnLag \/ SaveMail
    BY <1>4 DEF StopOnLag, SaveMail, Finish, rows
  <1>5. CASE UpsertPending
    <2>1. dispatch \in Incoming /\ dispatch.from \in Peer
      BY <1>5, DispatchFields DEF UpsertPending
    <2>2. dispatch' \in Incoming
      BY <1>5, <2>1, Zenon DEF UpsertPending, Incoming, Pc
    <2> QED BY <1>5, <2>1, <2>2 DEF UpsertPending
  <1>6. CASE SaveIncomingChat
    <2>1. dispatch.from \in Peer /\ dispatch.at \in Instant /\ dispatch.id \in Nat
      BY <1>6, DispatchFields DEF SaveIncomingChat
    <2>2. chats' \in [Peer -> [Instant -> Nat]]
      BY <1>6, <2>1 DEF SaveIncomingChat, SaveChat, TsKey
    <2> QED BY <1>6, <2>2 DEF SaveIncomingChat, Finish
  <1>7. CASE SaveGroupChat
    <2>1. dispatch \in Incoming
      BY <1>7, DispatchFields DEF SaveGroupChat
    <2>2. dispatch' \in Incoming
      BY <1>7, <2>1, Zenon DEF SaveGroupChat, Incoming, Pc
    <2> QED BY <1>7, <2>2 DEF SaveGroupChat
  <1>8. CASE SaveMember
    <2>1. dispatch.from \in Peer /\ dispatch.seen \in Members
      BY <1>8, DispatchFields DEF SaveMember
    <2>2. group' \in Members
      BY <1>8, <2>1, Zenon DEF SaveMember, Members
    <2> QED BY <1>8, <2>2 DEF SaveMember, Finish
  <1>9. ASSUME NEW p \in Peer, AcceptContact(p) \/ AddPendingContact(p) \/ DeleteContact(p)
        PROVE  InboxTypes'
    BY <1>9, Zenon DEF AcceptContact, AddPendingContact, DeleteContact
  <1>10. CASE JoinGroup \/ LeaveGroup
    BY <1>10, Zenon DEF JoinGroup, LeaveGroup, Members, NoGroup
  <1>11. CASE BeginGroupMessage
    <2>1. command'.pc = "member" /\ command'.seen = group
      BY <1>11 DEF BeginGroupMessage, None
    <2> QED BY <1>11, <2>1 DEF BeginGroupMessage, rows
  <1>12. CASE SendGroupMessage
    <2>1. command.seen \in Members
      BY <1>12, NoneFields DEF SendGroupMessage
    <2> QED BY <1>12, <2>1, Zenon DEF SendGroupMessage, Members
  <1>13. ASSUME NEW id, MarkMailRead(id) PROVE InboxTypes'
    BY <1>13 DEF MarkMailRead
  <1>14. CASE UNCHANGED inboxVars
    BY <1>14 DEF inboxVars
  <1>15. 1 \in Instant /\ {"chat", "group", "mail"} = MessageKind
    BY InboxConstants DEF Instant, MessageKind
  <1> QED
    BY <1>1, <1>2, <1>3, <1>4, <1>5, <1>6, <1>7, <1>8, <1>9, <1>10, <1>11, <1>12, <1>13, <1>14,
       <1>15, Zenon DEF InboxNext

\* The application starts with no rows.
LEMMA InboxTypesInit == InboxInit => InboxTypes
  <1> SUFFICES ASSUME InboxInit PROVE InboxTypes
    OBVIOUS
  <1>1. queue \in Seq(Incoming) /\ Len(queue) <= Capacity
    BY InboxConstants DEF InboxInit
  <1>2. contact \in [Peer -> {"none", "Pending", "Accepted"}] /\ group \in Members
    BY Zenon DEF InboxInit, Members, NoGroup
  <1>3. chats \in [Peer -> [Instant -> Nat]]
    BY DEF InboxInit
  <1>4. dispatch = None /\ command = None /\ arrived \in Nat
    BY DEF InboxInit
  <1> QED BY <1>1, <1>2, <1>3, <1>4 DEF InboxTypes

(* The rows, the channel and the message under way keep their shape whatever *)
(* dispatch and the commands do; the channel never holds more than it may.   *)
THEOREM InboxTyped == InboxSpec => []InboxTypes
  BY InboxTypesInit, InboxTypesStep, PTL DEF InboxSpec

(*-------------------------------------------------------------------------*)
(* DecisionsStick is kept by a message that still has to write only because  *)
(* such a message has the decision among the overtaken ones.                 *)
StickInv ==
    /\ DecisionsStick
    /\ wanted \subseteq Peer
    /\ dispatch.pc = "upsert" /\ dispatch.from \in wanted => dispatch.from \in overtaken
    /\ dispatch.pc = "member" /\ left => Me \in overtaken
    /\ command.pc = "member" /\ left => Me \in overtaken

\* Every step keeps the decisions or has them among the overtaken.
LEMMA StickStep == InboxTypes /\ StickInv /\ [InboxNext]_inboxVars => StickInv'
  <1> SUFFICES ASSUME InboxTypes, StickInv, [InboxNext]_inboxVars PROVE StickInv'
    BY Zenon
  <1> USE DEF StickInv, DecisionsStick
  <1>1. ASSUME NEW kind, NEW p \in Peer, NEW t, Arrive(kind, p, t) PROVE StickInv'
    BY <1>1 DEF Arrive, rows, ghosts
  <1>2. ASSUME NEW p \in Peer,
               /\ contact' = [contact EXCEPT ![p] = "Accepted"]
               /\ wanted' = wanted \cup {p}
               /\ Overtake(p, "upsert")
               /\ UNCHANGED <<dispatch, group, command, left>>
        PROVE  StickInv'
    <2>1. Me # p /\ contact \in [Peer -> {"none", "Pending", "Accepted"}]
      BY InboxConstants DEF InboxTypes
    <2>2. \A d \in (Peer \cup {Me}) \ {p} : d \in overtaken' <=> d \in overtaken
      BY <1>2 DEF Overtake
    <2>3. Me \in overtaken' <=> Me \in overtaken
      BY <2>1, <2>2
    <2>4. \A q \in wanted' : contact'[q] = "Accepted" \/ q \in overtaken'
      BY <1>2, <2>1, <2>2
    <2>5. dispatch'.pc = "upsert" /\ dispatch'.from \in wanted' => dispatch'.from \in overtaken'
      BY <1>2, <2>2 DEF Overtake
    <2> QED BY <1>2, <2>3, <2>4, <2>5
  <1>3. ASSUME NEW p \in Peer, NEW t, SendChat(p, t) PROVE StickInv'
    BY <1>2, <1>3, Zenon DEF SendChat
  <1>4. ASSUME NEW p \in Peer, AcceptContact(p) PROVE StickInv'
    BY <1>2, <1>4, Zenon DEF AcceptContact
  <1>5. ASSUME NEW p \in Peer, AddPendingContact(p) \/ DeleteContact(p) PROVE StickInv'
    <2>1. /\ \E row : contact' = [contact EXCEPT ![p] = row]
          /\ wanted' = wanted \ {p}
          /\ UNCHANGED <<dispatch, group, command, left, overtaken>>
      BY <1>5 DEF AddPendingContact, DeleteContact
    <2> QED BY <2>1 DEF InboxTypes
  <1>6. CASE Receive
    <2>1. dispatch'.pc # "member"
      BY <1>6, ReceivedTyped
    <2>2. dispatch'.pc = "upsert" /\ dispatch'.from \in wanted => dispatch'.from \in overtaken
      BY <1>6, ReceivedTyped
    <2>3. UNCHANGED <<contact, group, command, wanted, left, overtaken>>
      BY <1>6 DEF Receive, rows, ghosts
    <2> QED BY <2>1, <2>2, <2>3
  <1>7. CASE StopOnLag \/ SaveMail \/ SaveIncomingChat
    <2>1. /\ dispatch' = dispatch \/ dispatch' = None
          /\ UNCHANGED <<contact, group, command, wanted, left, overtaken>>
      BY <1>7 DEF StopOnLag, SaveMail, SaveIncomingChat, Finish, rows, ghosts
    <2> QED BY <2>1, NoneFields
  <1>8. CASE UpsertPending
    <2>1. dispatch'.pc = "save"
      BY <1>8, DispatchFields DEF UpsertPending, Incoming
    <2> QED BY <1>8, <2>1 DEF UpsertPending, ghosts, InboxTypes
  <1>9. CASE SaveGroupChat
    <2>1. dispatch'.pc = (IF group = NoGroup THEN "done" ELSE "member")
      BY <1>9, DispatchFields DEF SaveGroupChat, Incoming
    <2> QED BY <1>9, <2>1 DEF SaveGroupChat, ghosts
  <1>10. CASE SaveMember
    BY <1>10, NoneFields DEF SaveMember, Finish, ghosts
  <1>11. CASE JoinGroup
    BY <1>11 DEF JoinGroup
  <1>12. CASE LeaveGroup
    <2>1. command.pc = "idle"
      BY <1>12, NoneFields DEF LeaveGroup, UserOp
    <2>2. \A p \in Peer : p \in overtaken' <=> p \in overtaken
      BY <1>12, InboxConstants DEF LeaveGroup, Overtake
    <2>3. dispatch.pc = "member" => Me \in overtaken'
      BY <1>12 DEF LeaveGroup, Overtake
    <2> QED BY <1>12, <2>1, <2>2, <2>3 DEF LeaveGroup
  <1>13. CASE BeginGroupMessage
    BY <1>13 DEF BeginGroupMessage, rows, ghosts
  <1>14. CASE SendGroupMessage
    BY <1>14, NoneFields DEF SendGroupMessage, ghosts
  <1>15. ASSUME NEW id, MarkMailRead(id) PROVE StickInv'
    BY <1>15 DEF MarkMailRead, ghosts
  <1>16. CASE UNCHANGED inboxVars
    BY <1>16 DEF inboxVars
  <1> QED
    BY <1>1, <1>3, <1>4, <1>5, <1>6, <1>7, <1>8, <1>9, <1>10, <1>11, <1>12, <1>13, <1>14, <1>15,
       <1>16, Zenon DEF InboxNext

(* dispatch_incoming, upsert_contact, group_record_peer_seen: what the user  *)
(* decided about a contact or the group is undone only by a message whose    *)
(* dispatch had read the row before the decision.                            *)
THEOREM DecisionsAreKept == InboxSpec => []DecisionsStick
  <1>1. InboxInit => StickInv
    BY NoneFields DEF InboxInit, StickInv, DecisionsStick
  <1>2. StickInv => DecisionsStick
    BY DEF StickInv
  <1> QED BY <1>1, <1>2, StickStep, InboxTyped, PTL DEF InboxSpec

(*-------------------------------------------------------------------------*)
(* ChatsKept, with the row's owner always among the chats saved.             *)
KeptInv ==
    \A c \in saved :
        /\ c \in Peer \X Instant \X Nat
        /\ <<c[1], c[2], chats[c[1]][c[2]]>> \in saved

\* Saving a chat takes one row and leaves the others.
LEMMA SavedKept ==
  ASSUME InboxTypes, KeptInv, NEW p \in Peer, NEW t \in Instant, NEW id \in Nat,
         SaveChat(p, t, id)
  PROVE  KeptInv'
  <1>1. /\ chats \in [Peer -> [Instant -> Nat]]
        /\ chats' = [chats EXCEPT ![p][t] = id]
        /\ saved' = saved \cup {<<p, t, id>>}
    BY DEF SaveChat, TsKey, InboxTypes
  <1>2. \A q \in Peer, u \in Instant :
            chats'[q][u] = IF q = p /\ u = t THEN id ELSE chats[q][u]
    BY <1>1
  <1> SUFFICES ASSUME NEW c \in saved'
               PROVE  /\ c \in Peer \X Instant \X Nat
                      /\ <<c[1], c[2], chats'[c[1]][c[2]]>> \in saved'
    BY Zenon DEF KeptInv
  <1>3. c \in Peer \X Instant \X Nat
    <2>1. CASE c \in saved
      BY <2>1, Zenon DEF KeptInv
    <2>2. CASE c = <<p, t, id>>
      BY <2>2
    <2> QED BY <1>1, <2>1, <2>2
  <1>4. CASE c[1] = p /\ c[2] = t
    BY <1>1, <1>2, <1>3, <1>4
  <1>5. CASE ~(c[1] = p /\ c[2] = t)
    <2>1. c \in saved
      BY <1>1, <1>5
    <2>2. c[1] \in Peer /\ c[2] \in Instant
      BY <1>3
    <2>3. chats'[c[1]][c[2]] = chats[c[1]][c[2]]
      BY <1>2, <1>5, <2>2
    <2> QED BY <1>1, <1>3, <2>1, <2>3 DEF KeptInv
  <1> QED BY <1>3, <1>4, <1>5

\* Every step keeps the rows' owners.
LEMMA KeptStep == InboxTypes /\ KeptInv /\ [InboxNext]_inboxVars => KeptInv'
  <1> SUFFICES ASSUME InboxTypes, KeptInv, [InboxNext]_inboxVars PROVE KeptInv'
    OBVIOUS
  <1>1. ASSUME UNCHANGED <<chats, saved>> PROVE KeptInv'
    BY <1>1 DEF KeptInv
  <1>2. ASSUME NEW p \in Peer, NEW t \in Instant, SendChat(p, t) PROVE KeptInv'
    <2>1. arrived + 1 \in Nat /\ SaveChat(p, t, arrived + 1)
      BY <1>2 DEF SendChat, InboxTypes
    <2> QED BY <2>1, SavedKept
  <1>3. CASE SaveIncomingChat
    BY <1>3, DispatchFields, SavedKept DEF SaveIncomingChat
  <1>4. ASSUME NEW kind, NEW p, NEW t, Arrive(kind, p, t) PROVE UNCHANGED <<chats, saved>>
    BY <1>4 DEF Arrive, rows, ghosts
  <1>5. ASSUME NEW p, AcceptContact(p) \/ AddPendingContact(p) \/ DeleteContact(p)
        PROVE  UNCHANGED <<chats, saved>>
    BY <1>5 DEF AcceptContact, AddPendingContact, DeleteContact
  <1>6. CASE StopOnLag \/ Receive \/ SaveMail \/ UpsertPending \/ SaveGroupChat \/ SaveMember
    BY <1>1, <1>6 DEF StopOnLag, Receive, SaveMail, UpsertPending, SaveGroupChat, SaveMember,
                      rows, ghosts
  <1>7. CASE JoinGroup \/ LeaveGroup \/ BeginGroupMessage \/ SendGroupMessage
    BY <1>1, <1>7 DEF JoinGroup, LeaveGroup, BeginGroupMessage, SendGroupMessage, rows, ghosts
  <1>8. ASSUME NEW id, MarkMailRead(id) PROVE UNCHANGED <<chats, saved>>
    BY <1>8 DEF MarkMailRead, ghosts
  <1>9. CASE UNCHANGED inboxVars
    BY <1>1, <1>9 DEF inboxVars
  <1> QED BY <1>1, <1>2, <1>3, <1>4, <1>5, <1>6, <1>7, <1>8, <1>9 DEF InboxNext

(* save_chat: a chat once saved is found again under its peer and timestamp, *)
(* unless another of the same peer and millisecond has taken its row.        *)
THEOREM ChatsAreKept == InboxSpec => []ChatsKept
  <1>1. InboxInit => KeptInv
    BY DEF InboxInit, KeptInv
  <1>2. KeptInv => ChatsKept
    <2> SUFFICES ASSUME KeptInv, NEW c \in saved, chats[c[1]][c[2]] # c[3]
                 PROVE  \E d \in saved : d # c /\ d[1] = c[1] /\ d[2] = c[2]
                                         /\ chats[c[1]][c[2]] = d[3]
      BY DEF ChatsKept
    <2> DEFINE d == <<c[1], c[2], chats[c[1]][c[2]]>>
    <2>1. d \in saved
      BY DEF KeptInv
    <2>2. d[1] = c[1] /\ d[2] = c[2] /\ d[3] = chats[c[1]][c[2]] /\ d # c
      OBVIOUS
    <2> QED BY <2>1, <2>2
  <1> QED BY <1>1, <1>2, KeptStep, InboxTyped, PTL DEF InboxSpec

(*-------------------------------------------------------------------------*)
(* ArrivedAccounted is inductive as it stands, given the types: a message    *)
(* leaves the channel for dispatch or for the dropped, never for nowhere.    *)
Waiting(i) == \E k \in 1 .. Len(queue) : queue[k].id = i

AccountedInv ==
    /\ \A i \in 1 .. arrived : i \in handled \/ i \in dropped \/ i = dispatch.id \/ Waiting(i)
    /\ dropped # {} => lagged
    /\ ~alive => lagged

\* A send loses the oldest message only to the dropped.
LEMMA SentStillAccounted ==
  ASSUME queue \in Seq(Incoming), Len(queue) <= Capacity, NEW m \in Incoming, ChannelSend(m)
  PROVE  /\ \A i : i = m.id => Waiting(i)'
         /\ \A i : i \in dropped \/ Waiting(i) => i \in dropped' \/ Waiting(i)'
         /\ (dropped # {} => lagged) => (dropped' # {} => lagged')
         /\ lagged => lagged'
  <1>1. CASE Len(queue) = Capacity
    <2>1. /\ queue # <<>> /\ queue' = Append(Tail(queue), m)
          /\ dropped' = dropped \cup {Head(queue).id} /\ lagged' = TRUE
      BY <1>1, InboxConstants DEF ChannelSend
    <2>2. /\ Tail(queue) \in Seq(Incoming) /\ Len(Tail(queue)) = Len(queue) - 1
          /\ Head(queue) = queue[1]
          /\ \A k \in 1 .. Len(queue) - 1 : Tail(queue)[k] = queue[k + 1]
      BY <2>1
    <2>3. /\ Len(queue') = Len(queue) /\ queue'[Len(queue)] = m
          /\ \A k \in 1 .. Len(queue) - 1 : queue'[k] = queue[k + 1]
      BY <2>1, <2>2
    <2>4. ASSUME NEW i, i = m.id PROVE Waiting(i)'
      <3>1. Len(queue) \in 1 .. Len(queue')
        BY <1>1, <2>3, InboxConstants
      <3>2. queue'[Len(queue)].id = i
        BY <2>3, <2>4
      <3> QED BY <3>1, <3>2 DEF Waiting
    <2>5. ASSUME NEW i, Waiting(i) PROVE i \in dropped' \/ Waiting(i)'
      <3>1. PICK k \in 1 .. Len(queue) : queue[k].id = i
        BY <2>5 DEF Waiting
      <3>2. CASE k = 1
        BY <2>1, <2>2, <3>1, <3>2
      <3>3. CASE k # 1
        <4>1. k - 1 \in 1 .. Len(queue) - 1 /\ queue[(k - 1) + 1] = queue[k]
          BY <3>1, <3>3
        <4>2. queue'[k - 1].id = i /\ k - 1 \in 1 .. Len(queue')
          BY <2>3, <3>1, <4>1
        <4> QED BY <4>2 DEF Waiting
      <3> QED BY <3>2, <3>3
    <2> QED BY <2>1, <2>4, <2>5
  <1>2. CASE Len(queue) # Capacity
    <2>1. queue' = Append(queue, m) /\ dropped' = dropped /\ lagged' = lagged
      BY <1>2 DEF ChannelSend
    <2>2. /\ Len(queue') = Len(queue) + 1 /\ queue'[Len(queue) + 1] = m
          /\ \A k \in 1 .. Len(queue) : queue'[k] = queue[k]
      BY <2>1
    <2>3. \A i : i = m.id \/ Waiting(i) => Waiting(i)'
      BY <2>2 DEF Waiting
    <2> QED BY <2>1, <2>3
  <1> QED BY <1>1, <1>2

\* Every step keeps every message accounted for.
LEMMA AccountedStep == InboxTypes /\ AccountedInv /\ [InboxNext]_inboxVars => AccountedInv'
  <1> SUFFICES ASSUME InboxTypes, AccountedInv, [InboxNext]_inboxVars PROVE AccountedInv'
    BY Zenon
  <1>0. queue \in Seq(Incoming) /\ Len(queue) <= Capacity /\ arrived \in Nat
    BY DEF InboxTypes
  <1>1. ASSUME NEW kind \in MessageKind, NEW p \in Peer, NEW t \in Instant, Arrive(kind, p, t)
        PROVE  AccountedInv'
    <2> DEFINE m == [None EXCEPT !.id = arrived + 1, !.kind = kind, !.from = p, !.at = t]
    <2>1. arrived + 1 \in Nat
      BY <1>0
    <2>2. m \in Incoming
      BY <2>1, ArrivingTyped, Zenon
    <2>3. /\ ChannelSend(m) /\ arrived' = arrived + 1
          /\ UNCHANGED <<alive, dispatch, handled>>
      BY <1>1 DEF Arrive
    <2>m. m.id = arrived + 1
      BY DEF None
    <2> HIDE DEF m
    <2>n. PICK n \in Incoming : n = m
      BY <2>2
    <2>4. /\ \A i : i = n.id => Waiting(i)'
          /\ \A i : i \in dropped \/ Waiting(i) => i \in dropped' \/ Waiting(i)'
          /\ (dropped # {} => lagged) => (dropped' # {} => lagged')
          /\ lagged => lagged'
      <3>1. ChannelSend(n)
        BY <2>3, <2>n
      <3> QED BY <1>0, <3>1, SentStillAccounted
    <2>5. ASSUME NEW i \in 1 .. arrived'
          PROVE  (i \in handled \/ i \in dropped \/ i = dispatch.id \/ Waiting(i))'
      <3>1. i \in 1 .. arrived \/ i = n.id
        BY <1>0, <2>3, <2>m, <2>n
      <3> QED BY <2>3, <2>4, <3>1 DEF AccountedInv
    <2>6. (dropped' # {} => lagged') /\ (~alive' => lagged')
      BY <2>3, <2>4, Zenon DEF AccountedInv
    <2> QED BY <2>5, <2>6 DEF AccountedInv
  <1>2. ASSUME UNCHANGED <<queue, arrived, dropped, lagged, alive>>,
               handled \subseteq handled',
               dispatch'.id = dispatch.id \/ dispatch.id \in handled'
        PROVE  AccountedInv'
    BY <1>2 DEF AccountedInv, Waiting
  <1>3. ASSUME NEW p \in Peer, NEW t \in Instant, SendChat(p, t) PROVE AccountedInv'
    <2>1. /\ UNCHANGED <<queue, dispatch, dropped, lagged, alive>>
          /\ arrived' = arrived + 1 /\ handled' = handled \cup {arrived + 1}
      BY <1>3 DEF SendChat
    <2>2. \A i \in 1 .. arrived' : i \in 1 .. arrived \/ i \in handled'
      BY <1>0, <2>1
    <2> QED BY <2>1, <2>2 DEF AccountedInv, Waiting
  <1>4. CASE Receive
    <2>1. /\ queue # <<>> /\ queue' = Tail(queue) /\ dispatch = None
          /\ UNCHANGED <<arrived, handled, dropped, lagged, alive>>
      BY <1>4 DEF Receive
    <2>2. /\ dispatch'.id = queue[1].id /\ Len(queue') = Len(queue) - 1
          /\ \A k \in 1 .. Len(queue) - 1 : queue'[k] = queue[k + 1]
      BY <1>0, <1>4, <2>1, ReceivedTyped
    <2>3. ASSUME NEW i, Waiting(i) PROVE i = dispatch'.id \/ Waiting(i)'
      <3>1. PICK k \in 1 .. Len(queue) : queue[k].id = i
        BY <2>3 DEF Waiting
      <3>2. CASE k = 1
        BY <2>2, <3>1, <3>2
      <3>3. CASE k # 1
        <4>1. k - 1 \in 1 .. Len(queue) - 1 /\ queue[(k - 1) + 1] = queue[k]
          BY <1>0, <3>1, <3>3
        <4>2. queue'[k - 1].id = i /\ k - 1 \in 1 .. Len(queue')
          BY <2>2, <3>1, <4>1
        <4> QED BY <4>2 DEF Waiting
      <3> QED BY <3>2, <3>3
    <2>4. \A i \in 1 .. arrived : i # dispatch.id
      BY <1>0, <2>1, NoneFields
    <2> QED BY <2>1, <2>3, <2>4 DEF AccountedInv
  <1>5. CASE StopOnLag
    <2>1. lagged' /\ UNCHANGED <<queue, arrived, dropped, handled, dispatch>>
      BY <1>5 DEF StopOnLag
    <2> QED BY <2>1 DEF AccountedInv, Waiting
  <1>6. CASE SaveMail \/ SaveIncomingChat \/ SaveMember
    BY <1>2, <1>6 DEF SaveMail, SaveIncomingChat, SaveMember, Finish
  <1>7. CASE UpsertPending \/ SaveGroupChat
    <2>1. dispatch \in Incoming
      BY <1>7, DispatchFields DEF UpsertPending, SaveGroupChat
    <2>2. dispatch'.id = dispatch.id
      BY <1>7, <2>1, Zenon DEF UpsertPending, SaveGroupChat, Incoming
    <2> QED BY <1>2, <1>7, <2>2 DEF UpsertPending, SaveGroupChat
  <1>8. ASSUME NEW p, AcceptContact(p) \/ AddPendingContact(p) \/ DeleteContact(p)
        PROVE  AccountedInv'
    BY <1>2, <1>8 DEF AcceptContact, AddPendingContact, DeleteContact
  <1>9. CASE JoinGroup \/ LeaveGroup \/ BeginGroupMessage \/ SendGroupMessage
    BY <1>2, <1>9 DEF JoinGroup, LeaveGroup, BeginGroupMessage, SendGroupMessage
  <1>10. ASSUME NEW id, MarkMailRead(id) PROVE AccountedInv'
    BY <1>2, <1>10 DEF MarkMailRead
  <1>11. CASE UNCHANGED inboxVars
    BY <1>2, <1>11 DEF inboxVars
  <1>12. 1 \in Instant /\ {"chat", "group", "mail"} = MessageKind
    BY InboxConstants DEF Instant, MessageKind
  <1> QED
    BY <1>1, <1>3, <1>4, <1>5, <1>6, <1>7, <1>8, <1>9, <1>10, <1>11, <1>12 DEF InboxNext

(* start_incoming_task: every message handed to the application is waiting,  *)
(* under way or handled, or was overwritten in a full channel, which ends    *)
(* the dispatch of all that follow.                                          *)
THEOREM ArrivalsAccounted == InboxSpec => []ArrivedAccounted
  <1>1. InboxInit => AccountedInv
    BY DEF InboxInit, AccountedInv
  <1>2. InboxTypes /\ AccountedInv => ArrivedAccounted
    BY DEF InboxTypes, AccountedInv, ArrivedAccounted, Waiting
  <1> QED BY <1>1, <1>2, AccountedStep, InboxTyped, PTL DEF InboxSpec
=============================================================================
