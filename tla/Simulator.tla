----------------------------- MODULE Simulator -----------------------------
(* mycelium-sim: SimulationRunner with its virtual clock and event           *)
(* scheduler, and the SimTransport through which the simulated nodes, each   *)
(* a task of its own, hand it what they send.  A step takes the actions that *)
(* are waiting, moves the clock to the next event and performs what is due.  *)
(* Every message has size one; roll_loss, a pseudo-random generator, is a    *)
(* choice wherever the link loses anything.                                  *)
EXTENDS Naturals, Sequences, FiniteSets, SequencesExt

CONSTANTS
    SimNode, SimMessage,
    Latency,            \* the latencies a link can have
    NoLink,
    Budget,             \* bandwidth_bytes_per_sec of a node
    SecondLength,       \* clock ticks in a second
    MaxSimTime, MaxSends, MaxHarnessOps   \* bounds

VARIABLES
    simNow,             \* DeterministicClock
    simPhase,           \* where step_until_next_event is
    waiting,            \* the channel action_tx / action_rx
    agenda,             \* EventScheduler: events by at_ms, then seq
    simLinks, online, usage,
    deliveredIds, simMetrics,
    harnessOps,
    sentNo,             \* ghost: transport calls so far
    copies, unlinked,   \* ghost: copies to hand over in all; not counted as dropped
    received,           \* ghost: what each node got, when and from which call
    relinked            \* ghost: pairs whose link was changed

simVars == <<simNow, simPhase, waiting, agenda, simLinks, online, usage, deliveredIds, simMetrics,
             harnessOps, sentNo, copies, unlinked, received, relinked>>

Pairs == {p \in SimNode \X SimNode : p[1] # p[2]}
Second == simNow \div SecondLength

SimInit ==
    /\ simNow = 0 /\ simPhase = "between" /\ waiting = <<>> /\ agenda = <<>>
    /\ simLinks \in [Pairs -> {NoLink} \cup [latency : Latency, lossy : {FALSE}]]
    /\ \A p \in Pairs : simLinks[p] = simLinks[<<p[2], p[1]>>]
    /\ online = [n \in SimNode |-> TRUE]
    /\ usage = [n \in SimNode |-> [s \in 0 .. MaxSimTime |-> 0]]
    /\ deliveredIds = {}
    /\ simMetrics = [delivered |-> 0, duplicates |-> 0, loss |-> 0, offline |-> 0, bandwidth |-> 0]
    /\ harnessOps = 0 /\ sentNo = 0 /\ copies = 0 /\ unlinked = 0
    /\ received = [n \in SimNode |-> <<>>] /\ relinked = {}

(* SimTransport::send_direct, at any moment; dest is the envelope's to_peer, *)
(* to the next hop.                                                          *)
SimSendDirect(from, to, dest, m) ==
    /\ from # to /\ sentNo < MaxSends
    /\ waiting' = Append(waiting, [kind |-> "direct", from |-> from, to |-> to, dest |-> dest,
                                   id |-> m, no |-> sentNo + 1])
    /\ sentNo' = sentNo + 1 /\ copies' = copies + 1
    /\ UNCHANGED <<simNow, simPhase, agenda, simLinks, online, usage, deliveredIds, simMetrics,
                   harnessOps, unlinked, received, relinked>>

(* SimTransport::publish_scoped *)
SimPublish(from) ==
    /\ sentNo < MaxSends
    /\ waiting' = Append(waiting, [kind |-> "scoped", from |-> from, no |-> sentNo + 1])
    /\ sentNo' = sentNo + 1 /\ copies' = copies + Cardinality(SimNode) - 1
    /\ UNCHANGED <<simNow, simPhase, agenda, simLinks, online, usage, deliveredIds, simMetrics,
                   harnessOps, unlinked, received, relinked>>

HarnessOp == simPhase = "between" /\ harnessOps < MaxHarnessOps /\ harnessOps' = harnessOps + 1

SetLink(a, b, profile) ==
    /\ HarnessOp
    /\ simLinks' = [simLinks EXCEPT ![<<a, b>>] = profile, ![<<b, a>>] = profile]
    /\ relinked' = relinked \cup {<<a, b>>, <<b, a>>}
    /\ UNCHANGED <<simNow, simPhase, waiting, agenda, online, usage, deliveredIds, simMetrics,
                   sentNo, copies, unlinked, received>>

\* Mutant: the heap orders by time only, and the later push comes out first.
ScheduledLatestFirst(events, event) ==
    SelectSeq(events, LAMBDA e : e.at < event.at) \o <<event>>
        \o SelectSeq(events, LAMBDA e : e.at >= event.at)

(* EventScheduler::push with the order of ScheduledEvent. *)
Scheduled(events, event) ==
    SelectSeq(events, LAMBDA e : e.at <= event.at) \o <<event>>
        \o SelectSeq(events, LAMBDA e : e.at > event.at)

ScheduleAvailability(n, at, value) ==
    /\ HarnessOp
    /\ agenda' = Scheduled(agenda, [kind |-> "availability", at |-> at, node |-> n, online |-> value])
    /\ UNCHANGED <<simNow, simPhase, waiting, simLinks, online, usage, deliveredIds, simMetrics,
                   sentNo, copies, unlinked, received, relinked>>

(* run_for: the next step_until_next_event. *)
BeginStep ==
    /\ simPhase = "between" /\ simNow < MaxSimTime
    /\ simPhase' = "drain"
    /\ UNCHANGED <<simNow, waiting, agenda, simLinks, online, usage, deliveredIds, simMetrics,
                   harnessOps, sentNo, copies, unlinked, received, relinked>>

BothOnline(from, to) == online[from] /\ online[to]
Delivery(action, to) == [kind |-> "deliver", at |-> simNow + simLinks[<<action.from, to>>].latency,
                         to |-> to, action |-> action]
RollLoss(from, to, rolled) == rolled => simLinks[<<from, to>>].lossy

(* schedule_action, SendDirect *)
ScheduleDirect(action, rolled) ==
    LET linked == BothOnline(action.from, action.to) /\ simLinks[<<action.from, action.to>>] # NoLink IN
    /\ UNCHANGED unlinked
    /\ \/ /\ ~linked /\ ~rolled
          /\ simMetrics' = [simMetrics EXCEPT !.offline = @ + 1]
          /\ UNCHANGED agenda
       \/ /\ linked /\ RollLoss(action.from, action.to, rolled)
          /\ simMetrics' = IF rolled THEN [simMetrics EXCEPT !.loss = @ + 1] ELSE simMetrics
          /\ agenda' = IF rolled THEN agenda ELSE Scheduled(agenda, Delivery(action, action.to))

\* Mutant: an unreachable receiver is passed over without being counted.
ScheduleScopedUncounted(action, order, lost) ==
    LET linked == {n \in Range(order) : BothOnline(action.from, n) /\ simLinks[<<action.from, n>>] # NoLink} IN
    /\ lost \subseteq {n \in linked : simLinks[<<action.from, n>>].lossy}
    /\ unlinked' = unlinked + Cardinality({n \in Range(order) \ linked : BothOnline(action.from, n)})
    /\ simMetrics' = [simMetrics EXCEPT !.loss = @ + Cardinality(lost)]
    /\ agenda' = FoldLeft(LAMBDA events, n : Scheduled(events, Delivery(action, n)), agenda,
                          SelectSeq(order, LAMBDA n : n \in linked \ lost))

(* schedule_action, PublishScoped: the other nodes in the order of the map;  *)
(* a receiver without a link is passed over and counted nowhere.             *)
ScheduleScoped(action, order, lost) ==
    LET up == {n \in Range(order) : BothOnline(action.from, n)}
        linked == {n \in up : simLinks[<<action.from, n>>] # NoLink}
    IN  /\ lost \subseteq {n \in linked : simLinks[<<action.from, n>>].lossy}
        /\ unlinked' = unlinked + Cardinality(up \ linked)
        /\ simMetrics' = [simMetrics EXCEPT !.loss = @ + Cardinality(lost),
                                            !.offline = @ + Cardinality(Range(order) \ up)]
        /\ agenda' = FoldLeft(LAMBDA events, n : Scheduled(events, Delivery(action, n)), agenda,
                              SelectSeq(order, LAMBDA n : n \in linked \ lost))

(* while let Ok(action) = action_rx.try_recv() *)
TakeAction ==
    /\ simPhase = "drain" /\ waiting # <<>>
    /\ waiting' = Tail(waiting)
    /\ LET action == Head(waiting) IN
        \/ /\ action.kind = "direct"
           /\ \E rolled \in BOOLEAN : ScheduleDirect(action, rolled)
        \/ /\ action.kind = "scoped"
           /\ \E order \in SetToSeqs(SimNode \ {action.from}), lost \in SUBSET SimNode :
                  ScheduleScoped(action, order, lost)
    /\ UNCHANGED <<simNow, simPhase, simLinks, online, usage, deliveredIds, harnessOps, sentNo, copies,
                   received, relinked>>

(* clock.advance_to(next_at): never backwards. *)
AdvanceClock ==
    /\ simPhase = "drain" /\ waiting = <<>>
    /\ simPhase' = "pop"
    /\ simNow' = IF agenda # <<>> /\ Head(agenda).at > simNow THEN Head(agenda).at ELSE simNow
    /\ UNCHANGED <<waiting, agenda, simLinks, online, usage, deliveredIds, simMetrics, harnessOps,
                   sentNo, copies, unlinked, received, relinked>>

(* consume_bandwidth *)
ConsumeBandwidth(n) == usage[n][Second] + 1 <= Budget

(* record_delivery: only a Data message that has reached its addressee. *)
RecordDelivery(event) ==
    IF event.action.kind = "direct" /\ event.action.dest = event.to
    THEN LET key == <<event.to, event.action.id>> IN
         /\ deliveredIds' = deliveredIds \cup {key}
         /\ simMetrics' = IF key \in deliveredIds THEN [simMetrics EXCEPT !.duplicates = @ + 1]
                                                  ELSE [simMetrics EXCEPT !.delivered = @ + 1]
    ELSE UNCHANGED <<deliveredIds, simMetrics>>

(* pop_ready and the event; whether the receiver is online was asked when    *)
(* the message was scheduled, not now.                                       *)
PopReady ==
    /\ simPhase = "pop" /\ agenda # <<>> /\ Head(agenda).at <= simNow
    /\ agenda' = Tail(agenda)
    /\ LET event == Head(agenda) IN
        \/ /\ event.kind = "availability"
           /\ online' = [online EXCEPT ![event.node] = event.online]
           /\ UNCHANGED <<usage, received, deliveredIds, simMetrics>>
        \/ /\ event.kind = "deliver" /\ ConsumeBandwidth(event.to)
           /\ usage' = [usage EXCEPT ![event.to][Second] = @ + 1]
           /\ received' = [received EXCEPT ![event.to] =
                              Append(@, [from |-> event.action.from, no |-> event.action.no,
                                         kind |-> event.action.kind, second |-> Second])]
           /\ RecordDelivery(event)
           /\ UNCHANGED online
        \/ /\ event.kind = "deliver" /\ ~ConsumeBandwidth(event.to)
           /\ simMetrics' = [simMetrics EXCEPT !.bandwidth = @ + 1]
           /\ UNCHANGED <<usage, received, deliveredIds, online>>
    /\ UNCHANGED <<simNow, simPhase, waiting, simLinks, harnessOps, sentNo, copies, unlinked, relinked>>

(* With nothing scheduled and nothing waiting, run_for moves the clock on by *)
(* one.                                                                      *)
EndStep ==
    /\ simPhase = "pop" /\ (agenda # <<>> => Head(agenda).at > simNow)
    /\ simPhase' = "between"
    /\ simNow' = IF agenda = <<>> /\ waiting = <<>> /\ simNow < MaxSimTime THEN simNow + 1 ELSE simNow
    /\ UNCHANGED <<waiting, agenda, simLinks, online, usage, deliveredIds, simMetrics, harnessOps,
                   sentNo, copies, unlinked, received, relinked>>

SimNext ==
    \/ BeginStep \/ TakeAction \/ AdvanceClock \/ PopReady \/ EndStep
    \/ \E from, to, dest \in SimNode, m \in SimMessage : SimSendDirect(from, to, dest, m)
    \/ \E from \in SimNode : SimPublish(from)
    \/ \E p \in Pairs, latency \in Latency : SetLink(p[1], p[2], [latency |-> latency, lossy |-> TRUE])
    \/ \E n \in SimNode, at \in 0 .. MaxSimTime : ScheduleAvailability(n, at, ~online[n])

SimSpec == SimInit /\ [][SimNext]_simVars

SimTypeOK ==
    /\ simPhase \in {"between", "drain", "pop"}
    /\ online \in [SimNode -> BOOLEAN] /\ relinked \subseteq Pairs
    /\ \A k \in DOMAIN simMetrics : simMetrics[k] \in 0 .. copies

CopiesWaiting ==
    FoldLeft(LAMBDA sum, a : sum + (IF a.kind = "direct" THEN 1 ELSE Cardinality(SimNode) - 1), 0, waiting)
Deliveries(events) == Len(SelectSeq(events, LAMBDA e : e.kind = "deliver"))
HandedOver == Cardinality({x \in SimNode \X (1 .. MaxSends) : x[2] <= Len(received[x[1]])})

(* SimulationMetrics, schedule_action, step_until_next_event: every copy of  *)
(* every message sent is waiting, scheduled, handed to its node or counted   *)
(* in exactly one of the dropped_ metrics, except the copies of a publish    *)
(* for which there is no link; and duplicates count what came twice.         *)
CopiesConserved ==
    /\ copies = CopiesWaiting + Deliveries(agenda) + HandedOver + unlinked
                + simMetrics.loss + simMetrics.offline + simMetrics.bandwidth
    /\ simMetrics.delivered = Cardinality(deliveredIds)

(* EventScheduler, schedule_action: while its link stays as it is, a node's  *)
(* messages to another arrive in the order it sent them, across steps, other *)
(* traffic and availability changes.                                         *)
LinksAreFifo ==
    \A n \in SimNode : \A i, j \in DOMAIN received[n] :
        i < j /\ received[n][i].from = received[n][j].from /\ <<received[n][i].from, n>> \notin relinked
            => received[n][i].no < received[n][j].no

(* consume_bandwidth: in no second of virtual time does a node get more than *)
(* its bandwidth, however many steps fall into it.                           *)
BandwidthBounded ==
    \A n \in SimNode, s \in 0 .. MaxSimTime :
        Cardinality({i \in DOMAIN received[n] : received[n][i].second = s}) <= Budget

(* SimTransport, LinkConfig: a simulated link keeps the order of what is     *)
(* sent along it and hands its receiver no more than the bandwidth allows.   *)
LinksAreHonest == LinksAreFifo /\ BandwidthBounded
=============================================================================
