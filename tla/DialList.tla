------------------------------ MODULE DialList ------------------------------
(* The addresses a node dials: the built-in relay, the user's bootstrap.txt, *)
(* the peers added by invite (dial_peers.txt) and those the rendezvous names *)
(* (bootstrap.rs, invite.rs, the dial code of mycelium-node's node.rs and    *)
(* transport.rs).  Addresses are abstract: libp2p parses some, and an error  *)
(* on another is logged, filtered or fatal depending on where it is met.     *)
EXTENDS Naturals, Sequences, FiniteSets, SequencesExt

CONSTANTS
    Addr,           \* addresses the user or a peer can name
    BadAddr,        \* those that do not parse as a multiaddr
    Relay,          \* BOOTSTRAP_PEERS
    MaxDialOps      \* bound: commands, rendezvous answers, crashes and starts

VARIABLES
    looping,        \* the node loop runs
    targets,        \* the transport's bootstrap_peers
    linked,         \* addresses whose peer is connected or being dialled
    dialFile,       \* dial_peers.txt
    customFile,     \* bootstrap.txt
    dialCmds,       \* AddBootstrapPeer commands not yet handled
    writing,        \* the files being written, truncated by now, and what goes into them
    dialOps,
    added,          \* ghost: addresses AddBootstrapPeer has persisted
    tornDials,      \* ghost: a crash hit dial_peers.txt while it was written
    ended           \* ghost: what ended the loop last

dialVars == <<looping, targets, linked, dialFile, customFile, dialCmds, writing, dialOps, added,
              tornDials, ended>>

NoWrite == {}

DialOp == dialOps < MaxDialOps /\ dialOps' = dialOps + 1

(* parse_invite with to_dial_multiaddr: an invite, a bare peer id and        *)
(* host:port all become an address, well formed or not; anything else is     *)
(* refused.  libp2p's parser (external) decides what is well formed.         *)
ParseInvite(text) == IF text = "junk" THEN {} ELSE {text}
Parses(a) == a \notin BadAddr

(* load_bootstrap_peers: the peers given (configuration, environment), else  *)
(* bootstrap.txt when it names anyone, else the built-in relay.              *)
LoadBootstrapPeers(given) ==
    IF given # {} THEN given ELSE IF customFile # {} THEN customFile ELSE {Relay}

DialInit ==
    /\ looping = FALSE /\ targets = {} /\ linked = {} /\ dialFile = {} /\ customFile = {}
    /\ dialCmds = <<>> /\ writing = [f \in {"dial", "custom"} |-> NoWrite] /\ dialOps = 0
    /\ added = {} /\ tornDials = FALSE /\ ended = "none"

\* Mutant: the persisted peers count only when no others are given.
StartInstead(given) ==
    /\ ~looping /\ DialOp
    /\ looping' = TRUE
    /\ targets' = {a \in IF given # {} THEN given ELSE LoadBootstrapPeers(given) \cup dialFile : Parses(a)}
    /\ linked' = targets' /\ dialCmds' = <<>>
    /\ UNCHANGED <<dialFile, customFile, writing, added, tornDials, ended>>

(* NodeRunner::new, Libp2pTransport::new: both lists, what does not parse    *)
(* left out; dial_all_bootstraps dials them, its errors are logged.          *)
Start(given) ==
    /\ ~looping /\ DialOp
    /\ looping' = TRUE
    /\ targets' = {a \in LoadBootstrapPeers(given) \cup dialFile : Parses(a)}
    /\ linked' = targets' /\ dialCmds' = <<>>
    /\ UNCHANGED <<dialFile, customFile, writing, added, tornDials, ended>>

(* connect_peer_id, add_peer: the command is queued, whatever the address. *)
ConnectPeer(text) ==
    /\ looping /\ DialOp
    /\ \E a \in ParseInvite(text) : dialCmds' = Append(dialCmds, a)
    /\ UNCHANGED <<looping, targets, linked, dialFile, customFile, writing, added, tornDials, ended>>

(* set_custom_bootstrap_peers: the file first (an empty list removes it),    *)
(* then a command for every peer that is on the list now.                    *)
SetCustomPeers(peers) ==
    /\ looping \/ ended = "command"
    /\ DialOp /\ writing["custom"] = NoWrite
    /\ customFile' = {}
    /\ writing' = [writing EXCEPT !["custom"] = peers]
    /\ UNCHANGED <<looping, targets, linked, dialFile, dialCmds, added, tornDials, ended>>

FinishCustomPeers ==
    LET peers == writing["custom"] IN
    /\ peers # NoWrite
    /\ customFile' = peers
    /\ writing' = [writing EXCEPT !["custom"] = NoWrite]
    /\ \E order \in SetToSeqs(peers) :
        dialCmds' = IF looping THEN dialCmds \o order ELSE dialCmds
    /\ UNCHANGED <<looping, targets, linked, dialFile, dialOps, added, tornDials, ended>>

EndLoop(why) ==
    looping' = FALSE /\ targets' = {} /\ linked' = {} /\ dialCmds' = <<>> /\ ended' = why

(* queue_dial_target: an address that does not parse is an error before it   *)
(* is remembered, Swarm::dial (external) refuses a peer that is connected or *)
(* being dialled; either error of a command ends the loop.                   *)
QueueDialTarget(a) ==
    IF Parses(a) /\ a \notin linked
    THEN /\ targets' = targets \cup {a} /\ linked' = linked \cup {a}
         /\ dialCmds' = Tail(dialCmds)
         /\ UNCHANGED <<looping, ended>>
    ELSE EndLoop("command")

(* AddBootstrapPeer, first persist_dial_peer: the list is read and the file  *)
(* written anew ...                                                          *)
PersistDialPeer ==
    /\ looping /\ dialCmds # <<>> /\ writing["dial"] = NoWrite
    /\ Head(dialCmds) \notin dialFile
    /\ writing' = [writing EXCEPT !["dial"] = dialFile \cup {Head(dialCmds)}]
    /\ dialFile' = {}
    /\ UNCHANGED <<looping, targets, linked, customFile, dialCmds, dialOps, added, tornDials, ended>>

FinishPersist ==
    /\ writing["dial"] # NoWrite
    /\ dialFile' = writing["dial"]
    /\ added' = added \cup {Head(dialCmds)}
    /\ writing' = [writing EXCEPT !["dial"] = NoWrite]
    /\ UNCHANGED <<looping, targets, linked, customFile, dialCmds, dialOps, tornDials, ended>>

(* (a write error is logged and the address dialled all the same)            *)
FailPersist ==
    /\ writing["dial"] # NoWrite /\ DialOp
    /\ tornDials' = TRUE
    /\ writing' = [writing EXCEPT !["dial"] = NoWrite]
    /\ QueueDialTarget(Head(dialCmds))
    /\ UNCHANGED <<dialFile, customFile, added>>

(* ... then remember_and_dial. *)
RememberAndDial ==
    /\ looping /\ dialCmds # <<>> /\ writing["dial"] = NoWrite /\ Head(dialCmds) \in dialFile
    /\ QueueDialTarget(Head(dialCmds))
    /\ UNCHANGED <<dialFile, customFile, writing, dialOps, added, tornDials>>

\* Mutant: a peer the rendezvous names is dialled like one the user added.
RendezvousFatal(ids) ==
    /\ looping /\ DialOp
    /\ IF \A a \in ids : Parses(a)
       THEN targets' = targets \cup ids /\ linked' = linked \cup ids /\ UNCHANGED <<looping, dialCmds, ended>>
       ELSE EndLoop("rendezvous")
    /\ UNCHANGED <<dialFile, customFile, writing, added, tornDials>>

(* dial_rendezvous_list: the ids not known yet are remembered until the node *)
(* stops, not persisted; an id that gives no address is only logged.         *)
DialRendezvousList(ids) ==
    LET good == {a \in ids : Parses(a)} IN
    /\ looping /\ DialOp
    /\ targets' = targets \cup good /\ linked' = linked \cup good
    /\ UNCHANGED <<looping, dialFile, customFile, dialCmds, writing, added, tornDials, ended>>

(* mDNS finds a peer: its address is remembered and dialled, errors logged. *)
MdnsDiscovered(a) ==
    /\ looping /\ Parses(a) /\ DialOp
    /\ targets' = targets \cup {a} /\ linked' = linked \cup {a}
    /\ UNCHANGED <<looping, dialFile, customFile, dialCmds, writing, added, tornDials, ended>>

(* redial_stored_targets, at the dial tick or when the Internet is back. *)
RedialStoredTargets ==
    /\ looping /\ ~(targets \subseteq linked)
    /\ linked' = linked \cup targets
    /\ UNCHANGED <<looping, targets, dialFile, customFile, dialCmds, writing, dialOps, added,
                   tornDials, ended>>

(* A dial fails or a connection closes (handle_swarm_event): the target is   *)
(* kept.                                                                     *)
LinkLost(a) ==
    /\ a \in linked /\ DialOp
    /\ linked' = linked \ {a}
    /\ UNCHANGED <<looping, targets, dialFile, customFile, dialCmds, writing, added, tornDials, ended>>

(* A peer connects to this node, or is dialled because Kademlia found it. *)
LinkedFromOutside(a) ==
    /\ looping /\ Parses(a) /\ a \notin linked /\ DialOp
    /\ linked' = linked \cup {a}
    /\ UNCHANGED <<looping, targets, dialFile, customFile, dialCmds, writing, added, tornDials, ended>>

(* The process ends: what was being written stays truncated. *)
DialCrash ==
    /\ looping /\ DialOp /\ EndLoop("crash")
    /\ writing' = [f \in DOMAIN writing |-> NoWrite]
    /\ tornDials' = (tornDials \/ writing["dial"] # NoWrite)
    /\ UNCHANGED <<dialFile, customFile, added>>

DialNext ==
    \/ \E given \in {{}} \cup {{a} : a \in Addr} : Start(given)
    \/ FinishCustomPeers \/ PersistDialPeer \/ FinishPersist \/ FailPersist \/ RememberAndDial
    \/ RedialStoredTargets \/ DialCrash
    \/ \E text \in Addr \cup {"junk"} : ConnectPeer(text)
    \/ \E peers \in SUBSET Addr : SetCustomPeers(peers)
    \/ \E ids \in SUBSET Addr \ {{}} : DialRendezvousList(ids)
    \/ \E a \in Addr \cup {Relay} : MdnsDiscovered(a) \/ LinkLost(a) \/ LinkedFromOutside(a)

DialSpec == DialInit /\ [][DialNext]_dialVars

DialTypeOK ==
    /\ looping \in BOOLEAN /\ targets \cup linked \subseteq (Addr \cup {Relay}) \ BadAddr
    /\ dialFile \subseteq Addr /\ customFile \subseteq Addr
    /\ \A i \in DOMAIN dialCmds : dialCmds[i] \in Addr
    /\ added \subseteq Addr /\ tornDials \in BOOLEAN

(* persist_dial_peer, NodeRunner::new: an address once added is dialled by   *)
(* this run and by every later one, whatever bootstrap.txt says and also     *)
(* when a later command ends the loop; only a crash or an error while        *)
(* dial_peers.txt is being written loses it.                                 *)
AddedStayTargets ==
    tornDials \/
    /\ writing["dial"] = NoWrite => added \subseteq dialFile
    /\ looping => \A a \in added : Parses(a) => a \in targets \/ (dialCmds # <<>> /\ a = Head(dialCmds))

(* handle_command, dial_rendezvous_list, Libp2pTransport::new: the loop ends *)
(* over an address only when the user adds one that is malformed or whose    *)
(* peer is linked already, and then that address is in dial_peers.txt and    *)
(* keeps no later start from coming up.  From a file, the rendezvous, mDNS   *)
(* or a redial no address ends it.                                           *)
OnlyCommandsEndLoop ==
    [][looping /\ ~looping' /\ ended' # "crash" =>
           /\ dialCmds # <<>>
           /\ Head(dialCmds) \in BadAddr \cup linked
           /\ Head(dialCmds) \in dialFile \/ tornDials']_dialVars
=============================================================================
