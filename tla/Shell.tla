------------------------------- MODULE Shell -------------------------------
(* Starting and stopping a node inside a shell: init_node and stop_node of   *)
(* the FFI library, start_node, reset_local_data and panic_wipe of the       *)
(* desktop.  A start builds its parts one after the other; an error leaves   *)
(* behind the tasks it has spawned.  The databases are sled directories: an  *)
(* open of one that any live part still holds is an error, and a directory   *)
(* that was deleted and made anew is another directory.                      *)
EXTENDS Naturals, FiniteSets

CONSTANTS MaxStarts,    \* bounds: starts,
          MaxShellOps   \* and stops, resets, wipes, deaths of tasks

ASSUME StartsBounded == MaxStarts \in Nat

VARIABLES
    ffi,            \* the shell is the FFI library, else the desktop
    dirs,           \* how often the message store, and the application's databases,
                    \* were deleted and so made anew
    begun,          \* starts begun so far, in this process or an earlier one
    stage,          \* how far each start is
    nodeDir,        \* which message store each start opened,
    storeDir,       \* and which application databases; 0 before it did
    runners,        \* starts whose node loop runs
    aborted,        \* those whose runner_task was aborted
    wallets,        \* starts whose connectivity_task runs
    dispatchers,    \* starts whose incoming task runs
    published,      \* NODE, SharedState: the start the commands go to, 0 if none
    shellOps,
    abandoned       \* ghost: starts whose state was dropped without a stop

shellVars == <<ffi, dirs, begun, stage, nodeDir, storeDir, runners, aborted, wallets,
               dispatchers, published, shellOps, abandoned>>

Starts == 1 .. MaxStarts

ShellOp == shellOps < MaxShellOps /\ shellOps' = shellOps + 1

(* SledMessageStore is the runner's own. *)
NodeHeld == \E i \in runners : nodeDir[i] = dirs.node

\* Mutant: the incoming task keeps no hold of the application's databases.
HoldersWithoutDispatch ==
    {i \in Starts : stage[i] = "stores"} \cup wallets \cup ({published} \ {0})

(* The application's databases are shared: by the start that has them open,  *)
(* the AppNode (in the state and in its own incoming task) and the wallet.   *)
StoreHolders ==
    {i \in Starts : stage[i] = "stores"} \cup wallets \cup dispatchers \cup ({published} \ {0})
StoresHeld == \E i \in StoreHolders : storeDir[i] = dirs.stores

ShellInit ==
    /\ ffi \in BOOLEAN /\ dirs = [node |-> 1, stores |-> 1] /\ begun = 0
    /\ stage = [i \in Starts |-> "none"]
    /\ nodeDir = [i \in Starts |-> 0] /\ storeDir = [i \in Starts |-> 0]
    /\ runners = {} /\ aborted = {} /\ wallets = {} /\ dispatchers = {}
    /\ published = 0 /\ shellOps = 0 /\ abandoned = {}

(* init_node goes ahead whatever runs; start_node returns at once if a node  *)
(* is published.  MeshService calls init_node on every onStartCommand.       *)
BeginStart ==
    /\ begun < MaxStarts
    /\ ffi \/ published = 0
    /\ begun' = begun + 1
    /\ stage' = [stage EXCEPT ![begun + 1] = "begun"]
    /\ UNCHANGED <<ffi, dirs, nodeDir, storeDir, runners, aborted, wallets, dispatchers,
                   published, shellOps, abandoned>>

Fail(i) == stage' = [stage EXCEPT ![i] = "failed"]

(* NodeRunner::new opens the store, then the runner is spawned.  Each open   *)
(* can also fail of itself.                                                  *)
OpenNode(i) ==
    /\ stage[i] = "begun"
    /\ \/ Fail(i) /\ UNCHANGED <<nodeDir, runners>>
       \/ /\ ~NodeHeld
          /\ stage' = [stage EXCEPT ![i] = "node"]
          /\ nodeDir' = [nodeDir EXCEPT ![i] = dirs.node]
          /\ runners' = runners \cup {i}
    /\ UNCHANGED <<ffi, dirs, begun, storeDir, aborted, wallets, dispatchers, published,
                   shellOps, abandoned>>

(* AppStorage, AppStore, LocalLedger: an error drops what was opened, the    *)
(* runner goes on.                                                           *)
OpenStores(i) ==
    /\ stage[i] = "node"
    /\ \/ Fail(i) /\ UNCHANGED storeDir
       \/ /\ ~StoresHeld
          /\ stage' = [stage EXCEPT ![i] = "stores"]
          /\ storeDir' = [storeDir EXCEPT ![i] = dirs.stores]
    /\ UNCHANGED <<ffi, dirs, begun, nodeDir, runners, aborted, wallets, dispatchers, published,
                   shellOps, abandoned>>

(* The FFI spawns the connectivity task with the wallet; then the encryption *)
(* key is loaded, which can fail, the incoming task is spawned and the node  *)
(* published over whatever was there.                                        *)
PublishNode(i) ==
    /\ stage[i] = "stores"
    /\ wallets' = IF ffi THEN wallets \cup {i} ELSE wallets
    /\ \/ Fail(i) /\ UNCHANGED <<dispatchers, published, abandoned>>
       \/ /\ stage' = [stage EXCEPT ![i] = "up"]
          /\ dispatchers' = dispatchers \cup {i}
          /\ published' = i
          /\ abandoned' = abandoned \cup ({published} \ {0})
    /\ UNCHANGED <<ffi, dirs, begun, nodeDir, storeDir, runners, aborted, shellOps>>

(* stop_node: the state is dropped and three tasks are aborted; the incoming *)
(* task is not among them.                                                   *)
StopNode ==
    /\ ffi /\ published # 0 /\ ShellOp
    /\ published' = 0
    /\ aborted' = aborted \cup {published}
    /\ wallets' = wallets \ {published}
    /\ UNCHANGED <<ffi, dirs, begun, stage, nodeDir, storeDir, runners, dispatchers, abandoned>>

(* An aborted runner is dropped some time later; any runner ends on an error *)
(* of its own.                                                               *)
RunnerEnds(i) ==
    /\ i \in runners
    /\ IF i \in aborted THEN UNCHANGED shellOps ELSE ShellOp
    /\ runners' = runners \ {i}
    /\ UNCHANGED <<ffi, dirs, begun, stage, nodeDir, storeDir, aborted, wallets, dispatchers,
                   published, abandoned>>

(* The incoming task outlives the runner: the AppNode in it holds a sender   *)
(* of the channel it reads.  Only a lag ends it.                             *)
DispatcherLags(i) ==
    /\ i \in dispatchers /\ ShellOp
    /\ dispatchers' = dispatchers \ {i}
    /\ UNCHANGED <<ffi, dirs, begun, stage, nodeDir, storeDir, runners, aborted, wallets,
                   published, abandoned>>

(* remove_dir_all; when it fails it may have deleted either part. *)
Deleted == [node |-> dirs.node + 1, stores |-> dirs.stores + 1]
HalfDeleted == [node : {dirs.node, dirs.node + 1}, stores : {dirs.stores, dirs.stores + 1}]

(* reset_local_data deletes the directory, whoever has it open. *)
ResetDirectory ==
    /\ ~ffi /\ ShellOp
    /\ dirs' \in HalfDeleted
    /\ UNCHANGED <<ffi, begun, stage, nodeDir, storeDir, runners, aborted, wallets, dispatchers,
                   published, abandoned>>

NewProcess ==
    /\ runners' = {} /\ aborted' = {} /\ wallets' = {} /\ dispatchers' = {}
    /\ published' = 0 /\ abandoned' = {}
    /\ stage' = [i \in Starts |-> IF i <= begun THEN "failed" ELSE "none"]

(* panic_wipe drops the state, deletes the directory it named and restarts   *)
(* the application; if the deletion fails it stops half way.                 *)
PanicWipe ==
    /\ ~ffi /\ ShellOp
    /\ \/ NewProcess /\ dirs' = IF published = 0 THEN dirs ELSE Deleted
       \/ /\ published # 0
          /\ published' = 0
          /\ abandoned' = abandoned \cup {published}
          /\ dirs' \in HalfDeleted
          /\ UNCHANGED <<stage, runners, aborted, wallets, dispatchers>>
    /\ UNCHANGED <<ffi, begun, nodeDir, storeDir>>

ShellCrash ==
    /\ ShellOp /\ NewProcess
    /\ UNCHANGED <<ffi, dirs, begun, nodeDir, storeDir>>

ShellNext ==
    \/ BeginStart \/ StopNode \/ ResetDirectory \/ PanicWipe \/ ShellCrash
    \/ \E i \in Starts : OpenNode(i) \/ OpenStores(i) \/ PublishNode(i)
                         \/ RunnerEnds(i) \/ DispatcherLags(i)

ShellSpec == ShellInit /\ [][ShellNext]_shellVars

ShellTypeOK ==
    /\ ffi \in BOOLEAN /\ begun \in 0 .. MaxStarts
    /\ dirs \in [node : 1 .. MaxShellOps + 1, stores : 1 .. MaxShellOps + 1]
    /\ stage \in [Starts -> {"none", "begun", "node", "stores", "up", "failed"}]
    /\ {published} \ {0} \subseteq Starts
    /\ runners \cup aborted \cup wallets \cup dispatchers \cup abandoned \subseteq Starts

(* init_node, start_node: whatever is started, stopped, failed and started   *)
(* again, no database ever has two node loops, two dispatchers, or a        *)
(* published node beside another's dispatcher.  (A node stopped by stop_node *)
(* is therefore not started again before its dispatcher is gone.)            *)
DirectoryServedOnce ==
    /\ \A i, j \in runners : nodeDir[i] = nodeDir[j] => i = j
    /\ \A i, j \in dispatchers \cup ({published} \ {0}) : storeDir[i] = storeDir[j] => i = j

(* stop_node, start_node, panic_wipe: a node loop that no command reaches    *)
(* comes from a start that failed after spawning it, or from a state that    *)
(* was overwritten after a reset or dropped by half a wipe; a node that was  *)
(* stopped leaves none for good.                                             *)
StrayRunnersExplained ==
    \A i \in runners \ {published} :
        \/ stage[i] \in {"node", "stores", "failed"}
        \/ i \in aborted \cup abandoned
=============================================================================
