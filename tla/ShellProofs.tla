---------------------------- MODULE ShellProofs ----------------------------
(* For every number of starts: what Shell says of the databases and of the   *)
(* node loops left behind.  DirectoryServedOnce is not inductive, because a  *)
(* start that has the databases open and is not published yet, or a wallet   *)
(* that outlives its node, could share them: ShellInv extends it to every    *)
(* holder.  StrayRunnersExplained needs to know that a start that is still   *)
(* ahead of its node loop has none.                                          *)
EXTENDS Shell, TLAPS

Stage == {"none", "begun", "node", "stores", "up", "failed"}

ShellTypes ==
    /\ ffi \in BOOLEAN /\ begun \in Nat
    /\ dirs \in [node : Nat, stores : Nat]
    /\ stage \in [Starts -> Stage]
    /\ nodeDir \in [Starts -> Nat] /\ storeDir \in [Starts -> Nat]
    /\ runners \subseteq Starts /\ wallets \subseteq Starts /\ dispatchers \subseteq Starts
    /\ published \in Starts \cup {0}

OneRunnerEach == \A i, j \in runners : nodeDir[i] = nodeDir[j] => i = j
OneHolderEach == \A i, j \in StoreHolders : storeDir[i] = storeDir[j] => i = j
LaterStartsUntouched == \A i \in Starts : i > begun => stage[i] = "none"
RunnersStarted ==
    \A i \in runners :
        /\ stage[i] \notin {"none", "begun"}
        /\ stage[i] = "up" => i = published \/ i \in aborted \cup abandoned

ShellInv ==
    /\ ShellTypes /\ OneRunnerEach /\ OneHolderEach
    /\ LaterStartsUntouched /\ RunnersStarted

\* No start has happened yet.
LEMMA InitEstablishes == ShellInit => ShellInv
  BY StartsBounded DEF ShellInit, ShellInv, ShellTypes, Stage, OneRunnerEach, OneHolderEach,
     StoreHolders, LaterStartsUntouched, RunnersStarted, Starts

(* A step that leaves the databases' owners as they are or has fewer.        *)
LEMMA FewerHolders ==
  ASSUME OneHolderEach, StoreHolders' \subseteq StoreHolders, UNCHANGED storeDir
  PROVE  OneHolderEach'
  BY DEF OneHolderEach

\* A restart of the process drops every holder.
LEMMA NewProcessKeeps ==
  ASSUME ShellInv, NewProcess, dirs' \in [node : Nat, stores : Nat],
         UNCHANGED <<ffi, begun, nodeDir, storeDir>>
  PROVE  ShellInv'
  <1>1. StoreHolders' = {}
    BY DEF ShellInv, ShellTypes, NewProcess, StoreHolders, Starts
  <1>2. OneHolderEach' /\ OneRunnerEach' /\ RunnersStarted'
    BY <1>1 DEF OneHolderEach, OneRunnerEach, RunnersStarted, NewProcess
  <1>3. LaterStartsUntouched'
    BY StartsBounded DEF ShellInv, ShellTypes, LaterStartsUntouched, NewProcess, Starts
  <1>4. ShellTypes'
    BY DEF ShellInv, ShellTypes, NewProcess, Stage
  <1> QED BY <1>2, <1>3, <1>4 DEF ShellInv

\* Every step keeps the invariant.
LEMMA StepPreserves == ShellInv /\ [ShellNext]_shellVars => ShellInv'
  <1> SUFFICES ASSUME ShellInv, [ShellNext]_shellVars PROVE ShellInv'
    OBVIOUS
  <1> USE StartsBounded
  <1> USE DEF ShellInv, ShellTypes
  <1>1. CASE BeginStart
    <2>1. /\ begun + 1 \in Starts /\ begun + 1 \notin runners /\ begun + 1 > begun
      BY <1>1 DEF BeginStart, Starts, LaterStartsUntouched, RunnersStarted
    <2>2. ShellTypes'
      BY <1>1, <2>1 DEF BeginStart, Stage
    <2>3. StoreHolders' \subseteq StoreHolders
      BY <1>1, <2>1 DEF BeginStart, StoreHolders
    <2>4. OneHolderEach'
      BY <1>1, <2>3, FewerHolders DEF BeginStart
    <2>5. OneRunnerEach'
      BY <1>1 DEF BeginStart, OneRunnerEach
    <2>6. LaterStartsUntouched'
      BY <1>1, <2>1 DEF BeginStart, LaterStartsUntouched, Starts
    <2>7. RunnersStarted'
      BY <1>1, <2>1 DEF BeginStart, RunnersStarted
    <2> QED BY <2>2, <2>4, <2>5, <2>6, <2>7
  <1>2. ASSUME NEW i \in Starts, OpenNode(i) PROVE ShellInv'
    <2>1. ShellTypes'
      BY <1>2 DEF OpenNode, Fail, Stage
    <2>2. StoreHolders' \subseteq StoreHolders
      BY <1>2 DEF OpenNode, Fail, StoreHolders
    <2>3. OneHolderEach'
      BY <1>2, <2>2, FewerHolders DEF OpenNode
    <2>4. OneRunnerEach'
      BY <1>2 DEF OpenNode, NodeHeld, OneRunnerEach
    <2>5. LaterStartsUntouched'
      BY <1>2 DEF OpenNode, Fail, LaterStartsUntouched
    <2>6. RunnersStarted'
      BY <1>2 DEF OpenNode, Fail, RunnersStarted
    <2> QED BY <2>1, <2>3, <2>4, <2>5, <2>6
  <1>3. ASSUME NEW i \in Starts, OpenStores(i) PROVE ShellInv'
    <2>1. ShellTypes'
      BY <1>3 DEF OpenStores, Fail, Stage
    <2>2. OneHolderEach'
      <3>1. CASE Fail(i) /\ UNCHANGED storeDir
        <4>1. StoreHolders' \subseteq StoreHolders
          BY <1>3, <3>1 DEF OpenStores, Fail, StoreHolders
        <4> QED BY <4>1, <3>1, FewerHolders
      <3>2. CASE /\ ~StoresHeld
                 /\ stage' = [stage EXCEPT ![i] = "stores"]
                 /\ storeDir' = [storeDir EXCEPT ![i] = dirs.stores]
        <4>1. StoreHolders' \subseteq StoreHolders \cup {i}
          BY <1>3, <3>2 DEF OpenStores, StoreHolders
        <4>2. StoreHolders \subseteq Starts
          BY DEF StoreHolders
        <4>3. \A j \in StoreHolders : storeDir[j] # dirs.stores
          BY <3>2 DEF StoresHeld
        <4> QED BY <3>2, <4>1, <4>2, <4>3 DEF OneHolderEach
      <3> QED BY <1>3, <3>1, <3>2 DEF OpenStores
    <2>3. OneRunnerEach'
      BY <1>3 DEF OpenStores, OneRunnerEach
    <2>4. LaterStartsUntouched'
      BY <1>3 DEF OpenStores, Fail, LaterStartsUntouched
    <2>5. RunnersStarted'
      BY <1>3 DEF OpenStores, Fail, RunnersStarted
    <2> QED BY <2>1, <2>2, <2>3, <2>4, <2>5
  <1>4. ASSUME NEW i \in Starts, PublishNode(i) PROVE ShellInv'
    <2>1. ShellTypes'
      BY <1>4 DEF PublishNode, Fail, Stage
    <2>2. StoreHolders' \subseteq StoreHolders
      BY <1>4 DEF PublishNode, Fail, StoreHolders
    <2>3. OneHolderEach'
      BY <1>4, <2>2, FewerHolders DEF PublishNode
    <2>4. OneRunnerEach'
      BY <1>4 DEF PublishNode, OneRunnerEach
    <2>5. LaterStartsUntouched'
      BY <1>4 DEF PublishNode, Fail, LaterStartsUntouched
    <2>6. RunnersStarted'
      BY <1>4, SMTT(30) DEF PublishNode, Fail, RunnersStarted, Starts
    <2> QED BY <2>1, <2>3, <2>4, <2>5, <2>6
  <1>5. CASE StopNode
    <2>1. StoreHolders' \subseteq StoreHolders
      BY <1>5 DEF StopNode, StoreHolders
    <2>2. OneHolderEach'
      BY <1>5, <2>1, FewerHolders DEF StopNode
    <2>3. OneRunnerEach' /\ LaterStartsUntouched' /\ RunnersStarted' /\ ShellTypes'
      BY <1>5 DEF StopNode, OneRunnerEach, LaterStartsUntouched, RunnersStarted, Stage
    <2> QED BY <2>2, <2>3
  <1>6. ASSUME NEW i \in Starts, RunnerEnds(i) PROVE ShellInv'
    <2>1. StoreHolders' \subseteq StoreHolders
      BY <1>6 DEF RunnerEnds, StoreHolders
    <2>2. OneHolderEach'
      BY <1>6, <2>1, FewerHolders DEF RunnerEnds
    <2>3. OneRunnerEach' /\ LaterStartsUntouched' /\ RunnersStarted' /\ ShellTypes'
      BY <1>6 DEF RunnerEnds, OneRunnerEach, LaterStartsUntouched, RunnersStarted
    <2> QED BY <2>2, <2>3
  <1>7. ASSUME NEW i \in Starts, DispatcherLags(i) PROVE ShellInv'
    <2>1. StoreHolders' \subseteq StoreHolders
      BY <1>7 DEF DispatcherLags, StoreHolders
    <2>2. OneHolderEach'
      BY <1>7, <2>1, FewerHolders DEF DispatcherLags
    <2>3. OneRunnerEach' /\ LaterStartsUntouched' /\ RunnersStarted' /\ ShellTypes'
      BY <1>7 DEF DispatcherLags, OneRunnerEach, LaterStartsUntouched, RunnersStarted
    <2> QED BY <2>2, <2>3
  <1>8. Deleted \in [node : Nat, stores : Nat] /\ HalfDeleted \subseteq [node : Nat, stores : Nat]
    BY DEF Deleted, HalfDeleted
  <1>9. CASE ResetDirectory
    <2>1. StoreHolders' \subseteq StoreHolders
      BY <1>9 DEF ResetDirectory, StoreHolders
    <2>2. OneHolderEach'
      BY <1>9, <2>1, FewerHolders DEF ResetDirectory
    <2>3. OneRunnerEach' /\ LaterStartsUntouched' /\ RunnersStarted' /\ ShellTypes'
      BY <1>8, <1>9 DEF ResetDirectory, OneRunnerEach, LaterStartsUntouched, RunnersStarted
    <2> QED BY <2>2, <2>3
  <1>10. CASE PanicWipe
    <2>1. CASE NewProcess /\ dirs' = IF published = 0 THEN dirs ELSE Deleted
      BY <1>8, <1>10, <2>1, NewProcessKeeps DEF PanicWipe
    <2>2. CASE /\ published # 0
               /\ published' = 0
               /\ abandoned' = abandoned \cup {published}
               /\ dirs' \in HalfDeleted
               /\ UNCHANGED <<stage, runners, aborted, wallets, dispatchers>>
      <3>1. StoreHolders' \subseteq StoreHolders
        BY <2>2 DEF StoreHolders
      <3>2. OneHolderEach'
        BY <1>10, <3>1, FewerHolders DEF PanicWipe
      <3>3. OneRunnerEach' /\ LaterStartsUntouched' /\ RunnersStarted' /\ ShellTypes'
        BY <1>8, <1>10, <2>2
           DEF PanicWipe, OneRunnerEach, LaterStartsUntouched, RunnersStarted
      <3> QED BY <3>2, <3>3
    <2> QED BY <1>10, <2>1, <2>2 DEF PanicWipe
  <1>11. CASE ShellCrash
    BY <1>11, NewProcessKeeps DEF ShellCrash
  <1>12. CASE UNCHANGED shellVars
    <2>1. StoreHolders' = StoreHolders
      BY <1>12 DEF shellVars, StoreHolders
    <2> QED
      BY <1>12, <2>1 DEF shellVars, OneRunnerEach, OneHolderEach, LaterStartsUntouched, RunnersStarted
  <1> QED
    BY <1>1, <1>2, <1>3, <1>4, <1>5, <1>6, <1>7, <1>9, <1>10, <1>11, <1>12 DEF ShellNext

\* init_node, stop_node, start_node, reset_local_data: at any moment each node directory
\* has one runner, each store directory one holder, and a runner of a start that is up is
\* published, aborted or abandoned.
THEOREM ShellInvariant == ShellSpec => []ShellInv
  BY InitEstablishes, StepPreserves, PTL DEF ShellSpec

(* However often a node is started, stopped, failed, reset or wiped, no      *)
(* message store has two node loops and no application database two          *)
(* dispatchers (init_node, start_node).                                      *)
THEOREM ServedOnce == ShellSpec => []DirectoryServedOnce
  <1>1. ShellInv => DirectoryServedOnce
    BY DEF ShellInv, OneRunnerEach, OneHolderEach, StoreHolders, DirectoryServedOnce
  <1> QED BY <1>1, ShellInvariant, PTL

(* A node loop out of every command's reach is explained by a failed start,  *)
(* an abort under way, or a state overwritten or dropped without a stop      *)
(* (stop_node, start_node, panic_wipe).                                      *)
THEOREM StraysExplained == ShellSpec => []StrayRunnersExplained
  <1>1. ShellInv => StrayRunnersExplained
    BY DEF ShellInv, ShellTypes, Stage, RunnersStarted, StrayRunnersExplained
  <1> QED BY <1>1, ShellInvariant, PTL
=============================================================================
