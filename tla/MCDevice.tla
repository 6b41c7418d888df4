------------------------------ MODULE MCDevice ------------------------------
(* The components of a device that share no state with each other, explored  *)
(* in one run: the initial state chooses the component that moves, the       *)
(* others rest in an initial state of theirs.                                *)
EXTENDS Vault, MiniApps, Bridge, Scopes, Inbox, Proximity, DialList, Shell, Simulator

VARIABLE part

deviceVars == <<part, vaultVars, storeVars, bridgeVars, scopeVars, inboxVars, proxVars, dialVars,
                shellVars, simVars>>

DeviceInit ==
    /\ part \in {"vault", "miniapps", "bridge", "scopes", "inbox", "proximity", "dial", "shell",
                 "simulator"}
    /\ VaultInit /\ MiniAppsInit /\ BridgeInit /\ ScopesInit /\ InboxInit /\ ProximityInit
    /\ DialInit /\ ShellInit /\ SimInit
    /\ part # "vault" => ~keyed /\ ~fileKey /\ ~ringUp /\ \A n \in Name : returned[n] = {}
    /\ part # "bridge" => caps = {}
    /\ part # "shell" => ffi
    /\ part # "simulator" => \A p \in Pairs : simLinks[p] = NoLink

VaultStep ==
    /\ part = "vault" /\ VaultNext
    /\ UNCHANGED <<part, storeVars, bridgeVars, scopeVars, inboxVars, proxVars, dialVars, shellVars, simVars>>

MiniAppsStep ==
    /\ part = "miniapps" /\ MiniAppsNext
    /\ UNCHANGED <<part, vaultVars, bridgeVars, scopeVars, inboxVars, proxVars, dialVars, shellVars, simVars>>

BridgeStep ==
    /\ part = "bridge" /\ BridgeNext
    /\ UNCHANGED <<part, vaultVars, storeVars, scopeVars, inboxVars, proxVars, dialVars, shellVars, simVars>>

ScopesStep ==
    /\ part = "scopes" /\ ScopesNext
    /\ UNCHANGED <<part, vaultVars, storeVars, bridgeVars, inboxVars, proxVars, dialVars, shellVars, simVars>>

InboxStep ==
    /\ part = "inbox" /\ InboxNext
    /\ UNCHANGED <<part, vaultVars, storeVars, bridgeVars, scopeVars, proxVars, dialVars, shellVars, simVars>>

ProximityStep ==
    /\ part = "proximity" /\ ProximityNext
    /\ UNCHANGED <<part, vaultVars, storeVars, bridgeVars, scopeVars, inboxVars, dialVars, shellVars, simVars>>

DialStep ==
    /\ part = "dial" /\ DialNext
    /\ UNCHANGED <<part, vaultVars, storeVars, bridgeVars, scopeVars, inboxVars, proxVars, shellVars, simVars>>

ShellStep ==
    /\ part = "shell" /\ ShellNext
    /\ UNCHANGED <<part, vaultVars, storeVars, bridgeVars, scopeVars, inboxVars, proxVars, dialVars, simVars>>

SimStep ==
    /\ part = "simulator" /\ SimNext
    /\ UNCHANGED <<part, vaultVars, storeVars, bridgeVars, scopeVars, inboxVars, proxVars, dialVars, shellVars>>

DeviceNext ==
    \/ VaultStep \/ MiniAppsStep \/ BridgeStep \/ ScopesStep \/ InboxStep \/ ProximityStep
    \/ DialStep \/ ShellStep \/ SimStep

DeviceSpec == DeviceInit /\ [][DeviceNext]_deviceVars

(* The type invariants of the nine modules: every database, table, queue and *)
(* counter of the component that moves keeps its shape and its bounds.       *)
DeviceTypeOK ==
    CASE part = "vault" -> VaultTypeOK
      [] part = "miniapps" -> MiniAppsTypeOK
      [] part = "bridge" -> BridgeTypeOK
      [] part = "scopes" -> ScopesTypeOK
      [] part = "inbox" -> InboxTypeOK
      [] part = "proximity" -> ProximityTypeOK
      [] part = "dial" -> DialTypeOK
      [] part = "shell" -> ShellTypeOK
      [] part = "simulator" -> SimTypeOK
=============================================================================
