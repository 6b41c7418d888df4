------------------------------- MODULE Vault -------------------------------
(* The secrets a device keeps at rest (at_rest.rs) and the loads that open,  *)
(* migrate or create them (secrets.rs).  Keys and secrets are abstract       *)
(* values; a sealed blob opens under the key it was sealed with, under no    *)
(* other.  A load is taken apart at its file operations, so that the process *)
(* can die between them.                                                     *)
EXTENDS Naturals, FiniteSets

CONSTANTS
    MaxSecret,      \* secrets of one name ever made (bound)
    MaxRingKey      \* keys the OS keyring ever held (bound)

ASSUME RingBounded == MaxRingKey \in Nat

VARIABLES
    keyed,          \* the shell was given a storage key (Android, servers)
    secret,         \* .secrets/<name>.enc
    legacy,         \* the plaintext secret of an old installation, 0 if none
    fileKey,        \* fallback_master.key exists
    ring,           \* the keyring's entry: its generation, 0 if there is none
    ringMade,       \* generations made so far
    ringUp,         \* the keyring answers
    load,           \* the load under way
    nextSecret,
    returned,       \* ghost: the secrets the loads have returned
    excused         \* ghost: a write was torn, or a blob's key was out of reach

vaultVars == <<keyed, secret, legacy, fileKey, ring, ringMade, ringUp, load,
               nextSecret, returned, excused>>

Name == {"enc", "identity"}
StorageKey == <<"storage", 0>>
FileKey == <<"file", 0>>
DerivedKey == <<"derived", 0>>
RingKey(g) == <<"ring", g>>
MasterKey == {StorageKey, FileKey, DerivedKey} \cup {RingKey(g) : g \in 1 .. MaxRingKey}

Sealed(k, v) == [key |-> k, value |-> v]
NoBlob == Sealed(<<"none", 0>>, 0)
Torn == Sealed(<<"torn", 0>>, 0)
NoLoad == [pc |-> "idle", name |-> "enc", master |-> DerivedKey, target |-> "enc", value |-> 0]

(* load_master_from_keyring: a keyring without an entry is given one. *)
RingAfter == IF ringUp /\ ring = 0 THEN ringMade + 1 ELSE ring
TouchRing ==
    /\ RingAfter <= MaxRingKey
    /\ ring' = RingAfter
    /\ ringMade' = IF RingAfter > ringMade THEN RingAfter ELSE ringMade

(* resolve_master_key: the explicit key, the keyring's, the file's, or none. *)
CanResolve(given) == given \/ ringUp \/ fileKey
ResolveMasterKey(given) ==
    IF given THEN StorageKey ELSE IF ringUp THEN RingKey(RingAfter) ELSE FileKey

\* Mutant: the key of the first releases is forgotten.
WithoutDerivedKey == {k \in {FileKey} : fileKey} \cup {k \in {RingKey(RingAfter)} : ringUp}

AlternateMasterKeys ==
    {DerivedKey} \cup {k \in {FileKey} : fileKey} \cup {k \in {RingKey(RingAfter)} : ringUp}

(* The keys an opening load gets at. *)
Reachable(given) ==
    {ResolveMasterKey(given), DerivedKey} \cup {k \in {FileKey} : fileKey}
        \cup {k \in {RingKey(RingAfter)} : ringUp}

VaultInit ==
    /\ keyed \in BOOLEAN /\ fileKey \in BOOLEAN /\ ringUp \in BOOLEAN
    /\ ring = 0 /\ ringMade = 0
    /\ load = NoLoad /\ nextSecret = 2 /\ excused = FALSE
    /\ \E origin \in {"new", "plain", "derived", "file"} :
        /\ origin = "file" => fileKey
        /\ returned = [n \in Name |-> IF origin = "new" THEN {} ELSE {1}]
        /\ legacy = [n \in Name |-> IF origin = "plain" THEN 1 ELSE 0]
        /\ secret = [n \in Name |->
                CASE origin = "derived" -> Sealed(DerivedKey, 1)
                  [] origin = "file" -> Sealed(FileKey, 1)
                  [] OTHER -> NoBlob]

-----------------------------------------------------------------------------
(* SecretVault::open; a vault without a master key is refused and nothing    *)
(* changes.  Starts pass the key they were given.                            *)
OpenVault(n, given) ==
    /\ load = NoLoad /\ nextSecret <= MaxSecret
    /\ CanResolve(given)
    /\ load' = [NoLoad EXCEPT !.pc = "migrate", !.name = n, !.master = ResolveMasterKey(given)]
    /\ IF given THEN UNCHANGED <<ring, ringMade>> ELSE TouchRing
    /\ excused' = (excused \/ \E m \in Name :
                        secret[m].key \in MasterKey \ Reachable(given))
    /\ UNCHANGED <<keyed, secret, legacy, fileKey, ringUp, nextSecret, returned>>

StartLoad(n) == OpenVault(n, keyed)

(* The wallet and the revocation command load the identity with the entry    *)
(* point that has no storage key, whatever the start was given.              *)
WalletLoad == OpenVault("identity", FALSE)

(* open_with_migration, one name after the other: a blob that an alternate   *)
(* key opens is sealed anew, one that no key opens is deleted.               *)
Proceed(l) == IF l.target = "enc" THEN [l EXCEPT !.target = "identity"]
              ELSE [l EXCEPT !.pc = "fetch", !.target = l.name]

Migrate ==
    LET b == secret[load.target]
        alternate == b.key \in AlternateMasterKeys \ {load.master}
    IN /\ load.pc = "migrate"
       /\ IF b = NoBlob \/ b.key = load.master
          THEN load' = Proceed(load) /\ UNCHANGED <<secret, ring, ringMade>>
          ELSE /\ TouchRing
               /\ secret' = [secret EXCEPT ![load.target] = IF alternate THEN Torn ELSE NoBlob]
               /\ load' = IF alternate THEN [load EXCEPT !.pc = "reseal", !.value = b.value]
                          ELSE Proceed(load)
       /\ UNCHANGED <<keyed, legacy, fileKey, ringUp, nextSecret, returned, excused>>

(* load_or_create_*: the stored secret, the legacy one, or a new one.  A     *)
(* write truncates the file first.                                           *)
Return(v) ==
    /\ returned' = [returned EXCEPT ![load.name] = @ \cup {v}]
    /\ load' = NoLoad

Fetch ==
    LET n == load.name IN
    /\ load.pc = "fetch"
    /\ \/ /\ secret[n] # NoBlob
          /\ Return(secret[n].value)
          /\ UNCHANGED <<secret, nextSecret>>
       \/ /\ secret[n] = NoBlob /\ legacy[n] # 0
          /\ secret' = [secret EXCEPT ![n] = Torn]
          /\ load' = [load EXCEPT !.pc = "adopt", !.value = legacy[n]]
          /\ UNCHANGED <<nextSecret, returned>>
       \/ /\ secret[n] = NoBlob /\ legacy[n] = 0
          /\ secret' = [secret EXCEPT ![n] = Torn]
          /\ load' = [load EXCEPT !.pc = "create", !.value = nextSecret]
          /\ nextSecret' = nextSecret + 1
          /\ UNCHANGED returned
    /\ UNCHANGED <<keyed, legacy, fileKey, ring, ringMade, ringUp, excused>>

WriteSecret ==
    /\ load.pc \in {"reseal", "adopt", "create"}
    /\ secret' = [secret EXCEPT ![load.target] = Sealed(load.master, load.value)]
    /\ IF load.pc = "create" THEN Return(load.value)
       ELSE /\ load' = IF load.pc = "reseal" THEN Proceed([load EXCEPT !.pc = "migrate"])
                       ELSE [load EXCEPT !.pc = "forget"]
            /\ UNCHANGED returned
    /\ UNCHANGED <<keyed, legacy, fileKey, ring, ringMade, ringUp, nextSecret, excused>>

RemoveLegacy ==
    /\ load.pc = "forget"
    /\ legacy' = [legacy EXCEPT ![load.name] = 0]
    /\ Return(load.value)
    /\ UNCHANGED <<keyed, secret, fileKey, ring, ringMade, ringUp, nextSecret, excused>>

-----------------------------------------------------------------------------
(* The process dies: what is on disk stays as it is. *)
Crash ==
    /\ load # NoLoad
    /\ load' = NoLoad
    /\ excused' = (excused \/ load.pc = "reseal")
    /\ UNCHANGED <<keyed, secret, legacy, fileKey, ring, ringMade, ringUp, nextSecret, returned>>

(* The keyring (external) stops and starts answering. *)
KeyringToggles ==
    /\ load = NoLoad
    /\ ringUp' = ~ringUp
    /\ UNCHANGED <<keyed, secret, legacy, fileKey, ring, ringMade, load, nextSecret,
                   returned, excused>>

(* reset_local_data: the directory and the keyring's entry are removed. *)
ResetLocalData ==
    /\ load = NoLoad /\ ~keyed
    /\ secret' = [n \in Name |-> NoBlob]
    /\ legacy' = [n \in Name |-> 0]
    /\ fileKey' = FALSE
    /\ ring' = IF ringUp THEN 0 ELSE ring
    /\ returned' = [n \in Name |-> {}]
    /\ excused' = FALSE
    /\ UNCHANGED <<keyed, ringMade, ringUp, load, nextSecret>>

VaultNext ==
    \/ \E n \in Name : StartLoad(n)
    \/ WalletLoad \/ Migrate \/ Fetch \/ WriteSecret \/ RemoveLegacy
    \/ Crash \/ KeyringToggles \/ ResetLocalData

VaultSpec == VaultInit /\ [][VaultNext]_vaultVars

-----------------------------------------------------------------------------
VaultTypeOK ==
    /\ secret \in [Name -> [key : MasterKey \cup {NoBlob.key, Torn.key}, value : 0 .. MaxSecret]]
    /\ legacy \in [Name -> 0 .. MaxSecret] /\ returned \in [Name -> SUBSET (1 .. MaxSecret)]
    /\ ring \in 0 .. ringMade /\ ringMade <= MaxRingKey
    /\ {keyed, fileKey, ringUp, excused} \subseteq BOOLEAN
    /\ load.pc \in {"idle", "migrate", "reseal", "fetch", "adopt", "create", "forget"}

(* A device keeps its identity and its encryption key: all loads return the  *)
(* same secret, across upgrades from plaintext or an older master key,       *)
(* keyring outages and crashes, unless a crash tore a write or a load was    *)
(* made that could not reach the key a blob was sealed with.                 *)
SecretsStable == \A n \in Name : Cardinality(returned[n]) > 1 => excused

(* The plaintext of an old installation is only removed once the vault holds *)
(* the same secret under the load's master key, wherever a crash falls       *)
(* (secrets.rs writes before it removes).                                    *)
LegacyOutlivesMigration ==
    [][\A n \in Name : legacy[n] # 0 /\ legacy'[n] = 0 /\ returned'[n] # {} =>
            secret[n] = Sealed(load.master, legacy[n])]_vaultVars
=============================================================================
