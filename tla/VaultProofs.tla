---------------------------- MODULE VaultProofs ----------------------------
(* For any number of loads, crashes, resets and keyring generations: a       *)
(* device keeps its secrets, and plaintext goes last.  What was returned is  *)
(* held by the blob, by the load that seals it anew, or still by the legacy  *)
(* file; Kept says which, VaultInv what a load knows at each of its steps.   *)
EXTENDS Vault, FiniteSetTheorems, TLAPS

Steps == {"idle", "migrate", "reseal", "fetch", "adopt", "create", "forget"}
Blob == [key : MasterKey \cup {NoBlob.key, Torn.key}, value : Nat]
Load == [pc : Steps, name : Name, master : MasterKey, target : Name, value : Nat]

VaultTypes ==
    /\ ring \in Nat /\ ringMade \in Nat /\ nextSecret \in Nat \ {0}
    /\ secret \in [Name -> Blob] /\ legacy \in [Name -> Nat]
    /\ returned \in [Name -> SUBSET Nat]
    /\ load \in Load

Known(n) == secret[n].key \in MasterKey
Open(n) == secret[n] = NoBlob \/ secret[n].key = load.master

\* What a load knows of the files and of its own value at each step.
LoadKnows ==
    /\ \A n \in Name : Known(n) => secret[n].value # 0
    /\ load.pc \in {"migrate", "reseal"} /\ load.target = "identity" => Open("enc")
    /\ load.pc = "fetch" => Open("enc") /\ Open("identity")
    /\ load.pc \in {"fetch", "adopt", "create", "forget"} => load.target = load.name
    /\ load.pc \in {"reseal", "adopt", "create"} => secret[load.target] = Torn /\ load.value # 0
    /\ load.pc \in {"adopt", "forget"} => load.value = legacy[load.name]
    /\ load.pc = "forget" =>
        secret[load.name] = Sealed(load.master, load.value) /\ load.value # 0

\* Unless a load could not reach a blob's key, the one under way can open every blob.
AllReached ==
    load.pc # "idle" /\ ~excused =>
        \A n \in Name : Known(n) => secret[n].key \in {load.master} \cup AlternateMasterKeys

Kept(n, v) ==
    \/ Known(n) /\ secret[n].value = v
    \/ load.pc = "reseal" /\ load.target = n /\ load.value = v
    \/ /\ ~Known(n) /\ legacy[n] = v
       /\ ~(load.pc = "reseal" /\ load.target = n)

ReturnedKept ==
    ~excused =>
        /\ load.pc = "create" => returned[load.name] = {}
        /\ \A n \in Name : \A v \in returned[n] :
            v # 0 /\ returned[n] = {v} /\ Kept(n, v)

VaultInv == VaultTypes /\ LoadKnows /\ AllReached /\ ReturnedKept

(*-------------------------------------------------------------------------*)
\* No blob and a torn one are under no master key, and no load is a load.
LEMMA KeysApart ==
  /\ NoBlob \in Blob /\ Torn \in Blob
  /\ NoBlob.key \notin MasterKey /\ Torn.key \notin MasterKey
  /\ NoLoad \in Load /\ NoLoad.pc = "idle" /\ NoLoad.target = "enc"
  /\ StorageKey \in MasterKey /\ FileKey \in MasterKey /\ DerivedKey \in MasterKey
  /\ \A g \in 1 .. MaxRingKey : RingKey(g) \in MasterKey
  BY DEF NoBlob, Torn, Sealed, MasterKey, StorageKey, FileKey, DerivedKey, RingKey, Blob,
     NoLoad, Load, Steps, Name

\* A sealed secret has its key and value.
LEMMA SealedFields ==
  ASSUME NEW k \in MasterKey, NEW v \in Nat
  PROVE  Sealed(k, v) \in Blob /\ Sealed(k, v).key = k /\ Sealed(k, v).value = v
  BY DEF Sealed, Blob

\* A key ring that answers has a key afterwards.
LEMMA RingAfterMakes ==
  ASSUME VaultTypes
  PROVE  RingAfter \in Nat /\ (ringUp => RingAfter # 0)
  BY DEF VaultTypes, RingAfter

(* The keyring's key is the same before and after an entry is made for it. *)
LEMMA RingSettled ==
  ASSUME VaultTypes, TouchRing \/ UNCHANGED <<ring, ringMade>>, UNCHANGED <<ringUp, fileKey>>
  PROVE  ring' \in Nat /\ ringMade' \in Nat /\ AlternateMasterKeys' = AlternateMasterKeys
  <1>1. ring' \in Nat /\ ringMade' \in Nat
    BY RingAfterMakes DEF VaultTypes, TouchRing
  <1>2. RingAfter' = RingAfter
    BY DEF VaultTypes, TouchRing, RingAfter
  <1> QED BY <1>1, <1>2 DEF AlternateMasterKeys

\* The alternate keys are master keys.
LEMMA AlternatesAreKeys ==
  ASSUME VaultTypes, RingAfter <= MaxRingKey
  PROVE  AlternateMasterKeys \subseteq MasterKey
  <1>1. ringUp => RingAfter \in 1 .. MaxRingKey
    BY RingAfterMakes, RingBounded
  <1> QED BY <1>1, KeysApart DEF AlternateMasterKeys

\* The key a load resolves is a master key.
LEMMA ResolvedIsKey ==
  ASSUME VaultTypes, NEW given, given \/ RingAfter <= MaxRingKey
  PROVE  ResolveMasterKey(given) \in MasterKey
  <1>1. ringUp /\ ~given => RingAfter \in 1 .. MaxRingKey
    BY RingAfterMakes, RingBounded
  <1> QED BY <1>1, KeysApart DEF ResolveMasterKey

\* The vault starts empty.
LEMMA VaultInitInv == VaultInit => VaultInv
  <1> SUFFICES ASSUME VaultInit PROVE VaultInv
    OBVIOUS
  <1>1. PICK origin \in {"new", "plain", "derived", "file"} :
          /\ returned = [n \in Name |-> IF origin = "new" THEN {} ELSE {1}]
          /\ legacy = [n \in Name |-> IF origin = "plain" THEN 1 ELSE 0]
          /\ secret = [n \in Name |->
                CASE origin = "derived" -> Sealed(DerivedKey, 1)
                  [] origin = "file" -> Sealed(FileKey, 1)
                  [] OTHER -> NoBlob]
    BY DEF VaultInit
  <1>2. load = NoLoad /\ load.pc = "idle" /\ ring = 0 /\ ringMade = 0 /\ nextSecret = 2
    BY KeysApart DEF VaultInit
  <1>3. VaultTypes
    BY <1>1, <1>2, KeysApart, SealedFields DEF VaultTypes
  <1>4. LoadKnows /\ AllReached
    BY <1>1, <1>2, KeysApart, SealedFields DEF LoadKnows, AllReached, Known
  <1>5. ReturnedKept
    BY <1>1, <1>2, KeysApart, SealedFields DEF ReturnedKept, Kept, Known
  <1> QED BY <1>3, <1>4, <1>5 DEF VaultInv

(*-------------------------------------------------------------------------*)
(* One lemma per step of a load.                                             *)
(*-------------------------------------------------------------------------*)
LEMMA OpenVaultKeeps ==
  ASSUME VaultInv, NEW n \in Name, NEW given, OpenVault(n, given)
  PROVE  VaultInv'
  <1> USE DEF VaultInv
  <1>1. given \/ RingAfter <= MaxRingKey
    BY DEF OpenVault, TouchRing
  <1> DEFINE m == ResolveMasterKey(given)
  <1>2. m \in MasterKey
    BY <1>1, ResolvedIsKey
  <1>3. /\ load.pc = "idle"
        /\ load' = [NoLoad EXCEPT !.pc = "migrate", !.name = n, !.master = m]
    BY KeysApart DEF OpenVault
  <1>4. /\ load' \in Load /\ load'.pc = "migrate" /\ load'.target = "enc" /\ load'.master = m
    BY <1>2, <1>3, KeysApart, Zenon DEF Load, Steps
  <1>5. /\ ring' \in Nat /\ ringMade' \in Nat /\ AlternateMasterKeys' = AlternateMasterKeys
    BY RingSettled DEF OpenVault
  <1>6. UNCHANGED <<secret, legacy, nextSecret, returned>>
    BY DEF OpenVault
  <1>7. Reachable(given) = {m} \cup AlternateMasterKeys
    BY DEF Reachable, AlternateMasterKeys
  <1>8. ~excused' => ~excused /\ \A i \in Name : Known(i) => secret[i].key \in Reachable(given)
    BY Zenon DEF OpenVault, Known
  <1> HIDE DEF m
  <1>9. VaultTypes'
    BY <1>4, <1>5, <1>6 DEF VaultTypes
  <1>10. LoadKnows'
    BY <1>4, <1>6 DEF LoadKnows, Known, Open
  <1>11. AllReached'
    BY <1>4, <1>5, <1>6, <1>7, <1>8 DEF AllReached, Known
  <1>12. ReturnedKept'
    BY <1>3, <1>4, <1>6, <1>8 DEF ReturnedKept, Kept, Known
  <1> QED BY <1>9, <1>10, <1>11, <1>12

(* Going on to the next name, or to the fetch, with both files seen to. *)
LEMMA ProceedFields ==
  ASSUME NEW l \in Load
  PROVE  LET next == Proceed(l) IN
         /\ l.pc \in {"migrate", "reseal"} => next \in Load
         /\ next.name = l.name /\ next.master = l.master /\ next.value = l.value
         /\ l.target = "enc" => next.target = "identity" /\ next.pc = l.pc
         /\ l.target # "enc" => next.target = l.name /\ next.pc = "fetch"
  BY Zenon DEF Proceed, Load, Steps, Name

\* Migration of one blob keeps the invariant.
LEMMA MigrateKeeps ==
  ASSUME VaultInv, Migrate
  PROVE  VaultInv'
  <1> USE DEF VaultInv
  <1>0. PICK t \in Name : t = load.target
    BY DEF VaultTypes, Load
  <1> DEFINE b == secret[t]
             next == Proceed(load)
             alternate == b.key \in AlternateMasterKeys \ {load.master}
  <1>1. load.pc = "migrate" /\ load \in Load /\ load.target = t /\ b \in Blob
    BY <1>0 DEF Migrate, VaultTypes, Load
  <1>2. /\ ring' \in Nat /\ ringMade' \in Nat /\ AlternateMasterKeys' = AlternateMasterKeys
    BY RingSettled DEF Migrate
  <1>3. UNCHANGED <<legacy, nextSecret, returned, excused>>
    BY DEF Migrate
  <1>4. /\ next \in Load /\ next.name = load.name /\ next.master = load.master
        /\ t = "enc" => next.target = "identity" /\ next.pc = "migrate"
        /\ t # "enc" => next.target = load.name /\ next.pc = "fetch"
    BY <1>1, ProceedFields
  <1>5. t # "enc" => t = "identity"
    BY <1>1 DEF Name
  <1>6. CASE b = NoBlob \/ b.key = load.master
    <2>1. load' = next /\ secret' = secret
      BY <1>1, <1>6 DEF Migrate
    <2>2. Open(t)
      BY <1>6 DEF Open
    <2> HIDE DEF next
    <2>3. VaultTypes'
      BY <1>2, <1>3, <1>4, <2>1 DEF VaultTypes
    <2>4. LoadKnows'
      BY <1>1, <1>4, <1>5, <2>1, <2>2 DEF LoadKnows, Known, Open
    <2>5. AllReached'
      BY <1>1, <1>2, <1>3, <1>4, <2>1 DEF AllReached, Known
    <2>6. ReturnedKept'
      BY <1>1, <1>3, <1>4, <2>1 DEF ReturnedKept, Kept, Known
    <2> QED BY <2>3, <2>4, <2>5, <2>6
  <1>7. CASE ~(b = NoBlob \/ b.key = load.master) /\ alternate
    <2>1. /\ TouchRing
          /\ secret' = [secret EXCEPT ![t] = Torn]
          /\ load' = [load EXCEPT !.pc = "reseal", !.value = b.value]
      BY <1>1, <1>7 DEF Migrate
    <2>2. Known(t)
      BY <1>7, <2>1, AlternatesAreKeys DEF Known, TouchRing
    <2>3. /\ load' \in Load /\ load'.pc = "reseal" /\ load'.target = t /\ load'.value = b.value
          /\ load'.master = load.master /\ load'.name = load.name
      BY <1>1, <2>1, Zenon DEF Load, Steps, Blob
    <2>4. /\ secret' \in [Name -> Blob] /\ secret'[t] = Torn
          /\ \A n \in Name \ {t} : secret'[n] = secret[n]
      BY <1>1, <2>1, KeysApart DEF VaultTypes
    <2>5. ~Known(t)' /\ \A n \in Name \ {t} : Known(n)' <=> Known(n)
      BY <2>3, <2>4, KeysApart DEF Known
    <2>6. VaultTypes'
      BY <1>2, <1>3, <2>3, <2>4 DEF VaultTypes
    <2>7. LoadKnows'
      BY <1>1, <1>5, <2>2, <2>3, <2>4, <2>5 DEF LoadKnows, Open, Name
    <2>8. AllReached'
      BY <1>1, <1>2, <1>3, <2>3, <2>4, <2>5 DEF AllReached
    <2>9. ReturnedKept'
      BY <1>1, <1>3, <2>2, <2>3, <2>4, <2>5 DEF ReturnedKept, Kept
    <2> QED BY <2>6, <2>7, <2>8, <2>9
  <1>8. CASE ~(b = NoBlob \/ b.key = load.master) /\ ~alternate
    <2>1. load' = next /\ secret' = [secret EXCEPT ![t] = NoBlob]
      BY <1>1, <1>8 DEF Migrate
    <2>2. ~excused => ~Known(t)
      BY <1>1, <1>8 DEF AllReached, Known
    <2>3. /\ secret' \in [Name -> Blob] /\ secret'[t] = NoBlob
          /\ \A n \in Name \ {t} : secret'[n] = secret[n]
      BY <1>1, <2>1, KeysApart DEF VaultTypes
    <2>4. ~Known(t)' /\ \A n \in Name \ {t} : Known(n)' <=> Known(n)
      BY <1>1, <2>3, KeysApart DEF Known
    <2> HIDE DEF next
    <2>5. VaultTypes'
      BY <1>2, <1>3, <1>4, <2>1, <2>3 DEF VaultTypes
    <2>6. LoadKnows'
      BY <1>1, <1>4, <1>5, <2>1, <2>3, <2>4 DEF LoadKnows, Open, Name
    <2>7. AllReached'
      BY <1>1, <1>2, <1>3, <1>4, <2>1, <2>3, <2>4 DEF AllReached
    <2>8. ReturnedKept'
      BY <1>1, <1>3, <1>4, <2>1, <2>2, <2>3, <2>4 DEF ReturnedKept, Kept
    <2> QED BY <2>5, <2>6, <2>7, <2>8
  <1> QED BY <1>6, <1>7, <1>8

\* Reading the secret keeps the invariant.
LEMMA FetchKeeps ==
  ASSUME VaultInv, Fetch
  PROVE  VaultInv'
  <1> USE DEF VaultInv
  <1>0. PICK n \in Name : n = load.name
    BY DEF VaultTypes, Load
  <1>1. /\ load.pc = "fetch" /\ load \in Load /\ load.name = n /\ load.target = n
        /\ Open(n)
    BY <1>0 DEF Fetch, VaultTypes, Load, LoadKnows, Name
  <1>2. UNCHANGED <<legacy, ring, ringMade, excused, AlternateMasterKeys>>
    BY DEF Fetch, AlternateMasterKeys, RingAfter
  <1>3. CASE /\ secret[n] # NoBlob
             /\ Return(secret[n].value)
             /\ UNCHANGED <<secret, nextSecret>>
    <2>1. Known(n) /\ secret[n].value # 0 /\ secret[n].value \in Nat
      BY <1>1, <1>3 DEF Open, Known, VaultTypes, Load, LoadKnows, Blob
    <2>2. /\ load' = NoLoad /\ load'.pc = "idle" /\ load' \in Load
          /\ returned' = [returned EXCEPT ![n] = @ \cup {secret[n].value}]
      BY <1>1, <1>3, KeysApart DEF Return
    <2>3. VaultTypes'
      BY <1>1, <1>2, <1>3, <2>1, <2>2 DEF VaultTypes
    <2>4. LoadKnows' /\ AllReached'
      BY <1>3, <2>2 DEF LoadKnows, AllReached, Known
    <2>5. ReturnedKept'
      BY <1>1, <1>2, <1>3, <2>1, <2>2 DEF ReturnedKept, Kept, Known, VaultTypes
    <2> QED BY <2>3, <2>4, <2>5
  <1>4. ASSUME NEW pc \in {"adopt", "create"}, NEW v \in Nat \ {0},
               secret[n] = NoBlob,
               secret' = [secret EXCEPT ![n] = Torn],
               load' = [load EXCEPT !.pc = pc, !.value = v],
               nextSecret' \in Nat \ {0}, UNCHANGED returned,
               pc = "adopt" => v = legacy[n],
               pc = "create" => legacy[n] = 0
        PROVE  VaultInv'
    <2>1. /\ load' \in Load /\ load'.pc = pc /\ load'.target = n /\ load'.name = n
          /\ load'.value = v /\ load'.master = load.master
      BY <1>1, <1>4, Zenon DEF Load, Steps
    <2>2. /\ secret' \in [Name -> Blob] /\ secret'[n] = Torn
          /\ \A i \in Name \ {n} : secret'[i] = secret[i]
      BY <1>1, <1>4, KeysApart DEF VaultTypes
    <2>3. ~Known(n) /\ ~Known(n)' /\ \A i \in Name \ {n} : Known(i)' <=> Known(i)
      BY <1>1, <1>4, <2>1, <2>2, KeysApart DEF Known
    <2>4. VaultTypes'
      BY <1>2, <1>4, <2>1, <2>2 DEF VaultTypes
    <2>5. LoadKnows'
      BY <1>1, <1>2, <1>4, <2>1, <2>2, <2>3 DEF LoadKnows
    <2>6. AllReached'
      BY <1>1, <1>2, <2>1, <2>2, <2>3 DEF AllReached
    <2>7. ReturnedKept'
      BY <1>1, <1>2, <1>4, <2>1, <2>2, <2>3 DEF ReturnedKept, Kept, VaultTypes
    <2> QED BY <2>4, <2>5, <2>6, <2>7
  <1>5. CASE /\ secret[n] = NoBlob /\ legacy[n] # 0
             /\ secret' = [secret EXCEPT ![n] = Torn]
             /\ load' = [load EXCEPT !.pc = "adopt", !.value = legacy[n]]
             /\ UNCHANGED <<nextSecret, returned>>
    <2>1. legacy[n] \in Nat \ {0} /\ nextSecret' \in Nat \ {0}
      BY <1>1, <1>5 DEF VaultTypes
    <2> QED BY <1>4, <1>5, <2>1, Zenon
  <1>6. CASE /\ secret[n] = NoBlob /\ legacy[n] = 0
             /\ secret' = [secret EXCEPT ![n] = Torn]
             /\ load' = [load EXCEPT !.pc = "create", !.value = nextSecret]
             /\ nextSecret' = nextSecret + 1
             /\ UNCHANGED returned
    <2>1. nextSecret \in Nat \ {0} /\ nextSecret' \in Nat \ {0}
      BY <1>6 DEF VaultTypes
    <2> QED BY <1>4, <1>6, <2>1, Zenon
  <1> QED BY <1>1, <1>3, <1>5, <1>6 DEF Fetch

\* Writing a secret, torn or whole, keeps the invariant.
LEMMA WriteSecretKeeps ==
  ASSUME VaultInv, WriteSecret
  PROVE  VaultInv'
  <1> USE DEF VaultInv
  <1>0. PICK t \in Name : t = load.target
    BY DEF VaultTypes, Load
  <1>1. /\ load.pc \in {"reseal", "adopt", "create"} /\ load \in Load /\ load.target = t
        /\ secret[t] = Torn /\ load.value \in Nat \ {0} /\ load.master \in MasterKey
        /\ load.pc \in {"adopt", "create"} => load.name = t
    BY <1>0 DEF WriteSecret, VaultTypes, Load, LoadKnows
  <1>2. UNCHANGED <<legacy, ring, ringMade, nextSecret, excused, AlternateMasterKeys>>
    BY DEF WriteSecret, AlternateMasterKeys, RingAfter
  <1>3. /\ secret' \in [Name -> Blob] /\ secret'[t] = Sealed(load.master, load.value)
        /\ secret'[t].key = load.master /\ secret'[t].value = load.value
        /\ \A n \in Name \ {t} : secret'[n] = secret[n]
    BY <1>1, SealedFields DEF WriteSecret, VaultTypes
  <1>4. ~Known(t) /\ Known(t)' /\ \A n \in Name \ {t} : Known(n)' <=> Known(n)
    BY <1>1, <1>3, KeysApart DEF Known
  <1>5. CASE load.pc = "create"
    <2>1. /\ load' = NoLoad /\ load' \in Load /\ load'.pc = "idle"
          /\ returned' = [returned EXCEPT ![t] = @ \cup {load.value}]
      BY <1>1, <1>5, KeysApart DEF WriteSecret, Return
    <2>2. VaultTypes'
      BY <1>1, <1>2, <1>3, <2>1 DEF VaultTypes
    <2>3. LoadKnows' /\ AllReached'
      BY <1>1, <1>3, <1>4, <2>1 DEF LoadKnows, AllReached
    <2>4. ReturnedKept'
      BY <1>1, <1>2, <1>3, <1>4, <1>5, <2>1 DEF ReturnedKept, Kept, VaultTypes
    <2> QED BY <2>2, <2>3, <2>4
  <1>6. CASE load.pc = "adopt"
    <2>1. load' = [load EXCEPT !.pc = "forget"] /\ UNCHANGED returned
      BY <1>6 DEF WriteSecret
    <2>2. /\ load' \in Load /\ load'.pc = "forget" /\ load'.target = t /\ load'.name = t
          /\ load'.value = load.value /\ load'.master = load.master
      BY <1>1, <1>6, <2>1 DEF Load, Steps
    <2>3. load.value = legacy[t]
      BY <1>1, <1>6 DEF LoadKnows
    <2>4. VaultTypes'
      BY <1>2, <1>3, <2>1, <2>2 DEF VaultTypes
    <2>5. LoadKnows'
      BY <1>1, <1>2, <1>3, <1>4, <2>2, <2>3 DEF LoadKnows
    <2>6. AllReached'
      BY <1>1, <1>2, <1>3, <1>4, <2>2 DEF AllReached
    <2>7. ReturnedKept'
      BY <1>1, <1>2, <1>3, <1>4, <1>6, <2>1, <2>2, <2>3 DEF ReturnedKept, Kept
    <2> QED BY <2>4, <2>5, <2>6, <2>7
  <1>7. CASE load.pc = "reseal"
    <2> DEFINE before == [load EXCEPT !.pc = "migrate"]
               next == Proceed(before)
    <2>1. load' = next /\ UNCHANGED returned
      BY <1>7 DEF WriteSecret
    <2>2. /\ before \in Load /\ before.pc = "migrate" /\ before.target = t
          /\ before.master = load.master /\ before.name = load.name
      BY <1>1 DEF Load, Steps
    <2> HIDE DEF before
    <2>3. /\ next \in Load /\ next.master = load.master
          /\ t = "enc" => next.target = "identity" /\ next.pc = "migrate"
          /\ t # "enc" => next.target = next.name /\ next.pc = "fetch"
      BY <2>2, ProceedFields
    <2>4. t # "enc" => t = "identity"
      BY DEF Name
    <2>5. t # "enc" => Open("enc")
      BY <1>1, <1>7, <2>4 DEF LoadKnows
    <2> HIDE DEF next
    <2>6. Open(t)' /\ (t # "enc" => Open("enc")')
      BY <1>3, <2>1, <2>3, <2>5 DEF Open, Name
    <2>7. VaultTypes'
      BY <1>2, <1>3, <2>1, <2>3 DEF VaultTypes
    <2>8. LoadKnows'
      BY <1>1, <1>3, <1>4, <2>1, <2>3, <2>4, <2>6 DEF LoadKnows
    <2>9. AllReached'
      BY <1>1, <1>2, <1>3, <1>4, <2>1, <2>3 DEF AllReached
    <2>10. ReturnedKept'
      BY <1>1, <1>2, <1>3, <1>4, <1>7, <2>1, <2>3 DEF ReturnedKept, Kept
    <2> QED BY <2>7, <2>8, <2>9, <2>10
  <1> QED BY <1>1, <1>5, <1>6, <1>7

\* Removing the plaintext file keeps the invariant.
LEMMA RemoveLegacyKeeps ==
  ASSUME VaultInv, RemoveLegacy
  PROVE  VaultInv'
  <1> USE DEF VaultInv
  <1>0. PICK n \in Name : n = load.name
    BY DEF VaultTypes, Load
  <1>1. /\ load.pc = "forget" /\ load \in Load /\ load.master \in MasterKey
        /\ load.value \in Nat \ {0} /\ secret[n] = Sealed(load.master, load.value)
    BY <1>0 DEF RemoveLegacy, VaultTypes, Load, LoadKnows
  <1>2. Known(n) /\ secret[n].value = load.value
    BY <1>1, SealedFields DEF Known
  <1>3. /\ load' = NoLoad /\ load' \in Load /\ load'.pc = "idle"
        /\ returned' = [returned EXCEPT ![n] = @ \cup {load.value}]
        /\ legacy' = [legacy EXCEPT ![n] = 0]
        /\ UNCHANGED <<secret, ring, ringMade, nextSecret, excused>>
    BY <1>0, KeysApart DEF RemoveLegacy, Return
  <1>4. VaultTypes'
    BY <1>1, <1>3 DEF VaultTypes
  <1>5. LoadKnows' /\ AllReached'
    BY <1>3 DEF LoadKnows, AllReached, Known
  <1>6. ReturnedKept'
    BY <1>1, <1>2, <1>3 DEF ReturnedKept, Kept, Known, VaultTypes
  <1> QED BY <1>4, <1>5, <1>6

\* A crash in mid-load keeps the invariant.
LEMMA CrashKeeps ==
  ASSUME VaultInv, Crash
  PROVE  VaultInv'
  <1> USE DEF VaultInv
  <1>1. /\ load' = NoLoad /\ load' \in Load /\ load'.pc = "idle"
        /\ UNCHANGED <<secret, legacy, ring, ringMade, nextSecret, returned>>
    BY KeysApart DEF Crash
  <1>2. ~excused' => ~excused /\ load.pc # "reseal"
    BY Zenon DEF Crash
  <1>3. VaultTypes'
    BY <1>1 DEF VaultTypes
  <1>4. LoadKnows' /\ AllReached'
    BY <1>1 DEF LoadKnows, AllReached, Known
  <1>5. ReturnedKept'
    BY <1>1, <1>2 DEF ReturnedKept, Kept, Known
  <1> QED BY <1>3, <1>4, <1>5

\* reset_local_data keeps the invariant.
LEMMA ResetKeeps ==
  ASSUME VaultInv, ResetLocalData
  PROVE  VaultInv'
  <1> USE DEF VaultInv
  <1>1. /\ load' = load /\ load.pc = "idle" /\ load \in Load
        /\ secret' = [n \in Name |-> NoBlob] /\ legacy' = [n \in Name |-> 0]
        /\ returned' = [n \in Name |-> {}]
        /\ UNCHANGED <<ringMade, nextSecret>>
    BY KeysApart DEF ResetLocalData
  <1>2. ring' \in Nat
    BY DEF ResetLocalData, VaultTypes
  <1>3. VaultTypes'
    BY <1>1, <1>2, KeysApart DEF VaultTypes
  <1>4. LoadKnows' /\ AllReached'
    BY <1>1, KeysApart DEF LoadKnows, AllReached, Known
  <1>5. ReturnedKept'
    BY <1>1 DEF ReturnedKept
  <1> QED BY <1>3, <1>4, <1>5

\* Every step keeps the invariant.
LEMMA VaultStep == VaultInv /\ [VaultNext]_vaultVars => VaultInv'
  <1> SUFFICES ASSUME VaultInv, [VaultNext]_vaultVars PROVE VaultInv'
    OBVIOUS
  <1>1. ASSUME NEW n \in Name, StartLoad(n) PROVE VaultInv'
    BY <1>1, OpenVaultKeeps DEF StartLoad
  <1>2. CASE WalletLoad
    BY <1>2, OpenVaultKeeps, Zenon DEF WalletLoad, Name
  <1>3. CASE Migrate \/ Fetch \/ WriteSecret \/ RemoveLegacy \/ Crash \/ ResetLocalData
    BY <1>3, MigrateKeeps, FetchKeeps, WriteSecretKeeps, RemoveLegacyKeeps, CrashKeeps, ResetKeeps
  <1>4. CASE KeyringToggles \/ UNCHANGED vaultVars
    <2>1. UNCHANGED <<secret, legacy, ring, ringMade, load, nextSecret, returned, excused>>
      BY <1>4 DEF KeyringToggles, vaultVars
    <2>2. load.pc # "idle" => UNCHANGED AlternateMasterKeys
      BY <1>4, KeysApart DEF KeyringToggles, vaultVars, AlternateMasterKeys, RingAfter
    <2> QED BY <2>1, <2>2, SMTT(30)
      DEF VaultInv, VaultTypes, LoadKnows, AllReached, ReturnedKept, Kept, Known, Open
  <1> QED BY <1>1, <1>2, <1>3, <1>4 DEF VaultNext

\* open_with_migration, load_or_create_keypair: unless a write was torn or a key not
\* reached, a secret that was handed out is on disk, in the hand of the load that seals it
\* anew, or still in its legacy file, at every step of a load and after every crash.
THEOREM VaultInvariant == VaultSpec => []VaultInv
  BY VaultInitInv, VaultStep, PTL DEF VaultSpec

(* Unless a write was torn or a blob's key was out of reach, every load of a *)
(* name returns the same secret (load_or_create_* and open_with_migration).  *)
THEOREM SecretsAreStable == VaultSpec => []SecretsStable
  <1>1. VaultInv => SecretsStable
    <2> SUFFICES ASSUME VaultInv, ~excused, NEW n \in Name
                 PROVE  ~(Cardinality(returned[n]) > 1)
      BY DEF SecretsStable
    <2>1. CASE returned[n] = {}
      BY <2>1, FS_EmptySet
    <2>2. CASE \E v \in returned[n] : TRUE
      <3>1. PICK v : returned[n] = {v}
        BY <2>2 DEF VaultInv, ReturnedKept
      <3>2. Cardinality({v}) = 1
        BY FS_Singleton, SMTT(30)
      <3> QED BY <3>1, <3>2
    <2> QED BY <2>1, <2>2
  <1> QED BY <1>1, VaultInvariant, PTL

(* The plaintext of an old installation is removed only when the vault holds *)
(* the same secret under the load's master key (secrets.rs).                 *)
THEOREM LegacyGoesLast == VaultSpec => LegacyOutlivesMigration
  <1> DEFINE Outlives ==
       \A n \in Name : legacy[n] # 0 /\ legacy'[n] = 0 /\ returned'[n] # {} =>
            secret[n] = Sealed(load.master, legacy[n])
  <1>1. VaultInv /\ [VaultNext]_vaultVars => [Outlives]_vaultVars
    <2> SUFFICES ASSUME VaultInv, VaultNext, NEW n \in Name,
                        legacy[n] # 0, legacy'[n] = 0, returned'[n] # {}
                 PROVE  secret[n] = Sealed(load.master, legacy[n])
      OBVIOUS
    <2>1. CASE RemoveLegacy
      <3>1. load.pc = "forget" /\ legacy' = [legacy EXCEPT ![load.name] = 0]
        BY <2>1 DEF RemoveLegacy
      <3>2. n = load.name
        BY <3>1 DEF VaultInv, VaultTypes
      <3> QED BY <3>1, <3>2 DEF VaultInv, LoadKnows
    <2>2. CASE ResetLocalData
      BY <2>2 DEF ResetLocalData
    <2>3. CASE UNCHANGED legacy
      BY <2>3
    <2> QED
      BY <2>1, <2>2, <2>3, Zenon DEF VaultNext, StartLoad, WalletLoad, OpenVault, Migrate, Fetch,
         WriteSecret, Crash, KeyringToggles
  <1> QED BY <1>1, VaultInvariant, PTL DEF VaultSpec, LegacyOutlivesMigration
=============================================================================
