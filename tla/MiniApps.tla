------------------------------ MODULE MiniApps ------------------------------
(* The mini-app store of one device: listings, the install policy, the       *)
(* revocation snapshot, reputation and safe mode (miniapp/store.rs,          *)
(* install_policy.rs, revocation.rs, reputation.rs, bundled_listings.rs,     *)
(* prefs.rs).  Two tasks reach the store, the user's commands and the        *)
(* dispatch of incoming messages, and nothing locks it: an operation is      *)
(* taken apart at its database writes, and a read-modify-write at its read.  *)
(* A bundle is its version and whether its developer signed it; a hash is    *)
(* the bundle itself.                                                        *)
EXTENDS Integers, FiniteSets

CONSTANTS
    App,
    Official,       \* the app whose listing and bundle ship with the program
    MaxStoreOps     \* operations begun (bound)

ASSUME OfficialApp == Official \in App

VARIABLES
    installed,      \* installed_apps: the manifest's version, 0 if none
    files,          \* app_files:<id>: the version each file came with, 0 if none
    listing,        \* app_listings
    revoked,        \* the revocation snapshot
    score,          \* reputation
    userSafe,       \* the user's safe-mode preference
    task,           \* what each task is doing
    storeOps,
    broken,         \* ghost: apps whose install the process died in
    hit,            \* ghost: apps hit since the snapshot names them without a break
    overlapped      \* ghost: apps with a score written from a stale read

storeVars == <<installed, files, listing, revoked, score, userSafe, task, storeOps,
               broken, hit, overlapped>>

Task == {"command", "dispatch"}
Path == {"entry", "extra"}
FilesOf(version) == IF version = 1 THEN Path ELSE {"entry"}
Bundle == [app : App, version : 1 .. 2, signed : BOOLEAN]
Listing == [bundle : Bundle, updated : 1 .. 2, signatureOk : BOOLEAN]
Listings(a) == {l \in Listing : l.bundle.app = a}
NoListing == [bundle |-> [app |-> Official, version |-> 1, signed |-> FALSE],
              updated |-> 0, signatureOk |-> FALSE]
OfficialBundle == [app |-> Official, version |-> 1, signed |-> FALSE]
BundledListing == [bundle |-> OfficialBundle, updated |-> 1, signatureOk |-> TRUE]
Level == {"VerifiedListing", "MatchingListingHash", "SideloadOnly", "HashMismatch"}
Idle == [pc |-> "idle", app |-> Official, version |-> 0, todo |-> {}, delta |-> 0,
         seen |-> 0, snapshot |-> {}]

(* reputation.rs: the score starts at 50 and stays within 0 .. 100. *)
DefaultScore == 50
ForcedSafeMode(s) == s < 40

ClampedSum(s, delta) ==
    IF s + delta < 0 THEN 0 ELSE IF s + delta > 100 THEN 100 ELSE s + delta

InstallDelta(level) ==
    CASE level = "VerifiedListing" -> 20
      [] level = "MatchingListingHash" -> 5
      [] level = "SideloadOnly" -> -15
      [] level = "HashMismatch" -> -25

EffectiveSafeMode(a) == userSafe[a] \/ ForcedSafeMode(score[a])

(* preview_install: what the cached listing says of a bundle. *)
TrustLevel(b) ==
    LET l == listing[b.app]
    IN  IF l = NoListing THEN "SideloadOnly"
        ELSE IF l.bundle # b THEN "HashMismatch"
        ELSE IF l.signatureOk THEN "VerifiedListing" ELSE "MatchingListingHash"

\* Mutant: the preview does not look at the revocation snapshot.
PreviewIgnoringRevocation(b) == TRUE

PreviewPasses(b) == b.app \notin revoked

(* install_verified: the trust asked for against the level found. *)
Admitted(trust, b) ==
    IF trust = "VerifiedListing"
    THEN TrustLevel(b) = "VerifiedListing"
    ELSE /\ TrustLevel(b) # "HashMismatch"
         /\ TrustLevel(b) = "SideloadOnly" => b.signed

IsDowngrade(b) == b.version < installed[b.app]

(* merge_bundled_listings, on opening the store: not over a newer listing.   *)
(* The bundled revocations are an empty list.                                *)
MergeBundled(known) ==
    IF BundledListing.updated >= known[Official].updated
    THEN [known EXCEPT ![Official] = BundledListing]
    ELSE known

MiniAppsInit ==
    /\ installed = [a \in App |-> 0]
    /\ files = [a \in App |-> [p \in Path |-> 0]]
    /\ listing = MergeBundled([a \in App |-> NoListing])
    /\ revoked = {}
    /\ score = [a \in App |-> DefaultScore]
    /\ userSafe = [a \in App |-> FALSE]
    /\ task = [t \in Task |-> Idle]
    /\ storeOps = 0
    /\ broken = {} /\ hit = {} /\ overlapped = {}

Begin(t, step) ==
    /\ task[t].pc = "idle"
    /\ storeOps < MaxStoreOps
    /\ storeOps' = storeOps + 1
    /\ task' = [task EXCEPT ![t] = step]

(* install_verified up to the writes; install_official_bundle is the call    *)
(* for OfficialBundle with a verified listing and no downgrade.              *)
BeginInstall(b, trust, allowDowngrade) ==
    /\ PreviewPasses(b)
    /\ Admitted(trust, b)
    /\ IsDowngrade(b) => allowDowngrade
    /\ Begin("command", [Idle EXCEPT !.pc = "manifest", !.app = b.app, !.version = b.version,
                                     !.todo = FilesOf(b.version),
                                     !.delta = InstallDelta(TrustLevel(b))])
    /\ UNCHANGED <<installed, files, listing, revoked, score, userSafe, broken, hit, overlapped>>

InstallManifest ==
    LET i == task["command"]
    IN  /\ i.pc = "manifest"
        /\ installed' = [installed EXCEPT ![i.app] = i.version]
        /\ task' = [task EXCEPT !["command"].pc = "files"]
        /\ UNCHANGED <<files, listing, revoked, score, userSafe, storeOps, broken, hit, overlapped>>

\* Mutant: a file that is already there is kept.
KeepExistingFile(p) ==
    LET i == task["command"]
        rest == i.todo \ {p}
    IN  /\ i.pc = "files"
        /\ p \in i.todo
        /\ files' = [files EXCEPT ![i.app][p] = IF @ = 0 THEN i.version ELSE @]
        /\ task' = [task EXCEPT !["command"].todo = rest,
                                !["command"].pc = IF rest = {} THEN "rate" ELSE @]
        /\ broken' = IF rest = {} THEN broken \ {i.app} ELSE broken
        /\ UNCHANGED <<installed, listing, revoked, score, userSafe, storeOps, hit, overlapped>>

(* The files of the version before it that the bundle lacks stay behind. *)
InstallFile(p) ==
    LET i == task["command"]
        rest == i.todo \ {p}
    IN  /\ i.pc = "files"
        /\ p \in i.todo
        /\ files' = [files EXCEPT ![i.app][p] = i.version]
        /\ task' = [task EXCEPT !["command"].todo = rest,
                                !["command"].pc = IF rest = {} THEN "rate" ELSE @]
        /\ broken' = IF rest = {} THEN broken \ {i.app} ELSE broken
        /\ UNCHANGED <<installed, listing, revoked, score, userSafe, storeOps, hit, overlapped>>

Uninstall(a) ==
    /\ installed[a] # 0
    /\ Begin("command", Idle)
    /\ installed' = [installed EXCEPT ![a] = 0]
    /\ files' = [files EXCEPT ![a] = [p \in Path |-> 0]]
    /\ broken' = broken \ {a}
    /\ UNCHANGED <<listing, revoked, score, userSafe, hit, overlapped>>

(* The dispatch of AppPayload::AppStoreListing: any listing its developer    *)
(* signed replaces the one in the cache, newer or older.                     *)
CacheListing(l) ==
    /\ l.signatureOk
    /\ Begin("dispatch", Idle)
    /\ listing' = [listing EXCEPT ![l.bundle.app] = l]
    /\ UNCHANGED <<installed, files, revoked, score, userSafe, broken, hit, overlapped>>

(* ingest_gossip_revocation, by the dispatch or by publish_app_revocation:   *)
(* revoke_app reads the snapshot and writes it back, then the score is hit.  *)
BeginRevoke(t, a) ==
    /\ Begin(t, [Idle EXCEPT !.pc = "revoke", !.app = a, !.delta = -100, !.snapshot = revoked])
    /\ UNCHANGED <<installed, files, listing, revoked, score, userSafe, broken, hit, overlapped>>

SaveRevocations(t) ==
    /\ task[t].pc = "revoke"
    /\ revoked' = task[t].snapshot \cup {task[t].app}
    /\ task' = [task EXCEPT ![t].pc = "rate"]
    /\ hit' = (hit \cap revoked') \ {task[t].app}
    /\ UNCHANGED <<installed, files, listing, score, userSafe, storeOps, broken, overlapped>>

(* record_user_report: its read is the first step of the command. *)
BeginReport(a) ==
    /\ Begin("command", [Idle EXCEPT !.pc = "save", !.app = a, !.delta = -30, !.seen = score[a]])
    /\ UNCHANGED <<installed, files, listing, revoked, score, userSafe, broken, hit, overlapped>>

(* apply_delta: load, then clamp and save. *)
LoadScore(t) ==
    /\ task[t].pc = "rate"
    /\ task' = [task EXCEPT ![t].pc = "save", ![t].seen = score[task[t].app]]
    /\ UNCHANGED <<installed, files, listing, revoked, score, userSafe, storeOps,
                   broken, hit, overlapped>>

SaveScore(t) ==
    LET a == task[t].app
    IN  /\ task[t].pc = "save"
        /\ score' = [score EXCEPT ![a] = ClampedSum(task[t].seen, task[t].delta)]
        /\ task' = [task EXCEPT ![t] = Idle]
        /\ hit' = IF task[t].delta = -100 /\ a \in revoked THEN hit \cup {a} ELSE hit
        /\ overlapped' = IF task[t].seen # score[a] THEN overlapped \cup {a} ELSE overlapped
        /\ UNCHANGED <<installed, files, listing, revoked, userSafe, storeOps, broken>>

SetSafeMode(a, enabled) ==
    /\ enabled # userSafe[a]
    /\ Begin("command", Idle)
    /\ userSafe' = [userSafe EXCEPT ![a] = enabled]
    /\ UNCHANGED <<installed, files, listing, revoked, score, broken, hit, overlapped>>

(* The process dies and the store is opened again. *)
Reopen ==
    /\ storeOps < MaxStoreOps
    /\ storeOps' = storeOps + 1
    /\ task' = [t \in Task |-> Idle]
    /\ listing' = MergeBundled(listing)
    /\ broken' = IF task["command"].pc = "files" THEN broken \cup {task["command"].app} ELSE broken
    /\ UNCHANGED <<installed, files, revoked, score, userSafe, hit, overlapped>>

MiniAppsNext ==
    \/ \E b \in Bundle, trust \in {"VerifiedListing", "SideloadAcknowledged"}, d \in BOOLEAN :
        BeginInstall(b, trust, d)
    \/ InstallManifest
    \/ \E p \in Path : InstallFile(p)
    \/ \E l \in Listing : CacheListing(l)
    \/ \E t \in Task : SaveRevocations(t) \/ LoadScore(t) \/ SaveScore(t)
    \/ \E t \in Task, a \in App : BeginRevoke(t, a)
    \/ \E a \in App : Uninstall(a) \/ BeginReport(a)
    \/ \E a \in App, enabled \in BOOLEAN : SetSafeMode(a, enabled)
    \/ Reopen

MiniAppsSpec == MiniAppsInit /\ [][MiniAppsNext]_storeVars

MiniAppsTypeOK ==
    /\ installed \in [App -> 0 .. 2]
    /\ files \in [App -> [Path -> 0 .. 2]]
    /\ \A a \in App : listing[a] \in Listings(a) \cup {NoListing}
    /\ revoked \subseteq App
    /\ score \in [App -> 0 .. 100]
    /\ userSafe \in [App -> BOOLEAN]
    /\ \A t \in Task : /\ task[t].pc \in {"idle", "manifest", "files", "revoke", "rate", "save"}
                       /\ task[t].app \in App /\ task[t].snapshot \subseteq App
                       /\ task[t].todo \subseteq Path /\ task[t].seen \in 0 .. 100
    /\ storeOps \in 0 .. MaxStoreOps
    /\ broken \subseteq App /\ hit \subseteq App /\ overlapped \subseteq App

(* install: once an install has ended, every file of the version the         *)
(* manifest names is there and came with that version, whatever was          *)
(* installed, upgraded or removed before; only a process that died between   *)
(* the manifest and the last file leaves the two apart.                      *)
InstalledFilesComplete ==
    \A a \in App :
        \/ installed[a] = 0
        \/ a \in broken
        \/ task["command"].pc = "files" /\ task["command"].app = a
        \/ \A p \in FilesOf(installed[a]) : files[a][p] = installed[a]

(* ingest_gossip_revocation, preview_install: an app whose revocation was    *)
(* ingested runs in safe mode for as long as the snapshot names it, also     *)
(* when its install was admitted just before; only a score saved from a read *)
(* that another task had overtaken lifts it out.  (A revocation saved over a *)
(* stale snapshot can drop the name, and that app is installable again.)     *)
RevokedRunsSafe ==
    \A a \in hit \ overlapped : EffectiveSafeMode(a)
=============================================================================
