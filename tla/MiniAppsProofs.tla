--------------------------- MODULE MiniAppsProofs ---------------------------
(* For any apps and any number of operations: an install leaves the files    *)
(* its manifest names, and a revoked app runs in safe mode.  The second      *)
(* holds because at most one install can have been admitted before the       *)
(* revocation, and it finds the score at 0: its 20 points do not lift the    *)
(* app out of safe mode, and preview_install refuses the next.               *)
EXTENDS MiniApps, TLAPS

Pc == {"idle", "manifest", "files", "revoke", "rate", "save"}
Version == 0 .. 2
Delta == -100 .. 20
Score == 0 .. 100
TaskState ==
    [pc : Pc, app : App, version : Version, todo : SUBSET Path, delta : Delta, seen : Score,
     snapshot : SUBSET App]

StoreTypes ==
    /\ installed \in [App -> Version]
    /\ files \in [App -> [Path -> Version]]
    /\ revoked \subseteq App
    /\ score \in [App -> Score]
    /\ task \in [Task -> TaskState]

(*-------------------------------------------------------------------------*)
\* A task at rest is a task.
LEMMA IdleTyped == Idle \in TaskState /\ Idle.pc = "idle" /\ Idle.delta = 0
  BY OfficialApp DEF Idle, TaskState, Pc, Version, Delta, Score

\* What adding a delta to a score can give.
LEMMA ClampedInRange ==
  ASSUME NEW s \in Score, NEW d \in Delta
  PROVE  /\ ClampedSum(s, d) \in Score
         /\ d = -100 => ClampedSum(s, d) = 0
         /\ d <= 0 => ClampedSum(s, d) <= s
         /\ s = 0 => ClampedSum(s, d) <= 20
  BY DEF ClampedSum, Score, Delta

\* The deltas of an install are deltas.
LEMMA DeltaInRange ==
  ASSUME NEW level \in Level
  PROVE  InstallDelta(level) \in Delta
  BY DEF InstallDelta, Level, Delta

\* Every bundle has a trust level.
LEMMA LevelTyped == \A b : TrustLevel(b) \in Level
  BY DEF TrustLevel, Level

\* A version's files are files.
LEMMA FilesAreFiles == \A v : FilesOf(v) \subseteq Path
  BY DEF FilesOf, Path

(* Each operation changes the state of one task: to its first step, to a     *)
(* later one, or back to Idle.                                               *)
LEMMA BeginTyped ==
  ASSUME StoreTypes, NEW t \in Task, NEW step \in TaskState, Begin(t, step)
  PROVE  /\ task' \in [Task -> TaskState] /\ task'[t] = step
         /\ task[t].pc = "idle"
         /\ \A u \in Task \ {t} : task'[u] = task[u]
  BY DEF StoreTypes, Begin

\* The state in which an install begins.
LEMMA InstallStepTyped ==
  ASSUME StoreTypes, NEW b \in Bundle
  PROVE  LET step == [Idle EXCEPT !.pc = "manifest", !.app = b.app, !.version = b.version,
                                  !.todo = FilesOf(b.version),
                                  !.delta = InstallDelta(TrustLevel(b))]
         IN  /\ step \in TaskState /\ step.pc = "manifest" /\ step.app = b.app
             /\ step.version = b.version /\ step.todo = FilesOf(b.version)
  <1>1. FilesOf(b.version) \in SUBSET Path /\ InstallDelta(TrustLevel(b)) \in Delta
    BY FilesAreFiles, LevelTyped, DeltaInRange
  <1>2. b.app \in App /\ b.version \in Version
    BY DEF Bundle, Version
  <1> QED BY <1>1, <1>2, IdleTyped, Zenon DEF TaskState, Pc

\* The state in which a revocation begins.
LEMMA RevokeStepTyped ==
  ASSUME StoreTypes, NEW a \in App
  PROVE  LET step == [Idle EXCEPT !.pc = "revoke", !.app = a, !.delta = -100,
                                  !.snapshot = revoked]
         IN  step \in TaskState /\ step.pc = "revoke" /\ step.delta = -100
  <1>1. -100 \in Delta /\ revoked \in SUBSET App
    BY DEF Delta, StoreTypes
  <1> QED BY <1>1, IdleTyped, ZenonT(30) DEF TaskState, Pc

\* The state in which a report begins.
LEMMA ReportStepTyped ==
  ASSUME StoreTypes, NEW a \in App
  PROVE  LET step == [Idle EXCEPT !.pc = "save", !.app = a, !.delta = -30, !.seen = score[a]]
         IN  step \in TaskState /\ step.pc = "save" /\ step.delta = -30
  <1>1. -30 \in Delta
    BY DEF Delta
  <1> QED BY <1>1, IdleTyped, Zenon DEF TaskState, StoreTypes, Pc

\* A task that goes on to its next step keeps everything else.
LEMMA NextStepTyped ==
  ASSUME StoreTypes, NEW t \in Task, NEW s \in Pc, task' = [task EXCEPT ![t].pc = s]
  PROVE  task' \in [Task -> TaskState]
  <1>1. PICK i \in TaskState : i = task[t]
    BY DEF StoreTypes
  <1>2. [i EXCEPT !.pc = s] \in TaskState
    BY DEF TaskState
  <1>3. PICK j \in TaskState : j = [i EXCEPT !.pc = s]
    BY <1>2, Zenon
  <1>4. task' = [task EXCEPT ![t] = j]
    BY <1>1, <1>3, Zenon
  <1> QED BY <1>4 DEF StoreTypes

\* Every step keeps the types.
LEMMA TypesStep == StoreTypes /\ [MiniAppsNext]_storeVars => StoreTypes'
  <1> SUFFICES ASSUME StoreTypes, [MiniAppsNext]_storeVars PROVE StoreTypes'
    OBVIOUS
  <1> USE DEF StoreTypes
  <1>0. "command" \in Task /\ "dispatch" \in Task
    BY DEF Task
  <1>1. ASSUME NEW b \in Bundle, NEW trust, NEW d \in BOOLEAN, BeginInstall(b, trust, d)
        PROVE  StoreTypes'
    BY <1>0, <1>1, InstallStepTyped, BeginTyped, Zenon DEF BeginInstall
  <1>2. CASE InstallManifest
    <2>1. task' \in [Task -> TaskState]
      BY <1>0, <1>2, NextStepTyped, Zenon DEF InstallManifest, Pc
    <2>2. installed' \in [App -> Version]
      BY <1>0, <1>2 DEF InstallManifest, TaskState, Pc
    <2> QED BY <1>2, <2>1, <2>2 DEF InstallManifest
  <1>3. ASSUME NEW p \in Path, InstallFile(p) PROVE StoreTypes'
    <2>0. PICK i \in TaskState : i = task["command"]
      BY <1>0
    <2> DEFINE rest == i.todo \ {p}
               next == [i EXCEPT !.todo = rest, !.pc = IF rest = {} THEN "rate" ELSE @]
    <2>3. next \in TaskState
      BY Zenon DEF TaskState, Pc
    <2>4. task' = [task EXCEPT !["command"] = next]
      BY <1>0, <1>3, <2>0, Zenon DEF InstallFile
    <2> HIDE DEF next
    <2>1. task' \in [Task -> TaskState]
      BY <1>0, <2>3, <2>4
    <2>2. files' \in [App -> [Path -> Version]]
      BY <1>0, <1>3 DEF InstallFile, TaskState, Pc
    <2> QED BY <1>3, <2>1, <2>2 DEF InstallFile
  <1>4. ASSUME NEW l \in Listing, CacheListing(l) PROVE StoreTypes'
    BY <1>0, <1>4, IdleTyped, BeginTyped DEF CacheListing
  <1>5. ASSUME NEW t \in Task, SaveRevocations(t) PROVE StoreTypes'
    <2>1. task' \in [Task -> TaskState]
      BY <1>5, NextStepTyped, Zenon DEF SaveRevocations, Pc
    <2>2. revoked' \subseteq App
      BY <1>5 DEF SaveRevocations, TaskState, Pc
    <2> QED BY <1>5, <2>1, <2>2 DEF SaveRevocations
  <1>6. ASSUME NEW t \in Task, LoadScore(t) PROVE StoreTypes'
    <2>1. score[task[t].app] \in Score
      BY DEF TaskState
    <2> DEFINE next == [task[t] EXCEPT !.pc = "save", !.seen = score[task[t].app]]
    <2>2. next \in TaskState
      BY <2>1, ZenonT(30) DEF TaskState, Pc
    <2>3. task' = [task EXCEPT ![t] = next]
      BY <1>6, Zenon DEF LoadScore
    <2> HIDE DEF next
    <2>4. task' \in [Task -> TaskState]
      BY <2>2, <2>3
    <2> QED BY <1>6, <2>4 DEF LoadScore
  <1>7. ASSUME NEW t \in Task, SaveScore(t) PROVE StoreTypes'
    <2>1. task' \in [Task -> TaskState]
      BY <1>7, IdleTyped DEF SaveScore
    <2>2. ClampedSum(task[t].seen, task[t].delta) \in Score
      BY ClampedInRange DEF TaskState
    <2>3. score' \in [App -> Score]
      BY <1>7, <2>2, Zenon DEF SaveScore
    <2> QED BY <1>7, <2>1, <2>3 DEF SaveScore
  <1>8. ASSUME NEW t \in Task, NEW a \in App, BeginRevoke(t, a) PROVE StoreTypes'
    BY <1>8, RevokeStepTyped, BeginTyped, Zenon DEF BeginRevoke
  <1>9. ASSUME NEW a \in App, Uninstall(a) PROVE StoreTypes'
    <2>1. task' \in [Task -> TaskState]
      BY <1>0, <1>9, IdleTyped, BeginTyped DEF Uninstall
    <2>2. installed' \in [App -> Version] /\ files' \in [App -> [Path -> Version]]
      BY <1>9 DEF Uninstall, Version
    <2> QED BY <1>9, <2>1, <2>2 DEF Uninstall
  <1>10. ASSUME NEW a \in App, BeginReport(a) PROVE StoreTypes'
    BY <1>0, <1>10, ReportStepTyped, BeginTyped, Zenon DEF BeginReport
  <1>11. ASSUME NEW a \in App, NEW e \in BOOLEAN, SetSafeMode(a, e) PROVE StoreTypes'
    BY <1>0, <1>11, IdleTyped, BeginTyped DEF SetSafeMode
  <1>12. CASE Reopen
    BY <1>12, IdleTyped DEF Reopen
  <1>13. CASE UNCHANGED storeVars
    BY <1>13 DEF storeVars
  <1> QED
    BY <1>1, <1>2, <1>3, <1>4, <1>5, <1>6, <1>7, <1>8, <1>9, <1>10, <1>11, <1>12, <1>13
       DEF MiniAppsNext

\* install_verified, revoke_app, apply_delta: versions, files, scores and the tasks'
\* states keep their ranges; no score leaves 0 .. 100.
THEOREM StoreTyped == MiniAppsSpec => []StoreTypes
  <1>1. MiniAppsInit => StoreTypes
    BY IdleTyped DEF MiniAppsInit, StoreTypes, DefaultScore, Score, Version
  <1> QED BY <1>1, TypesStep, PTL DEF MiniAppsSpec

(*-------------------------------------------------------------------------*)
(* The files.  While they are written, those not on the list any more are    *)
(* those of the version being installed.                                     *)
(*-------------------------------------------------------------------------*)
Installing == task["command"]

FilesInv ==
    /\ Installing.pc = "manifest" => Installing.todo = FilesOf(Installing.version)
    /\ Installing.pc = "files" =>
        /\ installed[Installing.app] = Installing.version
        /\ \A p \in FilesOf(Installing.version) \ Installing.todo :
            files[Installing.app][p] = Installing.version
    /\ InstalledFilesComplete

(* The steps that touch neither the files nor an install in progress. *)
LEMMA FilesUntouched ==
  ASSUME FilesInv, UNCHANGED <<installed, files, broken>>,
         \/ Installing' = Installing
         \/ Installing.pc # "files" /\ Installing'.pc \notin {"manifest", "files"}
  PROVE  FilesInv'
  BY DEF FilesInv, InstalledFilesComplete, Installing

\* An install writes the manifest first and every file after it.
LEMMA FilesStep ==
  ASSUME StoreTypes, FilesInv, [MiniAppsNext]_storeVars
  PROVE  FilesInv'
  <1> USE DEF Installing
  <1>0. "command" \in Task /\ "dispatch" \in Task
    BY DEF Task
  <1>1. ASSUME NEW b \in Bundle, NEW trust, NEW d \in BOOLEAN, BeginInstall(b, trust, d)
        PROVE  FilesInv'
    <2>1. /\ Installing'.pc = "manifest" /\ Installing'.todo = FilesOf(Installing'.version)
          /\ Installing.pc = "idle" /\ UNCHANGED <<installed, files, broken>>
      <3> DEFINE step == [Idle EXCEPT !.pc = "manifest", !.app = b.app, !.version = b.version,
                                     !.todo = FilesOf(b.version),
                                     !.delta = InstallDelta(TrustLevel(b))]
      <3>1. Begin("command", step) /\ UNCHANGED <<installed, files, broken>>
        BY <1>1 DEF BeginInstall
      <3>2. /\ step \in TaskState /\ step.pc = "manifest"
            /\ step.todo = FilesOf(step.version)
        BY InstallStepTyped, Zenon
      <3> HIDE DEF step
      <3>3. task'["command"] = step /\ task["command"].pc = "idle"
        BY <1>0, <3>1, <3>2, BeginTyped
      <3> QED BY <3>1, <3>2, <3>3
    <2> QED BY <2>1 DEF FilesInv, InstalledFilesComplete
  <1>2. CASE InstallManifest
    <2>0. PICK i \in TaskState : i = task["command"]
      BY <1>0 DEF StoreTypes
    <2>1. /\ Installing'.pc = "files" /\ Installing'.app = i.app
          /\ Installing'.version = i.version /\ Installing'.todo = i.todo
          /\ i.pc = "manifest" /\ i.app \in App
      BY <1>0, <1>2, <2>0 DEF InstallManifest, StoreTypes, TaskState, Pc
    <2>2. /\ installed'[i.app] = i.version
          /\ \A a \in App \ {i.app} : installed'[a] = installed[a]
          /\ UNCHANGED <<files, broken>>
      BY <1>2, <2>0, <2>1 DEF InstallManifest, StoreTypes
    <2>3. i.todo = FilesOf(i.version)
      BY <2>0, <2>1 DEF FilesInv
    <2>4. InstalledFilesComplete'
      BY <2>0, <2>1, <2>2 DEF FilesInv, InstalledFilesComplete
    <2> QED BY <2>1, <2>2, <2>3, <2>4 DEF FilesInv
  <1>3. ASSUME NEW p \in Path, InstallFile(p) PROVE FilesInv'
    <2>0. PICK i \in TaskState : i = task["command"]
      BY <1>0 DEF StoreTypes
    <2> DEFINE rest == i.todo \ {p}
    <2>1. /\ i.pc = "files" /\ i.app \in App /\ i.version \in Version
          /\ installed[i.app] = i.version
          /\ \A q \in FilesOf(i.version) \ i.todo : files[i.app][q] = i.version
      BY <1>3, <2>0 DEF InstallFile, FilesInv, TaskState
    <2>2. /\ Installing'.app = i.app /\ Installing'.version = i.version
          /\ Installing'.todo = rest
          /\ Installing'.pc = IF rest = {} THEN "rate" ELSE "files"
      BY <1>0, <1>3, <2>0, <2>1 DEF InstallFile, StoreTypes, TaskState, Pc
    <2>3. /\ files'[i.app][p] = i.version
          /\ \A q \in Path \ {p} : files'[i.app][q] = files[i.app][q]
          /\ \A a \in App \ {i.app} : files'[a] = files[a]
      BY <1>3, <2>0, <2>1 DEF InstallFile, StoreTypes
    <2>4. /\ installed' = installed
          /\ broken' = IF rest = {} THEN broken \ {i.app} ELSE broken
      BY <1>3, <2>0 DEF InstallFile
    <2>5. \A q \in FilesOf(i.version) \ rest : files'[i.app][q] = i.version
      BY <2>1, <2>3, FilesAreFiles
    <2>6. InstalledFilesComplete'
      <3> SUFFICES ASSUME NEW a \in App,
                          installed[a] # 0, a \notin broken',
                          ~(Installing'.pc = "files" /\ Installing'.app = a)
                   PROVE  \A q \in FilesOf(installed[a]) : files'[a][q] = installed[a]
        BY <2>4 DEF InstalledFilesComplete
      <3>1. CASE a = i.app
        BY <2>1, <2>2, <2>5, <3>1
      <3>2. CASE a # i.app
        BY <2>0, <2>1, <2>3, <2>4, <3>2 DEF FilesInv, InstalledFilesComplete
      <3> QED BY <3>1, <3>2
    <2> QED BY <2>1, <2>2, <2>4, <2>5, <2>6 DEF FilesInv
  <1>4. ASSUME NEW l \in Listing, CacheListing(l) PROVE FilesInv'
    <2>1. Installing' = Installing
      BY <1>0, <1>4, IdleTyped, BeginTyped DEF CacheListing, Task
    <2> QED BY <1>4, <2>1, FilesUntouched DEF CacheListing
  <1>5. ASSUME NEW t \in Task, SaveRevocations(t) PROVE FilesInv'
    <2>1. Installing' = Installing \/ (Installing.pc = "revoke" /\ Installing'.pc = "rate")
      BY <1>0, <1>5 DEF SaveRevocations, StoreTypes, TaskState, Pc
    <2> QED BY <1>5, <2>1, FilesUntouched DEF SaveRevocations
  <1>6. ASSUME NEW t \in Task, LoadScore(t) PROVE FilesInv'
    <2>1. Installing' = Installing \/ (Installing.pc = "rate" /\ Installing'.pc = "save")
      BY <1>0, <1>6 DEF LoadScore, StoreTypes, TaskState, Pc
    <2> QED BY <1>6, <2>1, FilesUntouched DEF LoadScore
  <1>7. ASSUME NEW t \in Task, SaveScore(t) PROVE FilesInv'
    <2>1. Installing' = Installing \/ (Installing.pc = "save" /\ Installing'.pc = "idle")
      BY <1>0, <1>7, IdleTyped DEF SaveScore, StoreTypes
    <2> QED BY <1>7, <2>1, FilesUntouched DEF SaveScore
  <1>8. ASSUME NEW t \in Task, NEW a \in App, BeginRevoke(t, a) PROVE FilesInv'
    <2>1. Installing' = Installing \/ (Installing.pc = "idle" /\ Installing'.pc = "revoke")
      <3> DEFINE step == [Idle EXCEPT !.pc = "revoke", !.app = a, !.delta = -100,
                                     !.snapshot = revoked]
      <3>1. Begin(t, step)
        BY <1>8 DEF BeginRevoke
      <3>2. step \in TaskState /\ step.pc = "revoke"
        BY RevokeStepTyped, Zenon
      <3> HIDE DEF step
      <3>3. CASE t = "command"
        BY <3>1, <3>2, <3>3, BeginTyped
      <3>4. CASE t # "command"
        BY <1>0, <3>1, <3>2, <3>4, BeginTyped
      <3> QED BY <3>3, <3>4
    <2> QED BY <1>8, <2>1, FilesUntouched DEF BeginRevoke
  <1>9. ASSUME NEW a \in App, Uninstall(a) PROVE FilesInv'
    <2>1. Installing.pc = "idle" /\ Installing'.pc = "idle"
      BY <1>0, <1>9, IdleTyped, BeginTyped DEF Uninstall
    <2>2. /\ installed'[a] = 0 /\ broken' = broken \ {a}
          /\ \A b \in App \ {a} : installed'[b] = installed[b] /\ files'[b] = files[b]
      BY <1>9 DEF Uninstall, StoreTypes
    <2>3. InstalledFilesComplete'
      BY <2>1, <2>2 DEF FilesInv, InstalledFilesComplete
    <2> QED BY <2>1, <2>3 DEF FilesInv
  <1>10. ASSUME NEW a \in App, BeginReport(a) PROVE FilesInv'
    <2> DEFINE step == [Idle EXCEPT !.pc = "save", !.app = a, !.delta = -30, !.seen = score[a]]
    <2>2. Begin("command", step)
      BY <1>10, Zenon DEF BeginReport
    <2>3. step \in TaskState /\ step.pc = "save"
      BY ReportStepTyped, Zenon
    <2> HIDE DEF step
    <2>1. Installing.pc = "idle" /\ Installing'.pc = "save"
      BY <1>0, <2>2, <2>3, BeginTyped, Zenon
    <2> QED BY <1>10, <2>1, FilesUntouched DEF BeginReport
  <1>11. ASSUME NEW a \in App, NEW e \in BOOLEAN, SetSafeMode(a, e) PROVE FilesInv'
    <2>1. Installing.pc = "idle" /\ Installing'.pc = "idle"
      BY <1>0, <1>11, IdleTyped, BeginTyped DEF SetSafeMode
    <2> QED BY <1>11, <2>1, FilesUntouched DEF SetSafeMode
  <1>12. CASE Reopen
    <2>1. /\ Installing'.pc = "idle" /\ UNCHANGED <<installed, files>>
          /\ broken' = IF Installing.pc = "files" THEN broken \cup {Installing.app} ELSE broken
      BY <1>0, <1>12, IdleTyped DEF Reopen
    <2> QED BY <2>1 DEF FilesInv, InstalledFilesComplete
  <1>13. CASE UNCHANGED storeVars
    BY <1>13, FilesUntouched DEF storeVars
  <1> QED
    BY <1>1, <1>2, <1>3, <1>4, <1>5, <1>6, <1>7, <1>8, <1>9, <1>10, <1>11, <1>12, <1>13
       DEF MiniAppsNext

(* Once an install has ended, the files its manifest names are there and of  *)
(* its version, unless the process died in one (install_verified).           *)
THEOREM InstallsComplete == MiniAppsSpec => []InstalledFilesComplete
  <1>1. MiniAppsInit => FilesInv
    BY IdleTyped DEF MiniAppsInit, FilesInv, InstalledFilesComplete, Installing, Task
  <1>2. StoreTypes /\ FilesInv /\ [MiniAppsNext]_storeVars => FilesInv'
    BY FilesStep
  <1>3. FilesInv => InstalledFilesComplete
    BY DEF FilesInv
  <1> QED BY <1>1, <1>2, <1>3, StoreTyped, PTL DEF MiniAppsSpec

(*-------------------------------------------------------------------------*)
(* Safe mode.                                                                *)
(*-------------------------------------------------------------------------*)
SafeInv ==
    /\ hit \subseteq revoked
    /\ task["dispatch"].delta <= 0
    /\ \A a \in hit \ overlapped :
        /\ score[a] <= 20
        /\ Installing.app = a /\ Installing.delta > 0 => score[a] = 0

(* The steps that neither change a score nor begin an install. *)
LEMMA SafeUntouched ==
  ASSUME SafeInv, UNCHANGED <<score, overlapped>>, hit' \subseteq hit, hit' \subseteq revoked',
         task'["dispatch"].delta <= 0,
         \/ Installing'.app = Installing.app /\ Installing'.delta = Installing.delta
         \/ ~(Installing'.delta > 0)
  PROVE  SafeInv'
  BY DEF SafeInv, Installing

\* Nothing raises a revoked app's score above the safe-mode threshold.
LEMMA SafeStep ==
  ASSUME StoreTypes, SafeInv, [MiniAppsNext]_storeVars
  PROVE  SafeInv'
  <1> USE DEF Installing
  <1>0. "command" \in Task /\ "dispatch" \in Task /\ Task = {"command", "dispatch"}
    BY DEF Task
  <1>a. task["dispatch"].delta <= 0 /\ hit \subseteq revoked
    BY DEF SafeInv
  \* Beginning anything but an install.
  <1>b. ASSUME NEW t \in Task, NEW step \in TaskState, step.delta <= 0, Begin(t, step),
               UNCHANGED <<revoked, score, hit, overlapped>>
        PROVE  SafeInv'
    <2>1. /\ task'[t] = step /\ \A u \in Task \ {t} : task'[u] = task[u]
      BY <1>b, BeginTyped
    <2>2. step.delta \in Delta
      BY DEF TaskState
    <2>3. CASE t = "command"
      BY <1>0, <1>a, <1>b, <2>1, <2>2, <2>3, SafeUntouched DEF Delta
    <2>4. CASE t = "dispatch"
      BY <1>0, <1>a, <1>b, <2>1, <2>4, SafeUntouched
    <2> QED BY <1>0, <2>3, <2>4
  <1>c. Idle \in TaskState /\ Idle.delta <= 0
    BY IdleTyped
  <1>1. ASSUME NEW b \in Bundle, NEW trust, NEW d \in BOOLEAN, BeginInstall(b, trust, d)
        PROVE  SafeInv'
    <2> DEFINE step == [Idle EXCEPT !.pc = "manifest", !.app = b.app, !.version = b.version,
                                    !.todo = FilesOf(b.version),
                                    !.delta = InstallDelta(TrustLevel(b))]
    <2>1. /\ Begin("command", step) /\ b.app \notin revoked
          /\ UNCHANGED <<revoked, score, hit, overlapped>>
      BY <1>1 DEF BeginInstall, PreviewPasses
    <2>2. step \in TaskState /\ step.app = b.app
      BY InstallStepTyped, Zenon
    <2> HIDE DEF step
    <2>3. task'["command"] = step /\ task'["dispatch"] = task["dispatch"]
      BY <1>0, <2>1, <2>2, BeginTyped
    <2> QED BY <1>a, <2>1, <2>2, <2>3 DEF SafeInv
  <1>2. CASE InstallManifest
    <2>1. /\ task'["command"].app = task["command"].app
          /\ task'["command"].delta = task["command"].delta
          /\ task'["dispatch"] = task["dispatch"]
      BY <1>0, <1>2 DEF InstallManifest, StoreTypes, TaskState
    <2> QED BY <1>2, <1>a, <2>1, SafeUntouched DEF InstallManifest
  <1>3. ASSUME NEW p \in Path, InstallFile(p) PROVE SafeInv'
    <2>1. /\ task'["command"].app = task["command"].app
          /\ task'["command"].delta = task["command"].delta
          /\ task'["dispatch"] = task["dispatch"]
      BY <1>0, <1>3 DEF InstallFile, StoreTypes, TaskState
    <2> QED BY <1>3, <1>a, <2>1, SafeUntouched DEF InstallFile
  <1>4. ASSUME NEW l \in Listing, CacheListing(l) PROVE SafeInv'
    BY <1>0, <1>4, <1>b, <1>c DEF CacheListing
  <1>5. ASSUME NEW t \in Task, SaveRevocations(t) PROVE SafeInv'
    <2>1. \A u \in Task : task'[u].app = task[u].app /\ task'[u].delta = task[u].delta
      BY <1>5 DEF SaveRevocations, StoreTypes, TaskState
    <2>2. hit' \subseteq hit /\ hit' \subseteq revoked'
      BY <1>5 DEF SaveRevocations
    <2> QED BY <1>0, <1>5, <1>a, <2>1, <2>2, SafeUntouched DEF SaveRevocations
  <1>6. ASSUME NEW t \in Task, LoadScore(t) PROVE SafeInv'
    <2>1. \A u \in Task : task'[u].app = task[u].app /\ task'[u].delta = task[u].delta
      BY <1>6 DEF LoadScore, StoreTypes, TaskState
    <2> QED BY <1>0, <1>6, <1>a, <2>1, SafeUntouched DEF LoadScore
  <1>7. ASSUME NEW t \in Task, SaveScore(t) PROVE SafeInv'
    <2>0. PICK i \in TaskState : i = task[t]
      BY DEF StoreTypes
    <2>1. i.app \in App /\ i.seen \in Score /\ i.delta \in Delta
      BY DEF TaskState
    <2>2. /\ task'[t] = Idle /\ \A u \in Task \ {t} : task'[u] = task[u]
          /\ score'[i.app] = ClampedSum(i.seen, i.delta)
          /\ \A a \in App \ {i.app} : score'[a] = score[a]
      BY <1>7, <2>0, <2>1 DEF SaveScore, StoreTypes
    <2>3. /\ revoked' = revoked
          /\ hit' = IF i.delta = -100 /\ i.app \in revoked THEN hit \cup {i.app} ELSE hit
          /\ overlapped' = IF i.seen # score[i.app] THEN overlapped \cup {i.app} ELSE overlapped
      BY <1>7, <2>0 DEF SaveScore
    <2>4. hit' \subseteq revoked' /\ task'["dispatch"].delta <= 0
      BY <1>0, <1>a, <1>c, <2>2, <2>3
    <2>5. ASSUME NEW a \in hit' \ overlapped'
          PROVE  /\ score'[a] <= 20
                 /\ Installing'.app = a /\ Installing'.delta > 0 => score'[a] = 0
      <3>0. a \in App
        BY <2>3, <2>4 DEF StoreTypes
      <3>1. CASE a # i.app
        <4>1. a \in hit \ overlapped /\ score'[a] = score[a]
          BY <2>2, <2>3, <3>0, <3>1
        <4>2. Installing' = Installing \/ ~(Installing'.delta > 0)
          BY <1>0, <2>2, IdleTyped
        <4> QED BY <4>1, <4>2 DEF SafeInv
      <3>2. CASE a = i.app /\ i.delta = -100
        <4>1. score'[a] = 0
          BY <2>1, <2>2, <3>2, ClampedInRange
        <4> QED BY <4>1
      <3>3. CASE a = i.app /\ i.delta # -100
        <4>1. a \in hit \ overlapped /\ i.seen = score[a]
          BY <2>3, <3>3
        <4>2. score[a] \in Score /\ score[a] <= 20
          BY <3>0, <4>1 DEF SafeInv, StoreTypes
        <4>3. CASE i.delta > 0
          <5>1. t = "command"
            BY <1>0, <1>a, <2>0, <2>1, <4>3 DEF Delta
          <5>2. score[a] = 0
            BY <2>0, <3>3, <4>1, <4>3, <5>1 DEF SafeInv
          <5>3. score'[a] <= 20
            BY <2>1, <2>2, <3>3, <4>1, <5>2, ClampedInRange
          <5> QED BY <2>2, <5>1, <5>3, IdleTyped
        <4>4. CASE i.delta <= 0
          <5>1. score'[a] <= score[a] /\ score'[a] \in Score
            BY <2>1, <2>2, <3>3, <4>1, <4>4, ClampedInRange
          <5>2. score'[a] <= 20 /\ (score[a] = 0 => score'[a] = 0)
            BY <4>2, <5>1 DEF Score
          <5>3. Installing' = Installing \/ ~(Installing'.delta > 0)
            BY <1>0, <2>2, IdleTyped
          <5> QED BY <4>1, <5>2, <5>3 DEF SafeInv
        <4> QED BY <2>1, <4>3, <4>4 DEF Delta
      <3> QED BY <3>1, <3>2, <3>3
    <2> QED BY <2>4, <2>5 DEF SafeInv
  <1>8. ASSUME NEW t \in Task, NEW a \in App, BeginRevoke(t, a) PROVE SafeInv'
    <2> DEFINE step == [Idle EXCEPT !.pc = "revoke", !.app = a, !.delta = -100,
                                   !.snapshot = revoked]
    <2>1. Begin(t, step) /\ UNCHANGED <<revoked, score, hit, overlapped>>
      BY <1>8 DEF BeginRevoke
    <2>2. step \in TaskState /\ step.delta = -100
      BY RevokeStepTyped, Zenon
    <2> HIDE DEF step
    <2> QED BY <1>b, <2>1, <2>2
  <1>9. ASSUME NEW a \in App, Uninstall(a) PROVE SafeInv'
    BY <1>0, <1>9, <1>b, <1>c DEF Uninstall
  <1>10. ASSUME NEW a \in App, BeginReport(a) PROVE SafeInv'
    <2> DEFINE step == [Idle EXCEPT !.pc = "save", !.app = a, !.delta = -30, !.seen = score[a]]
    <2>1. Begin("command", step) /\ UNCHANGED <<revoked, score, hit, overlapped>>
      BY <1>10 DEF BeginReport
    <2>2. step \in TaskState /\ step.delta = -30
      BY ReportStepTyped, Zenon
    <2> HIDE DEF step
    <2> QED BY <1>0, <1>b, <2>1, <2>2
  <1>11. ASSUME NEW a \in App, NEW e \in BOOLEAN, SetSafeMode(a, e) PROVE SafeInv'
    BY <1>0, <1>11, <1>b, <1>c DEF SetSafeMode
  <1>12. CASE Reopen
    <2>1. task'["command"] = Idle /\ task'["dispatch"] = Idle
      BY <1>0, <1>12 DEF Reopen
    <2> QED BY <1>12, <1>a, <1>c, <2>1, IdleTyped, SafeUntouched DEF Reopen
  <1>13. CASE UNCHANGED storeVars
    BY <1>13, <1>a, SafeUntouched DEF storeVars
  <1> QED
    BY <1>1, <1>2, <1>3, <1>4, <1>5, <1>6, <1>7, <1>8, <1>9, <1>10, <1>11, <1>12, <1>13
       DEF MiniAppsNext

(* A revoked app runs in safe mode while the snapshot names it, unless a     *)
(* score was saved from a stale read (ingest_gossip_revocation,              *)
(* preview_install, apply_delta).                                            *)
THEOREM RevokedAreSafe == MiniAppsSpec => []RevokedRunsSafe
  <1>1. MiniAppsInit => SafeInv
    BY IdleTyped DEF MiniAppsInit, SafeInv, Task
  <1>2. StoreTypes /\ SafeInv /\ [MiniAppsNext]_storeVars => SafeInv'
    BY SafeStep
  <1>3. StoreTypes /\ SafeInv => RevokedRunsSafe
    <2> SUFFICES ASSUME StoreTypes, SafeInv, NEW a \in hit \ overlapped
                 PROVE  score[a] < 40
      BY DEF RevokedRunsSafe, EffectiveSafeMode, ForcedSafeMode
    <2>1. score[a] <= 20 /\ score[a] \in 0 .. 100
      BY DEF SafeInv, StoreTypes, Score
    <2> QED BY <2>1
  <1> QED BY <1>1, <1>2, <1>3, StoreTyped, PTL DEF MiniAppsSpec
=============================================================================
