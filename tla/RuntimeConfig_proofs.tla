------------------------ MODULE RuntimeConfig_proofs ------------------------
(***************************************************************************)
(* Proofs about RuntimeConfig, for any processes, robots and interfaces:   *)
(* whatever is killed, fails or loses its power, a save is whole and lasts.*)
(*                                                                         *)
(* A save lasts because only the holder of the lock changes a file, what   *)
(* it renames has been forced to the disk, and until it has reported, the  *)
(* file's name leads to its text.                                          *)
(***************************************************************************)
EXTENDS RuntimeConfig, TLAPS

Contents == Registry \cup Cameras

WorkType ==
  [job : Programs \cup {"none"}, at : Places, then : Places,
   robot : Name \cup {Absent}, file : File, text : Contents, forced : BOOLEAN]

FilesTyped ==
  /\ offered \in SUBSET Interfaces /\ offered # {}
  /\ core \in {"current", "stale", "part"}
  /\ lock \in Tool \cup {Free}
  /\ visible \in [File -> Contents]
  /\ durable \in [File -> SUBSET Contents] /\ owed \in [File -> SUBSET Contents]
  /\ \A f \in File : owed[f] \subseteq Text(f)

Sound(w) ==
  /\ w.text \in Text(w.file)
  /\ w.then \notin Writing
  /\ w.job = "none" => w.at = "idle"
  /\ w.job = "configure" => w.robot \in Name

WorkTyped ==
  /\ work \in [Tool -> WorkType]
  /\ \A t \in Tool : Sound(work[t])

Exclusive == \A t \in Tool : (lock = t) <=> (work[t].at \in Writing)

\* How far a tool has come with its save.
Sure(t) ==
  /\ work[t].at = "renaming" => work[t].forced
  /\ work[t].at \in {"settling", "saved"} => visible[work[t].file] = work[t].text
  /\ work[t].at = "saved" /\ work[t].forced
       => durable[work[t].file] = {work[t].text}

\* The inductive invariant.
ConfigInv ==
  /\ FilesTyped /\ WorkTyped
  /\ Exclusive
  /\ \A t \in Tool : Sure(t)
  /\ SavesSurvive

USE DEF Free, Absent, Unknown, File

LEMMA Constants == "free" \notin Tool /\ Interfaces # {} /\ \A t \in Tool : Runs[t] \subseteq Programs
BY ConfigAssumption

LEMMA NoWorkIsTyped ==
  /\ NoWork \in WorkType /\ Sound(NoWork)
  /\ NoWork.at = "idle" /\ NoWork.at \notin Writing
BY DEF NoWork, Sound, WorkType, Programs, Places, Contents, Cameras, Text, Writing

LEMMA InvInitially == ConfigInit => ConfigInv
<1> SUFFICES ASSUME ConfigInit PROVE ConfigInv
  OBVIOUS
<1>1. /\ [robots |-> [n \in Name |-> Absent]] \in Registry
      /\ Unknown \in Cameras
  BY DEF Registry, Cameras
<1>2. \A f \in File : visible[f] \in Text(f)
  BY <1>1 DEF ConfigInit, Text
<1>3. FilesTyped
  BY <1>1, <1>2, Constants DEF ConfigInit, FilesTyped, Contents, Text
<1>4. WorkTyped
  BY NoWorkIsTyped DEF ConfigInit, WorkTyped
<1>5. Exclusive
  BY NoWorkIsTyped, Constants DEF ConfigInit, Exclusive
<1>6. \A t \in Tool : Sure(t)
  BY NoWorkIsTyped DEF ConfigInit, Sure
<1>7. SavesSurvive
  BY DEF ConfigInit, SavesSurvive
<1> QED
  BY <1>3, <1>4, <1>5, <1>6, <1>7 DEF ConfigInv

-----------------------------------------------------------------------------
(* The steps of a tool outside its saves.                                  *)

\* What a tool goes on with.
LEMMA GoesOn ==
  ASSUME ConfigInv, NEW t \in Tool, work[t].at # "idle", NEW place \in Places,
         GoesTo(t, place)
  PROVE  \E w \in WorkType :
           /\ work' = [work EXCEPT ![t] = w]
           /\ Sound(w) /\ w.at = place
           /\ place # "idle" => /\ w.file = work[t].file /\ w.text = work[t].text
                                /\ w.forced = work[t].forced
<1>1. CASE place = "idle"
  BY <1>1, NoWorkIsTyped DEF GoesTo
<1>2. CASE place # "idle"
  <2> DEFINE w == [work[t] EXCEPT !.at = place]
  <2>1. work[t] \in WorkType /\ Sound(work[t])
    BY DEF ConfigInv, WorkTyped
  <2>2. /\ w \in WorkType /\ w.at = place /\ w.file = work[t].file
        /\ w.text = work[t].text /\ w.forced = work[t].forced
        /\ w.then = work[t].then /\ w.job = work[t].job /\ w.robot = work[t].robot
    BY <2>1 DEF WorkType
  <2>3. work' = [work EXCEPT ![t] = w]
    BY <1>2 DEF GoesTo
  <2>4. Sound(w)
    BY <2>1, <2>2 DEF Sound
  <2> HIDE DEF w
  <2> QED BY <1>2, <2>2, <2>3, <2>4
<1> QED BY <1>1, <1>2

\* A tool that holds no lock, before and after, keeps the invariant.
LEMMA OutsideSaves ==
  ASSUME ConfigInv, NEW t \in Tool, work[t].at \notin Writing,
         NEW w \in WorkType, work' = [work EXCEPT ![t] = w],
         Sound(w), w.at \notin Writing,
         UNCHANGED <<offered, disk, lock>>, core' \in {"current", "stale", "part"}
  PROVE  ConfigInv'
<1>1. work \in [Tool -> WorkType] /\ work'[t] = w
      /\ \A u \in Tool \ {t} : work'[u] = work[u]
  BY DEF ConfigInv, WorkTyped
<1>2. FilesTyped' /\ SavesSurvive'
  BY DEF ConfigInv, FilesTyped, SavesSurvive, disk
<1>3. WorkTyped'
  BY <1>1 DEF ConfigInv, WorkTyped
<1>4. Exclusive'
  BY <1>1 DEF ConfigInv, Exclusive
<1>5. \A u \in Tool : Sure(u)'
  BY <1>1 DEF ConfigInv, Sure, disk, Writing
<1> QED BY <1>2, <1>3, <1>4, <1>5 DEF ConfigInv

\* A registry made from the one on the disk is a registry.
LEMMA Registries ==
  ASSUME ConfigInv
  PROVE  /\ LoadRobotRegistry \in Registry
         /\ \A r \in Registry, skipped \in SUBSET Name :
              /\ RepairInvalid(r, skipped) \in Registry
              /\ QuarantineInvalid(r, skipped) \in Registry
         /\ \A r \in Registry, n \in Name, entry \in Interfaces :
              [r EXCEPT !.robots[n] = entry] \in Registry
<1>1. visible["robots"] \in owed["robots"] /\ owed["robots"] \subseteq Text("robots")
  BY DEF ConfigInv, FilesTyped, SavesSurvive
<1>2. LoadRobotRegistry \in Registry
  BY <1>1 DEF LoadRobotRegistry, Text
<1>3. Baseline \in Interfaces
  BY DEF ConfigInv, FilesTyped, Baseline
<1>4. ASSUME NEW r \in Registry, NEW robots \in [Name -> Interfaces \cup {Absent}]
      PROVE  [r EXCEPT !.robots = robots] \in Registry
  BY DEF Registry
<1>5. ASSUME NEW r \in Registry, NEW skipped \in SUBSET Name
      PROVE  /\ RepairInvalid(r, skipped) \in Registry
             /\ QuarantineInvalid(r, skipped) \in Registry
  <2>1. r.robots \in [Name -> Interfaces \cup {Absent}]
    BY DEF Registry
  <2>2. [n \in Name |-> IF Unfit(r, n) /\ n \in Listed \ skipped THEN Baseline ELSE r.robots[n]]
          \in [Name -> Interfaces \cup {Absent}]
    BY <1>3, <2>1
  <2>3. [n \in Name |-> IF Unfit(r, n) /\ n \notin skipped THEN Absent ELSE r.robots[n]]
          \in [Name -> Interfaces \cup {Absent}]
    BY <2>1
  <2>4. RepairInvalid(r, skipped) \in Registry
    BY <1>4, <2>2 DEF RepairInvalid
  <2>5. QuarantineInvalid(r, skipped) \in Registry
    BY <1>4, <2>3 DEF QuarantineInvalid
  <2> QED BY <2>4, <2>5
<1>6. ASSUME NEW r \in Registry, NEW n \in Name, NEW entry \in Interfaces
      PROVE  [r EXCEPT !.robots[n] = entry] \in Registry
  BY DEF Registry
<1> QED BY <1>2, <1>5, <1>6

\* A tool that prepares a save waits for the lock.
LEMMA SaveIsPrepared ==
  ASSUME ConfigInv, NEW t \in Tool, work[t].at \notin Writing,
         work[t].at # "idle",
         NEW f \in File, NEW text \in Text(f), NEW then \in Places \ Writing,
         Saves(t, f, text, then), UNCHANGED files
  PROVE  ConfigInv'
<1> DEFINE w == [work[t] EXCEPT !.at = "waiting", !.then = then, !.file = f, !.text = text]
<1>1. work[t] \in WorkType /\ Sound(work[t])
  BY DEF ConfigInv, WorkTyped
<1>2. text \in Contents /\ "waiting" \in Places /\ "waiting" \notin Writing
  BY DEF Text, Contents, Places, Writing
<1>3. /\ w \in WorkType /\ w.text = text /\ w.file = f /\ w.at = "waiting"
      /\ w.then = then /\ w.job = work[t].job /\ w.robot = work[t].robot
  BY <1>1, <1>2 DEF WorkType
<1>6. Sound(w)
  BY <1>1, <1>3 DEF Sound
<1>4. work' = [work EXCEPT ![t] = w]
  BY DEF Saves
<1>5. core' \in {"current", "stale", "part"}
  BY DEF files, ConfigInv, FilesTyped
<1> HIDE DEF w
<1> QED BY <1>2, <1>3, <1>4, <1>5, <1>6, OutsideSaves DEF files

\* A tool that goes to a place outside its saves.
LEMMA TurnsAway ==
  ASSUME ConfigInv, NEW t \in Tool, work[t].at \notin Writing, work[t].at # "idle",
         NEW place \in Places \ Writing, GoesTo(t, place),
         UNCHANGED <<offered, disk, lock>>, core' \in {"current", "stale", "part"}
  PROVE  ConfigInv'
<1>1. PICK w \in WorkType : /\ work' = [work EXCEPT ![t] = w]
                            /\ Sound(w) /\ w.at = place
  BY GoesOn
<1> QED BY <1>1, OutsideSaves

LEMMA PlacesAreApart ==
  /\ {"idle", "refresh", "repair", "merge", "recheck", "finish", "copying", "look",
      "menu", "waiting"} \subseteq Places \ Writing
  /\ Places \ Writing \subseteq {"idle", "refresh", "repair", "merge", "recheck", "finish", "copying", "look",
      "menu", "waiting"}
  /\ Writing \subseteq Places
BY DEF Places, Writing

\* The steps of the tools that are not part of a save.
LEMMA ToolSteps ==
  ASSUME ConfigInv, NEW t \in Tool,
         \/ StartSync(t) \/ StartConfigure(t) \/ StartWheelTest(t) \/ StartFlipper(t)
         \/ StartCameraProfile(t) \/ RefreshCoreProfiles(t) \/ Copied(t) \/ Repair(t)
         \/ Import(t) \/ EnsureRobotEntry(t) \/ EnsureCameraProfile(t)
         \/ WheelTest(t) \/ FlipCamera(t) \/ SaveCameraProfile(t) \/ LockTimeout(t)
  PROVE  ConfigInv'
<1> USE PlacesAreApart
<1>0. work[t] \in WorkType /\ Sound(work[t])
      /\ core \in {"current", "stale", "part"}
  BY DEF ConfigInv, WorkTyped, FilesTyped
<1>1. ASSUME NEW job \in Programs, NEW n \in Name \cup {Absent},
             NEW place \in {"refresh", "merge", "menu"}, Begins(t, job, n, place),
             job = "configure" => n \in Name
      PROVE  ConfigInv'
  <2> DEFINE w == [NoWork EXCEPT !.job = job, !.robot = n, !.at = place]
  <2>1. /\ w \in WorkType /\ w.text = NoWork.text /\ w.file = NoWork.file /\ w.at = place
        /\ w.then = NoWork.then /\ w.job = job /\ w.robot = n
    BY NoWorkIsTyped DEF WorkType
  <2>4. Sound(w)
    BY <1>1, <2>1, NoWorkIsTyped DEF Sound, Programs
  <2>2. work' = [work EXCEPT ![t] = w] /\ work[t].job = "none"
    BY <1>1 DEF Begins
  <2>3. work[t].at \notin Writing
    BY <1>0, <2>2 DEF Sound
  <2> HIDE DEF w
  <2> QED BY <1>0, <1>1, <2>1, <2>2, <2>3, <2>4, OutsideSaves DEF Begins, files
<1>2. CASE StartSync(t)
  BY <1>1, <1>2 DEF StartSync, Programs
<1>3. CASE StartConfigure(t)
  BY <1>1, <1>3 DEF StartConfigure, Programs
<1>4. CASE StartWheelTest(t)
  BY <1>1, <1>4 DEF StartWheelTest, Programs
<1>5. CASE StartFlipper(t)
  BY <1>1, <1>5 DEF StartFlipper, Programs
<1>6. CASE StartCameraProfile(t)
  BY <1>1, <1>6 DEF StartCameraProfile, Programs
<1>7. CASE RefreshCoreProfiles(t)
  <2> DEFINE then == IF work[t].at = "refresh" THEN "repair"
                     ELSE IF work[t].job = "sync" THEN "idle" ELSE "look"
             w == [work[t] EXCEPT !.at = "copying", !.then = then]
  <2>1. work[t].at \notin Writing /\ then \in Places \ Writing
    BY <1>7 DEF RefreshCoreProfiles
  <2>2. CASE core = "current"
    BY <1>0, <1>7, <2>1, <2>2, TurnsAway DEF RefreshCoreProfiles
  <2>3. CASE core # "current"
    <3>1. work' = [work EXCEPT ![t] = w] /\ core' = "part"
      BY <1>7, <2>3 DEF RefreshCoreProfiles
    <3>2. /\ w \in WorkType /\ w.text = work[t].text /\ w.file = work[t].file /\ w.at = "copying"
          /\ w.then = then /\ w.job = work[t].job /\ w.robot = work[t].robot
      BY <1>0, <2>1 DEF WorkType
    <3>3. Sound(w)
      BY <1>0, <1>7, <2>1, <3>2 DEF Sound, RefreshCoreProfiles
    <3> HIDE DEF w
    <3> QED BY <1>0, <1>7, <2>1, <3>1, <3>2, <3>3, OutsideSaves DEF RefreshCoreProfiles
  <2> QED BY <2>2, <2>3
<1>8. CASE Copied(t)
  <2>1. work[t].at = "copying" /\ work[t].then \in Places \ Writing
    BY <1>0, <1>8 DEF Copied, Sound, WorkType
  <2> QED BY <1>8, <2>1, TurnsAway DEF Copied
<1>9. ASSUME NEW r \in Registry, NEW then \in Places \ Writing, SavesIfChanged(t, r, then),
             work[t].at \notin Writing, work[t].at # "idle", UNCHANGED files
      PROVE  ConfigInv'
  <2>1. CASE r = LoadRobotRegistry
    BY <1>0, <1>9, <2>1, TurnsAway DEF SavesIfChanged, files
  <2>2. CASE r # LoadRobotRegistry
    BY <1>9, <2>2, SaveIsPrepared DEF SavesIfChanged, Text
  <2> QED BY <2>1, <2>2
<1>10. CASE Repair(t)
  <2>1. /\ QuarantineInvalid(RepairInvalid(LoadRobotRegistry, {}), {}) \in Registry
        /\ work[t].at \notin Writing /\ work[t].at # "idle"
    BY <1>10, Registries DEF Repair
  <2> QED BY <1>9, <1>10, <2>1 DEF Repair
<1>11. ASSUME NEW n \in Name, NEW entry \in Interfaces, Merge(t, n, entry)
       PROVE  ConfigInv'
  <2> DEFINE skipped == IF work[t].job = "sync" THEN {} ELSE {n}
             r == QuarantineInvalid(RepairInvalid(LoadRobotRegistry, skipped), {n})
  <2>1. skipped \in SUBSET Name /\ {n} \in SUBSET Name
    OBVIOUS
  <2>2. r \in Registry
    BY <2>1, Registries
  <2>3. [r EXCEPT !.robots[n] = entry] \in Registry
        /\ work[t].at \notin Writing /\ work[t].at # "idle"
    BY <1>11, <2>2, Registries DEF Merge
  <2>4. /\ SavesIfChanged(t, [r EXCEPT !.robots[n] = entry],
                          IF work[t].job = "sync" THEN "recheck" ELSE "finish")
        /\ UNCHANGED files
    BY <1>11 DEF Merge
  <2> HIDE DEF r
  <2> QED BY <1>9, <2>3, <2>4
<1>12. CASE Import(t)
  BY <1>11, <1>12 DEF Import
<1>13. CASE EnsureRobotEntry(t)
  <2>1. PICK entry \in offered : Merge(t, work[t].robot, entry) /\ work[t].job = "configure"
    BY <1>13 DEF EnsureRobotEntry
  <2>2. work[t].robot \in Name /\ entry \in Interfaces
    BY <1>0, <2>1 DEF ConfigInv, FilesTyped, Sound
  <2> QED BY <1>11, <2>1, <2>2
<1>14. CASE EnsureCameraProfile(t)
  BY <1>0, <1>14, TurnsAway DEF EnsureCameraProfile, files
<1>15. CASE WheelTest(t)
  <2>1. LoadRobotRegistry \in Text("robots")
    BY Registries DEF Text
  <2> QED BY <1>15, <2>1, SaveIsPrepared DEF WheelTest, SaveGpioOverrides
<1>16. [camera |-> "known"] \in Text("cameras")
  BY DEF Text, Cameras
<1>17. CASE FlipCamera(t)
  BY <1>16, <1>17, SaveIsPrepared DEF FlipCamera, SavesCamera
<1>18. CASE SaveCameraProfile(t)
  BY <1>16, <1>18, SaveIsPrepared DEF SaveCameraProfile, SavesCamera
<1>19. CASE LockTimeout(t)
  BY <1>0, <1>19, TurnsAway DEF LockTimeout, Fails, files
<1> QED BY <1>2, <1>3, <1>4, <1>5, <1>6, <1>7, <1>8, <1>10, <1>12, <1>13, <1>14,
           <1>15, <1>17, <1>18, <1>19

-----------------------------------------------------------------------------
(* The steps of a save, and what may befall it.                            *)

\* While t holds the lock nobody else is in a save.
LEMMA OneWriter ==
  ASSUME ConfigInv, NEW t \in Tool, work[t].at \in Writing
  PROVE  lock = t /\ \A u \in Tool \ {t} : work[u].at \notin Writing
BY DEF ConfigInv, Exclusive

\* A step of t that leaves the files alone.
LEMMA FilesStay ==
  ASSUME ConfigInv, NEW t \in Tool, UNCHANGED <<offered, disk, core>>,
         lock' \in Tool \cup {Free},
         NEW w \in WorkType, work' = [work EXCEPT ![t] = w], Sound(w)
  PROVE  /\ FilesTyped' /\ WorkTyped' /\ SavesSurvive'
         /\ \A u \in Tool \ {t} : Sure(u)'
<1>1. work \in [Tool -> WorkType] /\ \A u \in Tool : Sound(work[u])
  BY DEF ConfigInv, WorkTyped
<1>2. FilesTyped' /\ SavesSurvive'
  BY DEF ConfigInv, FilesTyped, SavesSurvive, disk
<1>3. WorkTyped'
  BY <1>1 DEF WorkTyped
<1>4. \A u \in Tool \ {t} : Sure(u)'
  BY <1>1 DEF ConfigInv, Sure, disk
<1> QED BY <1>2, <1>3, <1>4

LEMMA SaveSteps ==
  ASSUME ConfigInv, NEW t \in Tool,
         \/ Acquire(t) \/ WriteTemp(t) \/ SyncTemp(t) \/ WriteFails(t) \/ Ends(t)
  PROVE  ConfigInv'
<1> USE PlacesAreApart, Constants
<1>0. work \in [Tool -> WorkType] /\ work[t] \in WorkType /\ Sound(work[t])
  BY DEF ConfigInv, WorkTyped
<1>1. CASE Acquire(t)
  <2>1. PICK w \in WorkType : work' = [work EXCEPT ![t] = w] /\ Sound(w) /\ w.at = "making"
    BY <1>1, GoesOn DEF Acquire, Writing
  <2>2. lock' = t /\ lock = Free /\ UNCHANGED <<offered, disk, core>>
    BY <1>1 DEF Acquire
  <2>3. Exclusive'
    BY <1>0, <2>1, <2>2 DEF ConfigInv, Exclusive, Writing
  <2>4. Sure(t)'
    BY <1>0, <2>1 DEF Sure
  <2> QED BY <2>1, <2>2, <2>3, <2>4, FilesStay DEF ConfigInv
<1>2. CASE WriteTemp(t)
  <2>1. PICK w \in WorkType : work' = [work EXCEPT ![t] = w] /\ Sound(w) /\ w.at = "syncing"
    BY <1>2, GoesOn DEF WriteTemp, Writing
  <2>2. UNCHANGED <<offered, disk, core, lock>> /\ work[t].at = "making" /\ lock \in Tool \cup {Free}
    BY <1>2 DEF WriteTemp, files, ConfigInv, FilesTyped
  <2>3. Exclusive'
    BY <1>0, <2>1, <2>2 DEF ConfigInv, Exclusive, Writing
  <2>4. Sure(t)'
    BY <1>0, <2>1 DEF Sure
  <2> QED BY <2>1, <2>2, <2>3, <2>4, FilesStay DEF ConfigInv
<1>3. CASE SyncTemp(t)
  <2> DEFINE w == [work[t] EXCEPT !.at = "renaming", !.forced = TRUE]
  <2>1. /\ w \in WorkType /\ w.at = "renaming" /\ w.forced /\ w.text = work[t].text
        /\ w.file = work[t].file /\ w.then = work[t].then /\ w.job = work[t].job
        /\ w.robot = work[t].robot
    BY <1>0 DEF WorkType, Writing
  <2>2. UNCHANGED <<offered, disk, core, lock>> /\ lock \in Tool \cup {Free}
        /\ work[t].at = "syncing" /\ work' = [work EXCEPT ![t] = w]
    BY <1>3 DEF SyncTemp, files, ConfigInv, FilesTyped
  <2>5. Sound(w)
    BY <1>0, <2>1, <2>2 DEF Sound
  <2> HIDE DEF w
  <2>3. Exclusive'
    BY <1>0, <2>1, <2>2 DEF ConfigInv, Exclusive, Writing
  <2>4. Sure(t)'
    BY <1>0, <2>1, <2>2 DEF Sure
  <2> QED BY <2>1, <2>2, <2>3, <2>4, <2>5, FilesStay DEF ConfigInv
<1>4. CASE WriteFails(t) \/ Ends(t)
  <2>1. PICK place \in {"idle", "menu"} : GoesTo(t, place)
    BY <1>4 DEF WriteFails, Ends, Fails
  <2>2. CASE work[t].at = "idle"
    <3>1. UNCHANGED <<offered, disk, core>> /\ GoesTo(t, "idle")
      BY <1>4, <2>1, <2>2 DEF WriteFails, Ends
    <3>2. lock # t /\ lock' = lock
      BY <1>4, <2>2 DEF WriteFails, Ends, ConfigInv, Exclusive
    <3>3. work' = [work EXCEPT ![t] = NoWork] /\ core' \in {"current", "stale", "part"}
      BY <3>1 DEF GoesTo, ConfigInv, FilesTyped
    <3> QED BY <2>2, <3>1, <3>2, <3>3, NoWorkIsTyped, OutsideSaves
  <2>3. CASE work[t].at # "idle"
    <3>1. PICK w \in WorkType : work' = [work EXCEPT ![t] = w] /\ Sound(w) /\ w.at = place
      BY <2>1, <2>3, GoesOn
    <3>2. /\ UNCHANGED <<offered, disk, core>> /\ lock' \in Tool \cup {Free}
          /\ lock' = IF lock = t THEN Free ELSE lock
      BY <1>4, OneWriter DEF WriteFails, Ends, Writing, ConfigInv, FilesTyped
    <3>3. Exclusive'
      BY <1>0, <3>1, <3>2 DEF ConfigInv, Exclusive
    <3>4. Sure(t)'
      BY <1>0, <3>1 DEF Sure
    <3> QED BY <3>1, <3>2, <3>3, <3>4, FilesStay DEF ConfigInv
  <2> QED BY <2>2, <2>3
<1> QED BY <1>1, <1>2, <1>3, <1>4

\* The renaming.
LEMMA ReplaceStep ==
  ASSUME ConfigInv, NEW t \in Tool, Replace(t)
  PROVE  ConfigInv'
<1> USE PlacesAreApart, Constants
<1> DEFINE f == work[t].file
           text == work[t].text
<1>0. /\ work \in [Tool -> WorkType] /\ Sound(work[t]) /\ work[t].forced
      /\ f \in File /\ text \in Text(f) /\ text \in Contents
  BY DEF ConfigInv, WorkTyped, Sound, Sure, Replace, WorkType
<1>1. PICK w \in WorkType : /\ work' = [work EXCEPT ![t] = w] /\ Sound(w) /\ w.at = "settling"
                            /\ w.file = f /\ w.text = text
  BY GoesOn DEF Replace, Writing
<1>2. /\ visible' = [visible EXCEPT ![f] = text]
      /\ durable' = [durable EXCEPT ![f] = @ \cup {text}]
      /\ owed' = [owed EXCEPT ![f] = @ \cup {text}]
      /\ UNCHANGED <<offered, core, lock>>
  BY <1>0 DEF Replace
<1>3. \A u \in Tool \ {t} : work[u].at \notin Writing
  BY OneWriter DEF Replace, Writing
<1>4. FilesTyped'
  BY <1>0, <1>2 DEF ConfigInv, FilesTyped
<1>5. WorkTyped'
  BY <1>0, <1>1 DEF ConfigInv, WorkTyped
<1>6. Exclusive'
  BY <1>0, <1>1, <1>2 DEF ConfigInv, Exclusive, Writing, Replace
<1>7. SavesSurvive'
  BY <1>0, <1>2 DEF ConfigInv, FilesTyped, SavesSurvive
<1>8. \A u \in Tool : Sure(u)'
  BY <1>0, <1>1, <1>2, <1>3 DEF ConfigInv, FilesTyped, Sure, Writing
<1> QED BY <1>4, <1>5, <1>6, <1>7, <1>8 DEF ConfigInv

\* The directory is forced to the disk, or cannot be.
LEMMA SyncDirectoryStep ==
  ASSUME ConfigInv, NEW t \in Tool, SyncDirectory(t)
  PROVE  ConfigInv'
<1> USE PlacesAreApart, Constants
<1> DEFINE f == work[t].file
           text == work[t].text
<1>0. /\ work \in [Tool -> WorkType] /\ work[t] \in WorkType /\ Sound(work[t])
      /\ f \in File /\ visible[f] = text /\ work[t].at = "settling"
  BY DEF ConfigInv, WorkTyped, Sound, Sure, SyncDirectory, WorkType
<1>1. PICK w \in WorkType : /\ work' = [work EXCEPT ![t] = w] /\ Sound(w) /\ w.at = "saved"
                            /\ w.file = f /\ w.text = text
                            /\ \/ durable' = [durable EXCEPT ![f] = {visible[f]}]
                               \/ UNCHANGED durable /\ ~w.forced
  <2>1. CASE durable' = [durable EXCEPT ![f] = {visible[f]}] /\ GoesTo(t, "saved")
    BY <1>0, <2>1, GoesOn DEF Writing
  <2>2. CASE UNCHANGED durable
             /\ work' = [work EXCEPT ![t] = [@ EXCEPT !.at = "saved", !.forced = FALSE]]
    <3> DEFINE w == [work[t] EXCEPT !.at = "saved", !.forced = FALSE]
    <3>1. /\ w \in WorkType /\ w.at = "saved" /\ ~w.forced /\ w.text = text
          /\ w.file = f /\ w.then = work[t].then /\ w.job = work[t].job
          /\ w.robot = work[t].robot
      BY <1>0 DEF WorkType, Writing
    <3>2. Sound(w)
      BY <1>0, <3>1 DEF Sound
    <3> HIDE DEF w
    <3>3. work' = [work EXCEPT ![t] = w]
      BY <2>2 DEF w
    <3> QED BY <2>2, <3>1, <3>2, <3>3
  <2> QED BY <2>1, <2>2 DEF SyncDirectory
<1>2. UNCHANGED <<offered, visible, core, lock, owed>>
  BY DEF SyncDirectory
<1>3. \A u \in Tool \ {t} : work[u].at \notin Writing
  BY <1>0, OneWriter DEF Writing
<1>4. FilesTyped'
  BY <1>0, <1>1, <1>2 DEF ConfigInv, FilesTyped
<1>5. WorkTyped'
  BY <1>0, <1>1 DEF ConfigInv, WorkTyped
<1>6. Exclusive'
  BY <1>0, <1>1, <1>2 DEF ConfigInv, Exclusive, Writing
<1>7. SavesSurvive'
  BY <1>0, <1>1, <1>2 DEF ConfigInv, FilesTyped, SavesSurvive
<1>8. \A u \in Tool : Sure(u)'
  BY <1>0, <1>1, <1>2, <1>3 DEF ConfigInv, FilesTyped, Sure, Writing
<1> QED BY <1>4, <1>5, <1>6, <1>7, <1>8 DEF ConfigInv

\* The tool says that it saved.
LEMMA ReportStep ==
  ASSUME ConfigInv, NEW t \in Tool, Report(t)
  PROVE  ConfigInv'
<1> USE PlacesAreApart, Constants
<1> DEFINE f == work[t].file
           text == work[t].text
<1>0. /\ work \in [Tool -> WorkType] /\ work[t] \in WorkType /\ Sound(work[t])
      /\ f \in File /\ text \in Text(f) /\ visible[f] = text /\ work[t].at = "saved"
      /\ work[t].forced => durable[f] = {text}
      /\ text \in Contents
  BY DEF ConfigInv, WorkTyped, Sound, Sure, Report, WorkType
<1>1. PICK w \in WorkType : /\ work' = [work EXCEPT ![t] = w] /\ Sound(w) /\ w.at \notin Writing
  <2>1. CASE work[t].then = "idle"
    BY <2>1, NoWorkIsTyped DEF Report
  <2>2. CASE work[t].then # "idle"
    <3> DEFINE w == [work[t] EXCEPT !.at = work[t].then, !.then = "idle", !.forced = FALSE,
                                    !.file = "cameras", !.text = Unknown]
    <3>1. Unknown \in Contents /\ Unknown \in Text("cameras")
      BY DEF Contents, Text, Cameras
    <3>2. /\ w \in WorkType /\ w.at = work[t].then /\ w.text = Unknown /\ w.then = "idle"
          /\ w.file = "cameras" /\ w.job = work[t].job /\ w.robot = work[t].robot
      BY <1>0, <3>1 DEF WorkType
    <3>3. Sound(w) /\ w.at \notin Writing
      BY <1>0, <3>1, <3>2 DEF Sound
    <3> HIDE DEF w
    <3>4. work' = [work EXCEPT ![t] = w]
      BY <2>2 DEF w, Report
    <3> QED BY <3>2, <3>3, <3>4
  <2> QED BY <2>1, <2>2
<1>2. /\ UNCHANGED <<offered, visible, durable, core>> /\ lock' = Free
      /\ owed' = IF work[t].forced THEN [owed EXCEPT ![f] = {text}] ELSE owed
  BY DEF Report
<1>3. \A u \in Tool \ {t} : work[u].at \notin Writing
  BY <1>0, OneWriter DEF Writing
<1>4. FilesTyped'
  BY <1>0, <1>2 DEF ConfigInv, FilesTyped
<1>5. WorkTyped'
  BY <1>0, <1>1 DEF ConfigInv, WorkTyped
<1>6. Exclusive'
  BY <1>0, <1>1, <1>2, <1>3 DEF Exclusive
<1>7. SavesSurvive'
  BY <1>0, <1>2 DEF ConfigInv, FilesTyped, SavesSurvive
<1>8. \A u \in Tool : Sure(u)'
  BY <1>0, <1>1, <1>2, <1>3 DEF Sure, Writing
<1> QED BY <1>4, <1>5, <1>6, <1>7, <1>8 DEF ConfigInv

\* The power is cut: of each file something that it may have led to is left.
LEMMA PowerCutStep == ConfigInv /\ PowerCut => ConfigInv'
<1> SUFFICES ASSUME ConfigInv, PowerCut PROVE ConfigInv'
  OBVIOUS
<1>1. /\ \A f \in File : visible'[f] \in durable[f]
      /\ visible' \in [File -> UNION {durable[f] : f \in File}]
      /\ durable' = [f \in File |-> {visible'[f]}] /\ owed' = durable'
      /\ lock' = Free /\ work' = [t \in Tool |-> NoWork] /\ UNCHANGED <<offered, core>>
  BY DEF PowerCut
<1>2. \A f \in File : visible'[f] \in Text(f)
  BY <1>1 DEF ConfigInv, FilesTyped, SavesSurvive
<1>3. FilesTyped'
  BY <1>1, <1>2 DEF ConfigInv, FilesTyped, Text, Contents
<1>4. WorkTyped'
  BY <1>1, NoWorkIsTyped DEF WorkTyped
<1>5. Exclusive'
  BY <1>1, NoWorkIsTyped, Constants DEF Exclusive
<1>6. \A t \in Tool : Sure(t)'
  BY <1>1, NoWorkIsTyped DEF Sure
<1>7. SavesSurvive'
  BY <1>1 DEF SavesSurvive
<1> QED BY <1>3, <1>4, <1>5, <1>6, <1>7 DEF ConfigInv

LEMMA PullStep ==
  ASSUME ConfigInv, NEW interfaces \in (SUBSET Interfaces) \ {{}}, Pull(interfaces)
  PROVE  ConfigInv'
<1>1. /\ offered' = interfaces /\ core' \in {core, "stale"}
      /\ UNCHANGED <<visible, durable, owed, lock, work>>
  BY DEF Pull, disk
<1>2. FilesTyped'
  BY <1>1 DEF ConfigInv, FilesTyped
<1>3. WorkTyped'
  BY <1>1 DEF ConfigInv, WorkTyped
<1>4. Exclusive'
  BY <1>1 DEF ConfigInv, Exclusive
<1>5. \A t \in Tool : Sure(t)'
  BY <1>1 DEF ConfigInv, Sure
<1>6. SavesSurvive'
  BY <1>1 DEF ConfigInv, SavesSurvive
<1> QED BY <1>2, <1>3, <1>4, <1>5, <1>6 DEF ConfigInv

LEMMA InvStep == ConfigInv /\ [ConfigNext]_configVars => ConfigInv'
<1> SUFFICES ASSUME ConfigInv, [ConfigNext]_configVars PROVE ConfigInv'
  OBVIOUS
<1>1. ASSUME NEW t \in Tool, ToolNext(t) PROVE ConfigInv'
  BY <1>1, ToolSteps, SaveSteps, ReplaceStep, SyncDirectoryStep, ReportStep DEF ToolNext
<1>2. CASE PowerCut
  BY <1>2, PowerCutStep
<1>3. ASSUME NEW interfaces \in (SUBSET Interfaces) \ {{}}, Pull(interfaces) PROVE ConfigInv'
  BY <1>3, PullStep
<1>4. CASE UNCHANGED configVars
  BY <1>4 DEF configVars, disk, ConfigInv, FilesTyped, WorkTyped, Exclusive, Sure, SavesSurvive
<1> QED BY <1>1, <1>2, <1>3, <1>4 DEF ConfigNext

LEMMA ConfigInvariant == ConfigSpec => []ConfigInv
BY InvInitially, InvStep, PTL DEF ConfigSpec

LEMMA ConfigIsTyped == ConfigInv => ConfigTypeOK
<1> SUFFICES ASSUME ConfigInv PROVE ConfigTypeOK
  OBVIOUS
<1>1. \A t \in Tool : work[t] \in WorkType /\ Sound(work[t])
  BY DEF ConfigInv, WorkTyped
<1>2. \A t \in Tool : /\ work[t].job \in Programs \cup {"none"}
                      /\ {work[t].at, work[t].then} \subseteq Places
                      /\ work[t].robot \in Name \cup {Absent}
                      /\ work[t].text \in Text(work[t].file)
  BY <1>1 DEF WorkType, Sound
<1> QED BY <1>2 DEF ConfigInv, ConfigTypeOK, FilesTyped, SavesSurvive, Exclusive

\* Every reachable state of the configuration directory is of the declared
\* type, and a tool holds the lock just while it writes.
THEOREM TypeCorrect == ConfigSpec => []ConfigTypeOK
BY ConfigInvariant, ConfigIsTyped, PTL

\* Whatever tools run at once, are killed, fail to write or lose their power:
\* a file's name leads to a complete text, no older than the last one that a
\* tool said it had saved (atomic_write_text, locked_config).
THEOREM SavesAreWholeAndLast == ConfigSpec => []SavesSurvive
BY ConfigInvariant, PTL DEF ConfigInv
=============================================================================
