---------------------------- MODULE RuntimeConfig ---------------------------
(***************************************************************************)
(* The files of the runtime configuration directory and the tools that     *)
(* change them: robot_instances.yaml, the robots this machine knows;       *)
(* camera_profiles.yaml, how this robot's camera is to be used; and the    *)
(* core profiles, control_types.yaml and control_interfaces.yaml.          *)
(*                                                                         *)
(* A tool is a process.  It saves one of the first two files under the     *)
(* lock of the directory, from a temporary file it renames.  It may be     *)
(* killed at any moment, its writes may fail, and the power may be cut:    *)
(* that leaves of a file what had surely reached the disk, or any later    *)
(* state of it.  The core profiles are copied in place and without the     *)
(* lock.  A robot's entry is known by the control interface it names; a    *)
(* pull of the sources may withdraw one.  Definitions named for how they   *)
(* differ from the one below them are faults a change of the code could    *)
(* bring in; no action uses them.                                          *)
(***************************************************************************)
EXTENDS Naturals, FiniteSets

CONSTANTS
  Tool,        \* the processes
  Runs,        \* the programs a process may run
  Name,        \* the robots
  Listed,      \* those the baseline in the sources lists
  Interfaces,  \* the control interfaces there have been
  Ages         \* bound: the texts of a file that may be found when it is replaced

Programs == {"sync", "configure", "wheels", "flip", "camera"}

ASSUME ConfigAssumption ==
  /\ Runs \in [Tool -> SUBSET Programs]
  /\ Listed \subseteq Name /\ Interfaces # {} /\ Ages \in Nat
  /\ "free" \notin Tool

VARIABLES
  offered,     \* the control interfaces the sources define
  visible,       \* what a file's name leads to
  durable,     \* what it may lead to after a cut of the power
  core,        \* the core profiles; "part" while or if they are half copied
  lock,        \* who holds the directory's lock
  work,        \* what each tool is at
  owed         \* history: what may be found, by what tools said they saved

disk == <<visible, durable, owed>>
configVars == <<offered, disk, core, lock, work>>

Absent == "absent"
Free == "free"
Torn == [torn |-> TRUE]   \* a file cut off
Registry == [robots : [Name -> Interfaces \cup {Absent}]]
Cameras == [camera : {"unknown", "known"}]
Unknown == [camera |-> "unknown"]
Text(f) == IF f = "robots" THEN Registry ELSE Cameras
File == {"robots", "cameras"}

Writing == {"making", "syncing", "renaming", "settling", "saved"}
Places == {"idle", "refresh", "repair", "merge", "recheck", "finish", "copying",
           "look", "menu", "waiting"} \cup Writing

\* A tool holds the lock just while it writes.
ConfigTypeOK ==
  /\ offered \in SUBSET Interfaces /\ offered # {}
  /\ core \in {"current", "stale", "part"}
  /\ lock \in Tool \cup {Free}
  /\ \A f \in File : /\ {visible[f]} \cup durable[f] \subseteq Text(f) \cup {Torn}
                     /\ owed[f] \subseteq Text(f)
  /\ \A t \in Tool :
       /\ work[t].job \in Programs \cup {"none"}
       /\ {work[t].at, work[t].then} \subseteq Places
       /\ work[t].robot \in Name \cup {Absent}
       /\ work[t].text \in Text(work[t].file)
       /\ (lock = t) <=> (work[t].at \in Writing)

NoWork == [job |-> "none", at |-> "idle", then |-> "idle", robot |-> Absent,
            file |-> "cameras", text |-> Unknown, forced |-> FALSE]

GoesTo(t, place) ==
  work' = [work EXCEPT ![t] = IF place = "idle" THEN NoWork ELSE [@ EXCEPT !.at = place]]
-----------------------------------------------------------------------------
(* The entries of a registry. *)

LoadRobotRegistry == visible["robots"]

Unfit(r, n) == r.robots[n] \notin offered \cup {Absent}

\* The interface the baseline names, one the sources define.
Baseline == CHOOSE i \in offered : TRUE

RepairInvalid(r, skipped) ==
  [r EXCEPT !.robots = [n \in Name |-> IF Unfit(r, n) /\ n \in Listed \ skipped
                                       THEN Baseline ELSE r.robots[n]]]

\* A robot in quarantine is one the registry no longer counts; the record of
\* it, which the next save drops, is left out.
QuarantineInvalid(r, skipped) ==
  [r EXCEPT !.robots = [n \in Name |-> IF Unfit(r, n) /\ n \notin skipped
                                       THEN Absent ELSE r.robots[n]]]

\* A tool with something to save waits for the lock; one that finds its
\* registry as it should be goes on at once.
Saves(t, f, text, then) ==
  work' = [work EXCEPT ![t] = [@ EXCEPT !.at = "waiting", !.then = then,
                                        !.file = f, !.text = text]]

SavesIfChanged(t, r, then) ==
  IF r = LoadRobotRegistry THEN GoesTo(t, then) ELSE Saves(t, "robots", r, then)

files == <<offered, disk, core, lock>>
-----------------------------------------------------------------------------
(* locked_config and atomic_write_text. *)

Acquire(t) ==
  /\ work[t].at = "waiting" /\ lock = Free
  /\ lock' = t
  /\ GoesTo(t, "making")
  /\ UNCHANGED <<offered, disk, core>>

\* A tool that cannot save ends; wheel_test says so and goes on.
Fails(t) == GoesTo(t, IF work[t].job = "wheels" THEN "menu" ELSE "idle")

LockTimeout(t) ==
  /\ work[t].at = "waiting" /\ lock # Free
  /\ Fails(t)
  /\ UNCHANGED files

\* The temporary file is made and written.
WriteTemp(t) ==
  /\ work[t].at = "making"
  /\ GoesTo(t, "syncing")
  /\ UNCHANGED files

\* It is forced to the disk.
SyncTemp(t) ==
  /\ work[t].at = "syncing"
  /\ work' = [work EXCEPT ![t] = [@ EXCEPT !.at = "renaming", !.forced = TRUE]]
  /\ UNCHANGED files

FailsLocked(t) ==
  /\ work[t].at \in {"making", "syncing", "renaming"}
  /\ Fails(t)
  /\ UNCHANGED files

\* Any step up to the renaming may fail: the file is then as it was.
WriteFails(t) ==
  /\ work[t].at \in {"making", "syncing", "renaming"}
  /\ lock' = Free
  /\ Fails(t)
  /\ UNCHANGED <<offered, disk, core>>

\* It takes the file's name.
Replace(t) ==
  /\ work[t].at = "renaming"
  /\ LET f == work[t].file
         outcomes == {work[t].text} \cup IF work[t].forced THEN {} ELSE {Torn}
     IN /\ Cardinality(owed[f]) <= Ages
        /\ visible' = [visible EXCEPT ![f] = work[t].text]
        /\ durable' = [durable EXCEPT ![f] = @ \cup outcomes]
        /\ owed' = [owed EXCEPT ![f] = @ \cup {work[t].text}]
  /\ GoesTo(t, "settling")
  /\ UNCHANGED <<offered, core, lock>>

LeavesTheDirectory(t) ==
  /\ work[t].at = "settling"
  /\ GoesTo(t, "saved")
  /\ UNCHANGED files

\* The directory is forced to the disk, where the file system can do so.
SyncDirectory(t) ==
  /\ work[t].at = "settling"
  /\ \/ /\ durable' = [durable EXCEPT ![work[t].file] = {visible[work[t].file]}]
        /\ GoesTo(t, "saved")
     \/ /\ work' = [work EXCEPT ![t] = [@ EXCEPT !.at = "saved", !.forced = FALSE]]
        /\ UNCHANGED durable
  /\ UNCHANGED <<offered, visible, core, lock, owed>>

\* The lock is given back and the tool says that it saved.
Report(t) ==
  /\ work[t].at = "saved"
  /\ lock' = Free
  /\ owed' = IF work[t].forced THEN [owed EXCEPT ![work[t].file] = {work[t].text}] ELSE owed
  /\ work' = [work EXCEPT ![t] =
       IF work[t].then = "idle" THEN NoWork
       ELSE [@ EXCEPT !.at = work[t].then, !.then = "idle", !.forced = FALSE,
                      !.file = "cameras", !.text = Unknown]]
  /\ UNCHANGED <<offered, visible, durable, core>>
-----------------------------------------------------------------------------
(* The tools. *)

Begins(t, job, n, place) ==
  /\ work[t].job = "none" /\ job \in Runs[t]
  /\ work' = [work EXCEPT ![t] = [NoWork EXCEPT !.job = job, !.robot = n, !.at = place]]
  /\ UNCHANGED files

\* load_profile_registry: it needs whole core profiles, which define the
\* interface of a robot it can use; what a stale one defines is left open.
Loads(n) ==
  /\ core # "part"
  /\ LoadRobotRegistry.robots[n] # Absent
  /\ core = "current" => LoadRobotRegistry.robots[n] \in offered

StartSync(t) == Begins(t, "sync", Absent, "refresh")

StartConfigure(t) == \E n \in Name : Begins(t, "configure", n, "merge")

StartWheelTest(t) == \E n \in Name : Loads(n) /\ Begins(t, "wheels", n, "menu")

StartFlipper(t) == visible["cameras"] # Unknown /\ Begins(t, "flip", Absent, "menu")

\* What camera there is and how it is best used is found out.
StartCameraProfile(t) == Begins(t, "camera", Absent, "menu")

\* refresh_runtime_core_profiles: a profile that differs is copied in place.
RefreshCoreProfiles(t) ==
  /\ work[t].at \in {"refresh", "finish"}
  /\ LET then == IF work[t].at = "refresh" THEN "repair"
                 ELSE IF work[t].job = "sync" THEN "idle" ELSE "look"
     IN IF core = "current" THEN GoesTo(t, then) /\ UNCHANGED core
        ELSE /\ core' = "part"
             /\ work' = [work EXCEPT ![t] = [@ EXCEPT !.at = "copying", !.then = then]]
  /\ UNCHANGED <<offered, disk, lock>>

Copied(t) ==
  /\ work[t].at = "copying"
  /\ core' = "current"
  /\ GoesTo(t, work[t].then)
  /\ UNCHANGED <<offered, disk, lock>>

\* _repair_runtime_registries_before_prompt, first and last.
Repair(t) ==
  /\ work[t].at \in {"repair", "recheck"}
  /\ SavesIfChanged(t, QuarantineInvalid(RepairInvalid(LoadRobotRegistry, {}), {}),
                    IF work[t].at = "repair" THEN "merge" ELSE "finish")
  /\ UNCHANGED files

\* The entry of a robot is put into the registry: as the robot has it, when it
\* is imported, or else as the baseline has it or the operator chooses.
Merge(t, n, entry) ==
  /\ work[t].at = "merge"
  /\ LET skipped == IF work[t].job = "sync" THEN {} ELSE {n}
         r == QuarantineInvalid(RepairInvalid(LoadRobotRegistry, skipped), {n})
     IN SavesIfChanged(t, [r EXCEPT !.robots[n] = entry],
                       IF work[t].job = "sync" THEN "recheck" ELSE "finish")
  /\ UNCHANGED files

Import(t) == work[t].job = "sync" /\ \E n \in Name, entry \in Interfaces : Merge(t, n, entry)

EnsureRobotEntry(t) == work[t].job = "configure" /\ \E entry \in offered : Merge(t, work[t].robot, entry)

\* ensure_camera_profile: the camera is looked for where none is known.
EnsureCameraProfile(t) ==
  /\ work[t].at = "look"
  /\ GoesTo(t, IF visible["cameras"] = Unknown THEN "menu" ELSE "idle")
  /\ UNCHANGED files

\* The robot's pins are saved in its entry, if that is still there.
SaveGpioOverrides(t) ==
  /\ LoadRobotRegistry.robots[work[t].robot] # Absent
  /\ Saves(t, "robots", LoadRobotRegistry, "menu")

\* The operator of wheel_test has tried the wheels and asks for that.
WheelTest(t) ==
  /\ work[t].at = "menu" /\ work[t].job = "wheels"
  /\ SaveGpioOverrides(t)
  /\ UNCHANGED files

SavesCamera(t, then) == Saves(t, "cameras", [camera |-> "known"], then)

\* The operator of camera_flipper turns the picture, as often as he likes.
FlipCamera(t) ==
  /\ work[t].at = "menu" /\ work[t].job = "flip"
  /\ SavesCamera(t, "menu")
  /\ UNCHANGED files

\* save_camera_profile, of its own or from configure_robot_profile.
SaveCameraProfile(t) ==
  /\ work[t].at = "menu" /\ work[t].job \in {"configure", "camera"}
  /\ SavesCamera(t, "idle")
  /\ UNCHANGED files

\* A tool ends: its operator leaves it, an error, or it is killed.
Ends(t) ==
  /\ work[t].job # "none"
  /\ GoesTo(t, "idle")
  /\ lock' = IF lock = t THEN Free ELSE lock
  /\ UNCHANGED <<offered, disk, core>>

ToolNext(t) ==
  \/ StartSync(t) \/ StartConfigure(t) \/ StartWheelTest(t) \/ StartFlipper(t)
  \/ StartCameraProfile(t) \/ RefreshCoreProfiles(t) \/ Copied(t) \/ Repair(t)
  \/ Import(t) \/ EnsureRobotEntry(t) \/ EnsureCameraProfile(t)
  \/ WheelTest(t) \/ FlipCamera(t) \/ SaveCameraProfile(t)
  \/ Acquire(t) \/ LockTimeout(t) \/ WriteTemp(t) \/ SyncTemp(t) \/ WriteFails(t)
  \/ Replace(t) \/ SyncDirectory(t) \/ Report(t) \/ Ends(t)
-----------------------------------------------------------------------------
PowerCut ==
  /\ \E rest \in [File -> UNION {durable[f] : f \in File}] :
       /\ \A f \in File : rest[f] \in durable[f]
       /\ visible' = rest
       /\ durable' = [f \in File |-> {rest[f]}] /\ owed' = durable'
  /\ lock' = Free
  /\ work' = [t \in Tool |-> NoWork]
  /\ UNCHANGED <<offered, core>>

\* The sources are brought up to date; nobody copies from them meanwhile.
Pull(interfaces) ==
  /\ interfaces # offered
  /\ \A t \in Tool : work[t].at # "copying"
  /\ offered' = interfaces
  /\ core' = IF core = "current" THEN "stale" ELSE core
  /\ UNCHANGED <<disk, lock, work>>

ConfigInit ==
  /\ offered = Interfaces /\ core = "current" /\ lock = Free
  /\ visible = [f \in File |-> IF f = "cameras" THEN Unknown
                ELSE [robots |-> [n \in Name |-> Absent]]]
  /\ durable = [f \in File |-> {visible[f]}] /\ owed = durable
  /\ work = [t \in Tool |-> NoWork]

ConfigNext ==
  \/ \E t \in Tool : ToolNext(t)
  \/ PowerCut
  \/ \E interfaces \in (SUBSET Interfaces) \ {{}} : Pull(interfaces)

ConfigSpec == ConfigInit /\ [][ConfigNext]_configVars
-----------------------------------------------------------------------------
\* Every save is whole and lasts: however tools, kills, failing writes and cuts
\* of the power follow one another, the name of a file leads, now and after a
\* cut, to a complete text, and to none older than the last one a tool said it
\* had saved (where the directory could be forced to the disk).
SavesSurvive ==
  \A f \in File : {visible[f]} \cup durable[f] \subseteq owed[f]
=============================================================================
