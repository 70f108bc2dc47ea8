# swarm_control_core in TLA+

Models of swarm_control_core, the software with which operators drive a small
fleet of robots: from a browser page through the control server and the drive
hub over `cmd_vel` to the motor driver and its wheels, from a playbook runner
through the unit executor to the same driver, and what stands beside that path:
the keyboard terminal, the camera's autonomy, the video on the page and the
tools that write the configuration. Each module is translated from the Python
source; TLC checks small instances, TLAPS proves the central safety properties
for every value of the constants. `PROJECT.json` lists the components, the runs,
the lines each definition stands for, the hazards and the theorems.

    tlc -workers 2 -config hub_chain.cfg DriveHubMC.tla
    tlapm DriveHub_proofs.tla

## The system

Every robot runs a motor driver, a unit executor, a heartbeat and, if it has a
camera, a camera node and a camera autonomy node. A control machine runs the FPV
server (one process: an asyncio web server and a ROS node in a second thread) or
one of the two terminal programs. They meet on ROS topics, `/<robot>/cmd_vel`
above all: best effort, depth 1 at the driver, and any number of publishers.
There is no broker and no arbiter; what keeps a robot safe is a chain of
time-outs, locks and overrides, each kept by a different process.

| component (source) | state | operations | modules |
|---|---|---|---|
| motor driver (`motor_driver_node.py`, `hardware_interface.py`, `drive_types.py`) | pins, ramp state of each wheel, last command and output times, stall timer, publisher count | `cmd_vel_callback`, `_watchdog`, `_monitor_cmd_vel_publishers`, `destroy_node` | `MotorDriver`, `Deadman` |
| control server (`BrowserServer` in `swarm_fpv_ui.py`) | login sessions by id, user and client, sockets, control locks | login, logout, `handle_ws` and its messages, lock and session reapers | `ControlServer` |
| drive hub (`RosFleetHub` in `swarm_fpv_ui.py`) | drive target, its time and the last publication of each robot | `set_drive_target`, `_drive_publish_tick` | `DriveHub` |
| operator page (the script in `swarm_fpv_ui.py`) | active robot and pending choice, held keys and buttons, one video connection, tiles | key and button handlers, greeting, poll, `setupWebRTC` and its loops, `refreshThumbs` | `ActiveRobot`, `PageDrive`, `PageVideo`, `PageThumbs` |
| image subscriptions and peer sessions (`swarm_fpv_ui.py`) | interest, subscriptions, last frame of each format and its time, decoded picture, peers | frame callback, subscription timer, `mark_interest`, camera health, offer and close | `ImageFeeds`, `PeerSessions` |
| unit executor (`unit_executor_action_server.py`, `playbook_helpers.py`, `playbook_contract.py`, `playbook_strategies.py`) | override event and its time, the command in execution | `_human_override_cb`, `_command_topic_cb` and everything it calls | `UnitExecutor` |
| playbook runner (`terminal_playbook_runner.py`) | queue of playbooks, goals under way, their handles and results, pipelines | menus, dispatch, poll, sequence, emergency stop | `PlaybookRunner` |
| terminal teleoperation (`swarm_teleop.py`) | current robot and its settings, last twist, override, heartbeats | key loop, choice of a robot, republication, offline watchdog | `Fleet`, `Teleop` |
| camera autonomy (`camera_autonomy_node.py`) | mode, latched override, last frame, time of a turn | control tick, override, mode and image callbacks | `Fleet`, `CameraAutonomy` |
| registry and camera tools (`config_io.py` and its callers) | YAML files, one lock file, what has reached the disk | locked and atomic writes; `sync`, `configure`, `flip`, camera profile and wheel test | `RuntimeConfig` |
| authentication backends, camera node, drive profiles, adapters, audit log, heartbeat, GPIO backends, launch files | none that outlives a call, or files only | | not modelled, or modelled with their readers |

Three modules compose others: `DriveHub` has the driver (as `Deadman`) below the
hub, `Overriding` lets a terminal and a camera's autonomy meet on one robot, and
`Consoles` holds seven programs that share nothing, each checked by itself.

How they interact, and what is hard about it:

* The **browser** repeats a held drive every 100 ms over a web socket; the
  **control server** decides, by session and control lock, whether it may, and
  hands it to the **hub**. Its handlers are coroutines: between two awaits other
  handlers change the same dictionaries, and an await inside a broadcast lasts
  as long as the slowest client. Tabs of one browser share a token; pages crash,
  reload and close without a word.
* The **page** changes robots by the operator's delayed choice, a message, the
  greeting or a poll, also with a key held down or an offer under way.
* The **hub** stores the command and publishes it, while a timer in another
  thread republishes all stored commands at 20 Hz. The dictionaries have no
  lock. Repetition defeats the driver's own watchdog, so the hub must notice by
  itself that an operator is gone. **Camera frames** cross the same two threads.
* The **driver** drops a robot to zero when it hears nothing for its time-out,
  through a soft-start limiter that works per call and a rate limit that skips
  small changes. It must come to rest although messages are lost, controllers
  crash, timers are late and a GPIO write may fail half-way.
* The **executor** runs a command inside its callback, in the only thread, for
  as long as the command lasts; the human override is another callback of the
  same thread. Queues have a fixed depth and drop their oldest message.
* The **runner** waits for robots that may never answer, advances one pipeline
  per robot in one loop, and may be interrupted by the stop key in any wait.
* **Terminals** block on keys: their timers run only while a robot is chosen.
* **Tools** on one machine replace the same files; they are killed, their writes
  fail and the power is cut.

The properties that make each part correct are the ones its section lists below;
`hazards` in `PROJECT.json` says, line by line, what each is there to catch.

## MotorDriver

State: the publishers on the topic (`pubs`) and its one slot (`queue`), the
node's fields as ages (`sinceCmd`, `sinceOutput`, `stallAge`) and values
(`requested`, `lastCommanded`, `pubCount`), the limiter's state (`duty`,
`sinceUpdate`), the pins (`pwm`, `dir`), and `running` for the process.
Actions: `CmdVelCallback`, `Watchdog` and `MonitorCmdVelPublishers` are the
callbacks, whole, with the rate limit, the stall protection, the ramp and the
GPIO writes they reach; `SetMotor` writes direction and duty pin by pin and may
stop at any of the four writes. `DestroyNode` and `Boot` are shutdown and
restart: the soft stop and `hw.stop()` each catch a write that fails and leave the
later pins, so that a PWM may go on after the process, until the next one starts it
at 0. `Join`, `Leave`, `Publish` and `Lose` are controllers and transport;
`Tick` is time, which passes only as long as no timer is overdue by more than
`Jitter`.

`Deadman` is what anyone else may assume of a driver: after a silence its speed
only falls and is zero by a bound. `MotorDriver` implements it
(`ImplementsDeadman`, the faster wheel's duty as speed), and `DriveHub` uses it in
place of the driver.

* `DeadmanStop`: within `StopBound` of the last command received the pins are at
  rest. The bound adds the watchdog's time-out, its period and lateness, and the
  number of calls the limiter needs.
* `LatestCommandWins`: however many commands the rate limit drops, what was
  applied is within one change step of what was last asked for.
* `SoftStart`: no step raises a wheel by more than the ramp allows in
  `QuietBound`, although the limiter's step grows with the time since its last
  update: the watchdog keeps updating it.
* `HighDutyIsCut`: high duty for longer than the stall time-out is cut, with rate
  limit, alternating commands, forced stops and failed writes in between. Each
  failed write may cost another time-out and two gaps without an output, which
  is what `StallBound` adds up.
* `StrictGate`: in strict mode, once several controllers have been there for a
  monitor period, a command can only bring wheels to rest.
* `CrashedControllersLeaveItAtRest` (liveness): if all controllers are gone, the
  robot comes to rest and stays there.

`motor_ramp` has one controller, the ramp and late timers, and no failing write
(`MaxFaults` is 0, or the refinement and the liveness property would not hold; failing
writes under `DeadmanStop` are covered by its proof); `motor_guard` has four
controllers (one exempt, one without a name), strict mode, stall protection and
a failing write. A failing query of the graph (line 430), which keeps the old
count, is left out.

Seen while modelling, without a run of its own:

* With the limiter on, stall protection does not bound the pins. The stall timer
  follows the duty that is asked for (line 571, "If duty is high for too long,
  cut output"), while the limiter keeps the duty of the pins up when the request
  drops: commands that alternate faster than the ramp falls keep a wheel at
  `stall_duty_pct` for good. `HighDutyIsCut` therefore takes the limiter off.
* A soft stop on shutdown ("honors ramp/slew for gentle hardware stop") is
  followed at once by `hw.stop()`, which ends every PWM.
* The limiter bounds the unsigned duty (`hardware_interface.py` 218): a reversal
  flips the direction pins at once, at the old duty.

Bounds. Time is counted in ticks; every age saturates one above the longest
bound it is compared with, so nothing is cut off. Full duty is 3 or 7 steps:
enough for a ramp that needs several watchdog runs, a dead band and changes below
the rate limit. Two wheels, so that a rotation differs from a translation and a
write can fail between them.

The deployed robots have a watchdog of 0.25 s (0.5 s by default), ramps of
140 ms and 40 ms, 30 to 50 commands per second, strict mode off and stall
protection off; the theorems hold for these values as for the small ones.

## ControlServer

One action for each piece of a handler between two awaits that suspend: `Login`
and `Logout`; `Connect` up to `ws.prepare`, then `Prepared`, `PrepareFails` or
`HelloFails`; `Heartbeat`, `Drive` up to the lock broadcast and `Dispatch` after
it; `OtherMessage`; `LoginFails`, a login whose token cannot be minted after the former
session is closed; `Leave` or, after a message the handler does not survive,
`BadMessage`, and `Release`, the two halves of the cleanup around the close of the
video session; `LockReaper` and `SessionReaper`. `Open`,
`Vanish`, `Exit` and `Poll` are what pages do, `LoseBeacon` a logout that never
arrives, `PingTimeout` the web server's own heartbeat.

* `OneSessionPerUser`; `LocksEndWithTheSocket`; `DrivesUnderItsLock`: the lock taken
  before the broadcast is still held after it, unless the broadcast takes longer than
  an unused lock lives.
* `UnusedLocksAreFreed` and `UsersCanReturn` (liveness): a robot nobody asks for
  is freed although the socket stays open; a user whose pages are all gone,
  crashed ones included, can log in again.

`control_locks` has two tabs of one browser, two users, two sessions and one
robot: enough for a second tab on a lock, a relogin over a stale session and a
late cleanup. Sessions are issued once each, so a run sees at most two logins.
`control_revocation` expects a violation: the source says that a registry check
makes revocation immediate, but `handle_ws` ignores its result, and a session
that ends while its tab is in `ws.prepare` closes no socket. By the same gap two
tabs may bind one session: the check against a second tab looks for a socket
that is registered only after `ws.prepare`.

Abstractions: a page's client id is fresh, so a bind never finds an earlier
session of the same client; the messages that choose a robot or carry telemetry
touch neither locks nor sessions beyond `OtherMessage`; the reapers run at any
moment, which their period only delays; requests refused with 401 get no socket.
Sessions last 45 s without a socket and 2 s after one.

Seen while modelling, without a run of its own:

* A broadcast may outlast the lock it announces. `ws.send_str` is awaited for one
  socket after the other, a send waits while its socket has some 64 KB unsent, and
  the web server's heartbeat closes a dead socket after 10 s only, while an unused
  lock lives 5 s. The reaper may then free the lock, another operator take it, and
  the first command be passed on without it. In `control_locks` a broadcast may last
  twice as long as a lock (`BroadcastBound`), and `DrivesUnderItsLock` says that
  nothing else comes in between.
* A message that is no object, or a drive whose speeds are no numbers (3175-3178),
  raises out of the handler and ends the socket of a page that goes on.

## DriveHub

Two threads: `SetDriveTarget`, `Decide` and `PublishNow` are the event loop's
call, cut where it looks at or changes what the other thread shares; `TickBegin`,
`TickPublish` (one robot, in any order) and `TickEnd` are the timer's. The topic
holds one message and may `Lose` it; `Receive`, `Restart` and `Slow` are a driver
of which `Deadman` is all that is known. `now` is read together with the list of
targets, and the removals at the end of a tick are one step.

* `ChainStops`: `ChainBound` after the operators' last command a robot is at
  rest, whichever way the threads, lost messages and restarts of the driver
  interleave. This is the promise of the whole chain: `ChainBound` is the sum of
  the hub's hold time-out, its tick and the work of a call, the transport and
  the driver's bound.
* `FollowsTheLatest`: after a tick that began later than the operators' last
  command, the last message is that command or a stop; a stop is always the last
  one out. A motion can be lost: the tick forgets at its end the targets that
  were outdated at its beginning, also one refreshed meanwhile.

`hub_chain` drives two robots with one motion and a stop, with calls of up to a
tick. Two robots make the tick's snapshot longer than one step, so that a
command can come in between; a robot outside the registry is covered by the
proofs only. `HalfPeriod` is half the publishing period, below which the event
loop leaves publishing to the tick.

Left out: the mode message for camera autonomy (stateless), rate statistics, and
the adapters (the shipped one passes payloads through).

## UnitExecutor

State: the two subscriptions as bounded sequences, which of them are due in the
current pass of the wait set, the override event and its age, and the command in
execution with its phase and the ticks left. Actions: `TakeOverride` is the
override's callback; `Ignore`, `Raise`, `Refuse`, `Reject` and `Begin` are the ways
a command's callback goes; `Publish`, `EndPhase` and `Finish` are the loop of
`run_timed_twist` and `_run_plan_sequence`; `Crash` and `Restart` the process.
`WaitPass` and `EndPass` follow rclpy: one message of each subscription that had
one, in order of creation, overrides first.

* `HandsOff`: from the callback that takes an override until its release or its
  end by age the last twist is zero.
* `LastWordCounts`: however many overrides came while a command blocked the
  thread, the last one is not lost.
* `CommandsAreSettled` (liveness): overrides that keep coming do not starve the
  commands; each is answered, ignored, dropped by the full queue or lost with
  the process. `OverridesEnd` (liveness): a teleoperation that falls silent gives
  the robot back.

`executor_override` has a command of three phases, one that is invalid and three
that break at different places (not JSON, a field, a raw parameter), up to three
sent, queues of one and two, one crash. Three commands fill the thread, the queue
and one place beyond it. `executor_preempt` expects a violation: "Preempt active
autonomous commands immediately" cannot happen in a single thread that is busy
with the command.

A command that is stopped answers `ok`, as the code does. The action interface
needs a package outside this repository and is not modelled; its callbacks share
the same thread. The driver's watchdog, not the executor, ends the motion of an
executor that is killed.

## PlaybookRunner

State: where the one thread is (`pc`, and `resume` for after a stop), the selected
robot and the queue, what is left of the current playbook (`phases`) or of each
robot's pipeline (`todo`), what each robot is to answer (`waiting`), the handles
of accepted goals, and the robots themselves: an inbox, a command in execution
and the answers on their way, with crashes and robots that come back. A robot is
reached over a topic, where only the end of a command is told, or as an action
server, which first accepts or rejects. Actions: the menus and the editor of the
queue (a move records the robots that are detected, `Collected`), `Dispatch`, `EndSending` and `EndAwaiting` (the two waits of a dispatch),
`Start`, `Poll` and `EndSequence` (the loop over pipelines), `Deadlines`, and
`Stop` with its own dispatch of holds (`EndHold`), which may come in any wait.

* `OneAtATime`: robots advance at their own pace in one loop, and none has two
  commands the runner still counts on.
* `CreditIsDeserved`: a late result is never taken for that of the next command.
* `HandlesCoverGoals`: whatever is accepted and awaited can be cancelled when the
  stop key is pressed, though handles come and go in seven places.
* `SequenceStops`: after a stop a sequence sends nothing more.
* `RunsEnd` (liveness): whatever robots do not answer, the menu comes back.

`playbook_sequence` has one robot of each kind, any playbook or a queue of two, a
sweep of two primitives, one stop or crash. Two commands in a row are what a late
answer, a second command behind the first and a stop in between need. `Preset` is
what a file of presets may bring: a move saved with one of the robots, or with none.
A move goes to the robots it recorded that are reachable still; in a sequence to all
that are, if none of those is (`TargetsOf`). The run
stops at the menu when the bound `MaxRuns` on started playbooks is reached, which
is why deadlock is not checked in it and in `playbook_sweep`.

`playbook_sweep` expects a violation of `StopIsFinal`: pressed during playbook 2
the stop ends the current wait only, and the sweep dispatches its next primitive.

Left out: the geometry of two-leg moves and the plans that fail, files that name a
robot twice, duration scales, the bursts of zero
twists on `cmd_vel` that accompany a hold, the files in which queues are saved, and
screens. Seen while modelling: a goal handle that arrives after its dispatch was
given up is dropped (line 1273), so that goal cannot be cancelled; it counts as
unanswered in the model.

## Fleet, Teleop, CameraAutonomy, Overriding

`Fleet` holds the robots' `cmd_vel` (who spoke last, moving or still) and
`human_override` queues. `Teleop` is the terminal: `ChooseRobot` and `Refresh` in the
menu, `Move`, `StopKey`, `ToggleStrafe` and `SwitchRobot` at the keys, the timers
(`RepublishLastTwist`, `OfflineWatchdog`, `PublishHumanOverride`) where the thread
spins, which is only while a robot is being chosen, and `Interrupt`, `Kill`,
`Restart`. `CameraAutonomy` is one thread whose wait collects what is due (`Wait`) and
serves it in order: `ControlTick` and `EndTick` around a look at a frame, which
takes time, `OnMode`, `OnOverride`, `OnImage`.

* `MovesOnlyWhenAsked`: the terminal sets a robot in motion only by a motion asked of
  it since the last stop, or of another robot and still the last twist when this one
  was chosen (`heir`): no repetition outlives a stop, a lost robot or a restart, or
  reaches a robot that was only passed over.
* `OwnSettings`: where the registry has a value for the robot that is chosen, it is
  driven with that value and not with the former robot's, unless a ROS parameter
  stands against it; a setting given as a parameter is never changed.
* `SeesWhereItGoes`: no robot is left moving by a frame older than `Blind`, which
  adds the stale limit, the longer of a period and a look, and one look more than
  the queue holds frames.
* `HumansAreHeard`: a word on `human_override` waits no longer than a look for each
  place of the subscription and one more (`Patience`), however many words come, and
  autonomy does not move while the last word taken was a human's. A round takes one
  word of several, and a look at a frame may come in each.

`Overriding` composes both. `camera_override` expects a violation of `HumanWins`: the
override is published by a timer of a thread that blocks on keys, so autonomy goes
on moving the robot an operator drives. `Grace` is three ticks, more than a delivery
and the looks before it take with the one place the subscription has in that run; so
it is not the queue that keeps the word. `OverridingMC` gives the robot all settings.

Left out: the speed keys, the shapes of twists, what is seen in a frame (a free
choice), status messages. The override latched in autonomy has no time to live:
a terminal that is killed leaves it in force, which `HumansAreHeard` allows.
`_load_robot_registry` forgets the quarantined robots; nothing else reads them.

Seen while modelling, without a run of its own:

* A motion of the former robot reaches the next one. `_apply_cmd_vel_topic` (716-752)
  keeps `last_twist` and `is_moving`, and the next wait for discovery lets
  `_republish_last_twist` (833-843) send them to the robot chosen since, of which
  nothing was asked. `MovesOnlyWhenAsked` allows this one inheritance and no other.
* `_apply_robot_profile` (689-712) merges with `or self.<current>`: a field that is
  missing or zero keeps the former robot's value. With the shipped registry a switch
  from robot1 to robot4 drives robot4, whose smoothing is 0.0, with robot1's 0.25.
  `Given` is what a robot's entry has other than zero, and `OwnSettings` speaks of
  that only. A speed given as a ROS parameter (686) keeps all but the wheel
  separation of a former robot.

## ActiveRobot, PageDrive, PageVideo, PageThumbs

`ActiveRobot` is the choice of the robot: `Pick` and, after a delay, `Settle`;
`Propose`, `ServerState`, `Greeted` and `Polled` are what the server says of it, `Exit`
and `Load` the page's end and beginning. `PageDrive` adds held keys and buttons, the
socket and locks taken by others; `PageVideo` adds the steps of `setupWebRTC`
between its awaits, tracks, breaks, and the two loops that negotiate again.

* `ReleasedMeansStopped`: what is let go moves the robot no longer, but for a key whose
  release came with Shift (`missed`); and when no hold is left, or the operator is not at
  the page, no robot is left moving by it, also none it drove before the choice changed,
  but for one that had left the list before it could be stopped (`lost`).
* `ShowsTheActive`: the operator never looks at another robot's video than the one
  the page drives.

`PageThumbs` is the order in which tiles get their pictures. `page_thumbs` expects a
violation of `ThumbsComeAround`: a cursor for round-robin is moved on and never
used, so a tile whose picture never comes takes the budget at every tick.

Left out: the main picture's JPEG mode, the still picture that bridges a change of
the robot (which may show the former robot for its short life), panels, labels,
dialogs, speed keys. Which robots are trusted is fixed (`Operable`), for the server reads
it once, as it starts; which of them are in the list changes with every state, and a
robot that is not there can be neither driven nor stopped.

Seen while modelling, without a run of its own:

* A key released with Shift goes on driving. The upper digits are matched by the
  character they give (4800-4807); with Shift they give another, the handler of the
  release finds no command and returns (4910-4912), and the hold is repeated every
  100 ms with nothing held down, until it is pressed and released again, stopped, or
  the page loses the focus. Nothing is said of such a key but that no other hold
  stays behind.
* A robot that leaves the list while it is driven is not told to stop: the list is
  replaced first (6750), and the stop at the change of the robot (6463-6478) is refused
  by `drive` (5580-5591). The hub's time-out stops it.
* The fallback loop may negotiate again within the grace of a connection that recovers;
  a local choice is lost when the server's echo of an older one comes within the delay;
  the on-screen stop ends no hold, so a button that is still held drives again at its
  next repetition.

## ImageFeeds, PeerSessions

`ImageFeeds` is one robot's camera in the server. The executor's steps are
`OnFrame`, `MarkFrame` and, at the timer, `SyncRead`, `SyncPop`, `SyncEnsure`, `SyncDrop`,
cut where the event loop may come in; the event loop's are `MarkInterest`,
`OnActiveRobot`, `SetActive`, `CameraHealth`, `Added`, `Look` and `Decode`. A camera may have
a topic on which it never publishes (`mute`).

* `SeenIsCurrent`: no picture is filed under the time of a later frame of its format,
  though storing and marking, looking and decoding, and the drop of the subscription
  interleave.
* `WatchedIsSeen` (liveness): if a robot stays active and its camera publishes on the
  topic that the server's rule chooses by the publishers it sees, a topic that brings
  pictures is subscribed to in the end, and stays so.

`PeerSessions` is the server's half of video: `Offer` closes the client's former
peer (an await) before `Register`; `PeerFails`, `SocketEnds` and `PeerGone` come in
between.

* `PeersAreTracked`: the open peers are counted, no others, and the last one of a
  client is known until it is closed.

Left out: discovery, the subscriptions of heartbeat and diagnostics, the mode in
which all cameras are received. A subscription may be
added to a set the executor has just dropped (line 1158): it then stays, and
nothing looks after it (`untracked`; at most once in the model, `LostOnce`).

Seen while modelling, without a run of its own:

* `_choose_image_topic` (1205-1221) goes by the number of publishers, and the camera's
  adapter (`camera_adapter.py` 318-323) makes both whether it publishes compressed
  pictures or not. With `publish_compressed` false the server subscribes to a topic on
  which nothing comes, for good; `WatchedIsSeen` does not speak of that camera.
* `_drop_image_subscription` (1003-1013) keeps the last JPEG, and `latest_rgb` (1626,
  1641-1651) takes a picture of either format: a kept JPEG, or an older raw picture,
  may be decoded and filed under the time of a later frame of the other format.
  `SeenIsCurrent` holds of each format by itself.

## RuntimeConfig

Files are what their name leads to (`visible`), what a cut of the power may leave
(`durable`) and what may be left if every reported save lasts (`owed`). A tool that
saves goes through `Acquire` or `LockTimeout`, `WriteTemp`, `SyncTemp`, `Replace` and
`SyncDirectory`, each of which may fail, before it tells (`Report`). The tools' own
steps say what they save: `Repair` and `Import` with the quarantine and the merge of
sync, `RefreshCoreProfiles` (in place, without the lock), `EnsureRobotEntry`,
`EnsureCameraProfile`, `FlipCamera`, `SaveCameraProfile`, `SaveGpioOverrides`. `Ends`
kills a tool anywhere; `PowerCut` and `Pull` are the surroundings.

* `SavesSurvive`: a name leads, now and after a cut, to a complete text no older
  than the last one a tool said it had saved.

It is not the agreement of readers and writers: each tool reads before it locks,
so the later of two undoes what the earlier saved, and a core profile may be read
half copied; both are in the model and no property forbids them.

Left out: the writes to the baseline in the sources (`--update-source-baseline`),
configure's `--no-refresh` and `--skip` options, `add_robot` and
`add_control_interface`, and finding out what camera there is. A sync that saves the
text it read is skipped.

## Consoles

The seven small programs above, one at a time: `part` says which one runs, from the
first state on, and the others rest. So one run checks all of them, and `vars`
never mixes their states. `waited` is the history of the words on the rover's
`human_override`, which `HumanSpeaks` sends on behalf of whoever publishes there.

Bounds in `consoles`. The terminal: two robots, one of which strafes; the registry has
every setting for the rover and two for the scout, one setting is given as a parameter.
The autonomy: a period, a stale limit and a look of one tick, one frame and two words in
their subscriptions (5 and 20 in the code: two words are enough for one to wait behind
another, and the bound of `HumansAreHeard` is exact in the depth, for which it is
proved); detection and patrol are asked for, after the manual mode at the start, for
following moves the robot as a patrol does. The page: one key, which Shift makes another,
and one button, so that two holds overlap. The feeds: two frames. The peers: two clients
with three of them, of which two may wait. The tools: two, one with three programs and
one with two, one robot in the registry and two interfaces. Each is the least at which
two of what may be confused are there.

## Fairness

Fairness is stated only for what a scheduler or the network stack runs: the timers
and callbacks of the driver, the tasks of the event loop and its reapers, the
executor's and the runner's thread, time, and the service manager's restart.
`Consoles` states it for the feeds only: weak fairness of the executor, the decoder
and the subscriptions, and strong fairness of the timer's and the health check's
first step, which other callbacks of the same loop keep interrupting but which are
due again and again. `Overriding` has weak fairness of the node and of time,
`ThumbsSpec` of the timer, the requests and their waits; both refute a property, and
the runs show that it fails although everything is scheduled. Nothing is assumed of
operators, pages, networks, controllers or crashes. `Tick` is fair because time
passes; where a timer has a deadline, it is a guard of `Tick`, not fairness.
`DriveHub` states none: its properties are bounds.

## What is proved

TLAPS checks the proofs for every value of the constants that satisfies the named
`ASSUME`s (natural numbers, distinct values, which sets lie in which; in
`DriverImplementsDeadman` also that no write fails).

* `MotorDriver_proofs`. `DeadmanInv` (type, `SilenceInv`, `PinsFollow`) gives
  `DeadmanStops`: after the time-out each watchdog run shortens the ramp by what
  the time since the last one allows, so the duty left is bounded by the ramp
  ticks left; `PinsFollow` ties the pins to the ramp state although a write may
  have failed. `LatestCommandAlwaysWins`, `StrictGateHolds` (over `CountInv`, how
  old the publisher count can be) and `DriverImplementsDeadman`, step by step.
  `HighDutyAlwaysCut` over `StallInv`: while a wheel runs hot, the time it has done
  so and the longest it may still do so (`Remaining`, from the stall timer and from
  the next output the rate limit or the watchdog must let through) are together
  paid for, once and again by each failed write. `StartsSoftly` over `QuietInv`,
  which relates three timers: the limiter is no older than the last output, or that
  is older than the rate limit; it is at most `MinPeriod` older than the last command,
  since the rate limit drops only what follows an output; and at most `MinPeriod` and
  `Timeout` older than the last run of the watchdog, which would have updated it.
* `ControlServer_proofs`. `UsersHaveOneSession`, `CommandsHoldTheirLock` (a lock
  whose broadcast is pending is no older than the broadcast, so the reaper leaves
  it alone until the broadcast outlasts it), `LocksEndWithSockets`.
* `DriveHub_proofs`. `RobotsComeToRest` over `ChainInv`, which bounds in turn the
  age of a target, of a tick, of a call, of a message under way and of the motion
  it causes; `TheLatestIsFollowed` over `OrderInv`, which says which copies of a
  command may differ while a tick runs.
* `UnitExecutor_proofs`. `TheHumanComesFirst` and `TheLastWordIsKept` over
  `ExecutorInv`: a callback due has its message; a command runs only while no
  override is in force, and nothing that could bring one in runs with it; the
  event is cleared by a release or by its age only.
* `PlaybookRunner_proofs`. `GoalsAreCancellable`, `StoppedSequencesEnd` and
  `ReportsAreDeserved` over `RunnerInv`: what may be awaited at each place of the
  thread (`Place`), that an answer belongs to a command its robot had, and that a
  stop leaves a sequence nothing to send. `TypeCorrect` needs that what a sequence has
  for a robot are the commands of its steps, each once, in the order of the queue.
  `CommandsGoOneByOne` over `SentInv`, which follows a command from its plan to its
  answer: numbers of runs and holds grow (`Numbered`), of what is planned a robot knows
  at most the first, and that only while it is awaited (`PipelinesAhead`,
  `PhasesAhead`), a robot that has told a command's end has it no more
  (`LastAnswers`), and whatever it has left is awaited or was given up
  (`Accounted`). `OneAtATime` by itself is not inductive: it says nothing of the
  commands that are still to be sent. The proofs need that `None` is not a command
  or a wait (`NoneIsNothingSent`).
* `RuntimeConfig_proofs`. `SavesAreWholeAndLast` over `ConfigInv`: only the holder of
  the lock writes (`Exclusive`), what it has forced to the disk stays there
  (`Sure`), and a name is moved to nothing less.
* `Consoles_proofs`: one invariant for each program, which the others leave alone
  (lemma `Steps`). `EachRobotIsDrivenAsItself` and `NoRepetitionOutlivesAStop` over
  `TerminalInv`: a twist to be repeated was asked for, of this robot or of the one it
  was the last of when this one was chosen. `AHumanIsHeardInTime` over `YieldInv` and
  `WordsWait`: what a word has waited and the looks still before it, one for each word
  in front and the rest of the one under way, are never more than `Patience`.
  `TheRobotSeesWhereItGoes` over `SightInv`: what a frame in the queue has waited and
  what it may still wait (`Left`: a look for each round before its turn, and the rest
  of the one under way) are never more than a look for each place in the queue and
  one (`FramesWait`); a look begins only at a frame taken lately enough, and `due` tells
  how much later it is since (`LooksAreRecent`).
  `NothingMovesUnheld` over `DriveInv`: a robot that moves is the active one, heeds the
  page and moves by a hold, unless it left the list before it was stopped, and each hold
  is something held down since the operator was last away or a key whose release Shift
  hid. `TheVideoIsOfTheRobotDriven` over `VideoInv`: what is on the screen
  came with the connection in use. `PicturesAreAsNewAsTheirTime` over `FeedsInv`: a frame
  is stored before it is marked, so of the format of the mark read nothing older can be
  found, whatever is dropped in between. `OpenPeersAreKnown` over `PeersInv`, whose part
  `Owned` says that a peer takes itself out of the map only under the client it was
  made for. `ConsolesInv` puts these and `ConfigInv` together: `EveryProgramIsTyped`, and
  `SavesLast`, which is `SavesAreWholeAndLast` in this composition.
* `SequenceFacts` has what several proofs need of sequences that are concatenated or
  flattened: elements and order (`Flattened`). The library defines these operators
  recursively, and its induction theorems cannot be used by the provers at hand. The
  induction is done over a set of numbers instead (`CountingUp`: a set with 0, and with
  each number the next, has them all), from the theorem that a set of naturals has
  a least element.

So every invariant and every safety property of a step that a run checks is proved.
Only model-checked are the properties that hold under fairness
(`CrashedControllersLeaveItAtRest`, `UnusedLocksAreFreed`, `UsersCanReturn`,
`CommandsAreSettled`, `OverridesEnd`, `RunsEnd`, `WatchedIsSeen`), which need ENABLED, out
of the reach of this version of TLAPS, and the expected violations, which
are counterexamples.

## Not modelled

The mecanum outputs (the same structure on four wheels, without a rate limit),
the mixer's arithmetic and the geometry of plans: a speed of zero passes the
contract and makes a phase of days, which the number of ticks of a phase, given in
the model, does not show. Wall-clock steps (the driver and the hub read
`time.time()`): with them no bound could be stated. A driver that is killed
outright, whose PWM keeps running. Tokens and their verification; frame capture and
conversion; logs, launch files, diagnostics and shell scripts. What is left out of a
modelled part is named in its section, and the reason for each part without a
module is in `components`.

## Plan

What is left, in order:

1. The main picture's JPEG mode on the page, with the still picture at a change of
   the robot, beside `PageVideo`; the fallback loop's grace as a property.
2. Discovery and the heartbeat's subscriptions of the hub, beside `ImageFeeds`.
3. The runner composed with `UnitExecutor`: a command given up by the runner still
   runs at its robot. Question: after an emergency stop, which robots can still
   move, and until when.
4. `add_robot`, `add_control_interface` and the baseline in the sources, with the lost
   updates as the question.
5. Proofs: the driver's refinement with failing writes up to the next full output;
   the steps of the liveness arguments that need no fairness (what each step brings
   nearer to the end, and that no other takes it back), beginning with `RunsEnd` and
   `OverridesEnd`.
