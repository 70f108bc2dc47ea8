SPECIFICATION Spec
CONSTANTS
  Robot = {"rover", "scout"}
  None = None
  Autonomous = {"rover"}
  Depth = 2
  Mecanum = {"scout"}
  MecanumListed = {}
  Profiled = {"rover", "scout"}
  Given <- Settings
  Overridden = {"arc_ratio"}
  Switching = TRUE
  rover = "rover"
  Period = 1
  Stale = 1
  TurnTime = 1
  Work = 1
  FrameQueue = 1
  Asked = {"detect", "patrol"}
  Keys = {"eight"}
  Shifted = {"eight"}
  Buttons = {"forward"}
  Operable = {"rover", "scout"}
  MaxFrames = 2
  Client = {"anna", "bert"}
  Peers = 3
  Waiting = 2
  Tool = {"first", "second"}
  Runs <- ProgramsOf
  Name = {"rover"}
  Listed = {"rover"}
  Interfaces = {"l298n", "hat"}
  Ages = 1
INVARIANTS TypeOK OwnSettings SeesWhereItGoes HumansAreHeard ReleasedMeansStopped
INVARIANTS ShowsTheActive SeenIsCurrent PeersAreTracked SavesSurvive
PROPERTIES MovesOnlyWhenAsked WatchedIsSeen
