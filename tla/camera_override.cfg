SPECIFICATION Spec
CONSTANTS
  Robot = {"rover"}
  rover = "rover"
  Mecanum = {}
  MecanumListed = {}
  Profiled = {"rover"}
  Given <- Settings
  Overridden = {}
  Switching = TRUE
  None = None
  Autonomous = {"rover"}
  Depth = 1
  Period = 1
  Stale = 1
  TurnTime = 1
  Work = 1
  FrameQueue = 1
  Asked = {"manual", "detect", "patrol"}
  Grace = 3
PROPERTY HumanWins
