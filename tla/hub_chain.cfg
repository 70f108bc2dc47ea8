SPECIFICATION Spec
CONSTANTS
  robot1 = robot1
  robot2 = robot2
  robot3 = robot3
  None = None
  Stop = Stop
  Robot = {robot1, robot2}
  Trusted = {robot1, robot2}
  Motion = {ahead}
  HoldTimeout = 1
  HalfPeriod = 1
  TickPeriod = 1
  Jitter = 0
  Work = 1
  NetBound = 0
  DriverBound = 2
  MaxSpeed = 1
INVARIANTS TypeOK ChainStops FollowsTheLatest
SYMMETRY Symmetry
