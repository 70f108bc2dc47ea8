SPECIFICATION Spec
CONSTANTS
  teleop = teleop
  fpv = fpv
  executor = executor
  ghost = ghost
  None = None
  Publisher = {teleop}
  Exempt = {}
  Unnamed = {}
  Command <- Driving
  MaxPwm = 7
  Deadband = 1
  ChangeStep = 1
  MinPeriod = 2
  Timeout = 2
  WatchdogPeriod = 1
  MonitorPeriod = 1
  Jitter = 1
  RampRate = 1
  RampTicks = 7
  StallTimeout = 0
  StallDuty = 1
  Strict = FALSE
  RotateBypass = FALSE
  MaxFaults = 0
INVARIANTS TypeOK DeadmanStop LatestCommandWins
PROPERTIES SoftStart ImplementsDeadman CrashedControllersLeaveItAtRest
