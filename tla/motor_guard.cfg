SPECIFICATION Spec
CONSTANTS
  teleop = teleop
  fpv = fpv
  executor = executor
  ghost = ghost
  None = None
  Publisher = {teleop, fpv, executor, ghost}
  Exempt = {executor}
  Unnamed = {ghost}
  Command <- Spinning
  MaxPwm = 3
  Deadband = 2
  ChangeStep = 1
  MinPeriod = 1
  Timeout = 1
  WatchdogPeriod = 1
  MonitorPeriod = 1
  Jitter = 0
  RampRate = 0
  RampTicks = 0
  StallTimeout = 2
  StallDuty = 3
  Strict = TRUE
  RotateBypass = TRUE
  MaxFaults = 1
INVARIANTS HighDutyIsCut
PROPERTIES StrictGate
