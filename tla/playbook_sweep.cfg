SPECIFICATION Spec
CONSTANTS
  Robot = {"topic", "action"}
  ActionRobot = {"action"}
  Choosy = {"action"}
  Entry = {"move", "transit"}
  Sweep = 2
  Parts <- MCParts
  Preset <- MCPreset
  Everyone = {"move"}
  None = None
  MaxQueue = 2
  MaxRuns = 1
  MaxEvents = 1
PROPERTY StopIsFinal
CHECK_DEADLOCK FALSE
