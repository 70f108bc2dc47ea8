SPECIFICATION Spec
CONSTANTS
  Command = {"legs", "bad", "junk", "field", "raw"}
  Garbled = {"junk"}
  Malformed = {"field"}
  Invalid = {"bad"}
  Faulty = {"raw"}
  Plan <- MCPlan
  Ttl = 1
  OverrideDepth = 2
  CommandDepth = 1
  MaxSent = 3
  MaxCrashes = 1
INVARIANTS TypeOK HandsOff LastWordCounts
PROPERTIES CommandsAreSettled OverridesEnd
