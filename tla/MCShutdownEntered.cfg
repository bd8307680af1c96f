SPECIFICATION HostFairSpec
CONSTANTS
  Producer = {p1, p2}
  MaxPerTurn = 2
  MaxMessages = 3
  MaxStarts = 1
  MaxDepth = 2
  MaxArguments = 8
  Flavor = {"runner", "developer", "release"}
  ManifestLimit = 2
  DefaultLimit = 2
  MaxTerminates = 1
PROPERTY NoShutdownWhileEntered
CHECK_DEADLOCK FALSE
