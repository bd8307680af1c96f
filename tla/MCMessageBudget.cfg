SPECIFICATION HostSpec
CONSTANTS
  Producer = {p1, p2}
  MaxPerTurn = 2
  MaxMessages = 3
  MaxStarts = 1
  MaxDepth = 2
  MaxArguments = 8
  Flavor = {"release"}
  ManifestLimit = 1
  DefaultLimit = 2
  MaxTerminates = 1
INVARIANT TurnsKeepManifestLimit
CHECK_DEADLOCK FALSE
