SPECIFICATION FilesSpec
CONSTANTS
  Dir = {first, second}
  Absent = Absent
  MaxBuilds = 1
  MaxAssemblies = 2
  MaxPublications = 1
  NoRecord = NoRecord
  Process = {p}
  Mode = {jit, aot}
  Strict = FALSE
  MaxLaunches = 3
  MaxPhase = 2
  MaxFailures = 1
SYMMETRY MCSymmetry
INVARIANTS
  OutputsKept
  BothArchitectures
  EvidenceHolds
  ReleasedIsNotarized
  RecordsAreWhole
PROPERTIES
  UncleanRunIsRetained
\* Every bound on runs and launches is finite.
CHECK_DEADLOCK FALSE
