SPECIFICATION Spec
CONSTANTS
  Dir = {first, second}
  Absent = Absent
  MaxBuilds = 1
  MaxAssemblies = 0
  MaxPublications = 0
INVARIANT BundleMatchesManifest
\* Every bound on runs is finite.
CHECK_DEADLOCK FALSE
