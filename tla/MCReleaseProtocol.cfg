SPECIFICATION FairSpec
CONSTANTS
  Object = {o1}
  Nil = Nil
  Kind <- MCKind
  Thread = {main, t1}
  Main = main
  MaxSlots = 2
  MaxGeneration = 2
  MaxResets = 1
INVARIANTS
  TornDownAtMostOnce
  SweepLeavesNothing
PROPERTIES
  BlocksStayInTheirEpoch
  ClaimsComplete
\* A bridge that has been shut down for good stops.
CHECK_DEADLOCK FALSE
