SPECIFICATION Spec
CONSTANTS
  Object = {o1, o2}
  Nil = Nil
  Kind <- MCKind
  Thread = {main, worker}
  Main = main
  MaxSlots = 3
  MaxGeneration = 3
  ExitCode <- MCExitCode
  MaxOps = 2
INVARIANTS
  FreeListExact
  WaitIsAnswerable
  EndsOnlyWithConsent
PROPERTIES
  ImplementsHandleLease
  TerminateTakesEffect
\* The process ends and a table can be used up.
CHECK_DEADLOCK FALSE
