SPECIFICATION Spec
CONSTANTS
  Object = {o1, o2}
  Nil = Nil
  Kind <- MCKind
  Thread = {main, worker}
  Main = main
  MaxSlots = 3
  MaxGeneration = 3
  ExitCode <- MCExitCode
  MaxOps = 2
PROPERTY NewRequestAsksAppKit
CHECK_DEADLOCK FALSE
