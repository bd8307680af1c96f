SPECIFICATION FairSpec
CONSTANTS
  Identifier = {a, b}
  NoIdentifier = NoIdentifier
  MaxPending = 1
  MaxOps = 3
  MaxUntracked = 1
  MaxEpoch = 2
INVARIANTS
  OneOutcomePerOperation
PROPERTIES
  ResponseFollowsDelivery
  AcceptedIsAnswered
\* The bounds on operations are reached.
CHECK_DEADLOCK FALSE
