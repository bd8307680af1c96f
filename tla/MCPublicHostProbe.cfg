SPECIFICATION FairSpec
CONSTANTS
  Poster = {w1}
  Child = {c1}
  MaxMessages = 2
INVARIANTS
  WaitIsWoken
  VerdictIsJust
  TeardownIsOrderly
PROPERTIES
  ProbeEnds
CHECK_DEADLOCK FALSE
