SPECIFICATION Spec
CONSTANTS
  MaxPorts = 2
  MaxChanges = 2
  MaxEvents = 3
  MaxPresentations = 4
  MaxCloses = 2
  Chord = {"copy", "paste"}
  MaxKeys = 3
  MaxPresses = 2
  MaxStranded = 1
  Windowed <- MCWindowed
  Window = {w1, w2}
  View <- MCView
  Depth <- MCDepth
  MaxDepth = 2
  MaxDrags = 2
INVARIANTS
  RecordsDecode
  ObservedStateIsCurrent
  FullscreenObserved
  CallbackFramesAreSafe
  VisibilityObserved
  CloseIsAnswerable
  HotKeysAreExact
  LeaseFollowsRequest
  DropFollowsOffer
PROPERTY StaleHideIsHarmless
\* A released window stays as it is.
CHECK_DEADLOCK FALSE
