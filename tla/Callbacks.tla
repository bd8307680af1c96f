------------------------------ MODULE Callbacks ------------------------------
(* The parts of the bridge that turn callbacks of AppKit and the system into *)
(* events: event sessions, a window in fullscreen, its presentation and      *)
(* closing, system grants and drops.  They share no state, so a behaviour    *)
(* exercises one of them while the others stay as they are.                  *)
EXTENDS SystemGrants, Integers

CONSTANTS
  Windowed,                \* frames of a window outside fullscreen
  Window, View,
  Depth, MaxDepth,         \* of the views
  MaxPorts, MaxChanges, MaxEvents, MaxPresentations, MaxCloses, MaxDrags

VARIABLES
  subject,   \* the part this behaviour exercises
  poster, session, open, nextPort, real, announced, last, channel, cache, sent,
  changes,
  mode, frame, windowed, changing, target, lastState, lastFrame, stateEvents,
  seen, requested,
  onScreen, miniaturized, generation, animations, lastVisible, registered,
  defers, pending, nextOp, portOpen, events, visible, closed, dartDefers,
  known, wish, cutShort,
  policy, live, dropSession, drag, stage, drags, offer, drop

Sessions == INSTANCE EventSession WITH notice <- announced
Fullscreen == INSTANCE WindowFullscreen WITH events <- stateEvents
Presentation == INSTANCE WindowPresentation WITH
  MaxGeneration <- MaxPresentations, MaxOps <- MaxCloses
Drops == INSTANCE DropDestination WITH session <- dropSession

ASSUME CallbacksAssumption ==
  /\ Fullscreen!FullscreenAssumption
  /\ Presentation!PresentationAssumption
  /\ GrantsAssumption
  /\ Drops!DropAssumption

SomeFrame == CHOOSE f \in Windowed : TRUE

\* A part that is not the subject starts in one of its initial states.
Init ==
  /\ subject \in
       {"sessions", "fullscreen", "presentation", "grants", "drops"}
  /\ Sessions!Init
  /\ Fullscreen!Init
  /\ subject # "fullscreen" => frame = SomeFrame
  /\ Presentation!Init
  /\ GrantsInit
  /\ subject # "grants" => active
  /\ Drops!Init

sVars == <<poster, session, open, nextPort, real, announced, last, channel,
           cache, sent, changes>>
fVars == <<mode, frame, windowed, changing, target, lastState, lastFrame,
           stateEvents, seen, requested>>
pVars == <<onScreen, miniaturized, generation, animations, lastVisible,
           registered, defers, pending, nextOp, portOpen, events, visible,
           closed, dartDefers, known, wish, cutShort>>
dVars == <<policy, live, dropSession, drag, stage, drags, offer, drop>>

Next ==
  /\ UNCHANGED subject
  /\ \/ /\ subject = "sessions" /\ Sessions!Next
        /\ UNCHANGED <<fVars, pVars, grantsVars, dVars>>
     \/ /\ subject = "fullscreen" /\ Fullscreen!Next
        /\ UNCHANGED <<sVars, pVars, grantsVars, dVars>>
     \/ /\ subject = "presentation" /\ Presentation!Next
        /\ UNCHANGED <<sVars, fVars, grantsVars, dVars>>
     \/ /\ subject = "grants" /\ GrantsNext
        /\ UNCHANGED <<sVars, fVars, pVars, dVars>>
     \/ /\ subject = "drops" /\ Drops!Next
        /\ UNCHANGED <<sVars, fVars, pVars, grantsVars>>

Spec == Init /\ [][Next]_<<subject, sVars, fVars, pVars, grantsVars, dVars>>

-----------------------------------------------------------------------------

\* See EventSession: the decoder accepts every record the encoder writes.
RecordsDecode == Sessions!RecordsDecode

\* See EventSession: an attached application comes to know the current state.
ObservedStateIsCurrent == Sessions!ObservedStateIsCurrent

\* See WindowFullscreen: at rest Dart knows the window's real state.
FullscreenObserved == Fullscreen!FullscreenObserved

\* See WindowFullscreen: frames of callbacks are safe windowed frames.
CallbackFramesAreSafe == Fullscreen!CallbackFramesAreSafe

\* See WindowPresentation: Dart's isVisible becomes the window's visibility.
VisibilityObserved == Presentation!VisibilityObserved

\* See WindowPresentation: a pending close operation can be answered.
CloseIsAnswerable == Presentation!CloseIsAnswerable

\* See WindowPresentation: an old hide takes down no window shown since.
StaleHideIsHarmless == Presentation!StaleHideIsHarmless

\* See DropDestination: a drop reaches the view it was last offered to.
DropFollowsOffer == Drops!DropFollowsOffer
=============================================================================
