--------------------------- MODULE WindowFullscreen ---------------------------
(***************************************************************************)
(* Native fullscreen as DaWindowOwner (TextView.mm) and the Dart Window    *)
(* (window.dart) see it.  A request only starts AppKit's transition; the   *)
(* outcome, success or failure, arrives through delegate callbacks, which  *)
(* post deduplicated state and frame records to Dart.  Dart filters its    *)
(* own requests through what it has requested and what it has observed.    *)
(*                                                                         *)
(* AppKit's part (the transition and the frame it animates) is external    *)
(* and modelled from the callbacks.  The event port stays open.            *)
(***************************************************************************)
EXTENDS Naturals, Sequences

CONSTANTS
  Windowed,     \* frames of the window outside fullscreen
  MaxEvents     \* bound on events under way to Dart

FullscreenAssumption == Windowed # {} /\ MaxEvents \in Nat

Full == "full frame"
Moving == "intermediate frame"
None == "none"
Frame == Windowed \cup {Full, Moving}
Mode == {"on", "off"}
Opposite(m) == CHOOSE other \in Mode : other # m

VARIABLES
  mode,        \* the window's NSWindowStyleMaskFullScreen bit
  frame,       \* the window's frame
  windowed,    \* its frame outside fullscreen, to which AppKit returns
  changing,    \* _fullscreenTransitionPending
  target,      \* _pendingFullscreenTarget
  lastState,   \* _lastFullscreenState, None before the first post
  lastFrame,   \* _lastFrame, None before the first post
  events,      \* records on the event port, oldest first
  seen,        \* Dart: _fullscreen
  requested    \* Dart: _requestedFullscreen, None for null

ownerVars == <<changing, target, lastState, lastFrame>>
dartVars == <<seen, requested>>
vars == <<mode, frame, windowed, ownerVars, events, dartVars>>

Init ==
  /\ mode = "off"
  /\ frame \in Windowed
  /\ windowed = frame
  /\ changing = FALSE
  /\ target = "off"
  /\ lastState = None
  /\ lastFrame = None
  /\ events = <<>>
  /\ seen = "off"
  /\ requested = None

Quiet == Len(events) < MaxEvents

-----------------------------------------------------------------------------
(* daPostFullscreenState and daPostFrame post what differs from the last   *)
(* record.  A source tells a delegate callback from a state snapshot.      *)

StateRecord(s) == IF lastState = s THEN <<>> ELSE <<[state |-> s]>>
FrameRecord(f, source) ==
  IF lastFrame = f THEN <<>> ELSE <<[frame |-> f, source |-> source]>>

\* Delegate callbacks report the state before the frame it results in.
PostStateThenFrame(s, f) ==
  /\ events' = events \o StateRecord(s) \o FrameRecord(f, "callback")
  /\ lastState' = s
  /\ lastFrame' = f

\* daPostCurrentWindowState, after show and present and when a presentation
\* animation completes, reports the frame before the state.
PostCurrentWindowState ==
  /\ events' = events \o FrameRecord(frame, "snapshot") \o StateRecord(mode)
  /\ lastState' = mode
  /\ lastFrame' = frame

-----------------------------------------------------------------------------
(* AppKit.                                                                 *)

\* windowWillEnterFullScreen and windowWillExitFullScreen, when the user
\* toggles; AppKit takes no second request during a transition.
UserToggles ==
  /\ Quiet
  /\ ~changing
  /\ changing' = TRUE
  /\ target' = Opposite(mode)
  /\ UNCHANGED <<mode, frame, windowed, lastState, lastFrame, events,
                 dartVars>>

\* The window moves or is resized outside a transition.
UserMoves(f) ==
  /\ Quiet
  /\ ~changing
  /\ mode = "off"
  /\ frame # f
  /\ frame' = f
  /\ windowed' = f
  /\ events' = events \o FrameRecord(f, "callback")
  /\ lastFrame' = f
  /\ UNCHANGED <<mode, changing, target, lastState, dartVars>>

\* Mutant: moves are reported during a transition as well.
TransitionMovesReported ==
  /\ changing
  /\ frame' = Moving
  /\ events' = events \o FrameRecord(Moving, "callback")
  /\ lastFrame' = Moving
  /\ UNCHANGED <<mode, windowed, changing, target, lastState, dartVars>>

\* windowDidMove and windowDidResize in a transition do not post the frame.
TransitionMoves ==
  /\ changing
  /\ frame' = Moving
  /\ UNCHANGED <<mode, windowed, ownerVars, events, dartVars>>

\* windowDidEnterFullScreen and windowDidExitFullScreen.
FullscreenEnds ==
  /\ changing
  /\ changing' = FALSE
  /\ mode' = target
  /\ frame' = IF target = "on" THEN Full ELSE windowed
  /\ PostStateThenFrame(target, frame')
  /\ UNCHANGED <<windowed, target, dartVars>>

\* Mutant: a failed transition reports the state it was meant to reach.
FullscreenFailsAsTarget ==
  /\ changing
  /\ changing' = FALSE
  /\ frame' = IF mode = "on" THEN Full ELSE windowed
  /\ PostStateThenFrame(target, frame')
  /\ UNCHANGED <<mode, windowed, target, dartVars>>

\* windowDidFailToEnterFullScreen and windowDidFailToExitFullScreen.
FullscreenFails ==
  /\ changing
  /\ changing' = FALSE
  /\ frame' = IF mode = "on" THEN Full ELSE windowed
  /\ PostStateThenFrame(Opposite(target), frame')
  /\ UNCHANGED <<mode, windowed, target, dartVars>>

-----------------------------------------------------------------------------
(* The Dart Window.                                                        *)

\* daSetFullscreen: the pending target may be repeated, the opposite one is
\* refused; a request for the current state reports it again.
DaSetFullscreen(enabled) ==
  /\ changing => target = enabled
  /\ requested' = enabled
  /\ IF changing \/ mode = enabled
     THEN UNCHANGED <<changing, target>>
     ELSE changing' = TRUE /\ target' = enabled
  /\ IF ~changing /\ mode = enabled
     THEN events' = events \o StateRecord(mode) /\ lastState' = mode
     ELSE UNCHANGED <<lastState, events>>

\* Window.setFullscreen drops a request it believes made or fulfilled.
Redundant(enabled) ==
  \/ requested = enabled
  \/ requested = None /\ seen = enabled

SetFullscreen(enabled) ==
  /\ Quiet
  /\ ~Redundant(enabled)
  /\ DaSetFullscreen(enabled)
  /\ UNCHANGED <<mode, frame, windowed, lastFrame, seen>>

\* da_window_show, or the end of a presentation animation.
Show ==
  /\ Quiet
  /\ PostCurrentWindowState
  /\ UNCHANGED <<mode, frame, windowed, changing, target, dartVars>>

\* Window._updateState; a frame record leaves the fullscreen state alone.
Deliver ==
  /\ events # <<>>
  /\ events' = Tail(events)
  /\ IF "state" \in DOMAIN Head(events)
     THEN seen' = Head(events).state /\ requested' = None
     ELSE UNCHANGED dartVars
  /\ UNCHANGED <<mode, frame, windowed, ownerVars>>

Next ==
  \/ UserToggles
  \/ \E f \in Windowed : UserMoves(f)
  \/ TransitionMoves
  \/ FullscreenEnds
  \/ FullscreenFails
  \/ \E enabled \in Mode : SetFullscreen(enabled)
  \/ Show
  \/ Deliver

Spec == Init /\ [][Next]_vars

-----------------------------------------------------------------------------
(* Properties.                                                             *)

AtRest == ~changing /\ events = <<>>

\* When nothing is under way, Dart's isFullscreen is the window's real state,
\* whatever was requested, refused, failed or toggled by the user.
FullscreenObserved == AtRest => seen = mode

IsState(r) == "state" \in DOMAIN r

\* A Dart window that takes the records rs after it has seen old sees s when
\* it comes to the n-th.
Seeing(old, rs, n, s) ==
  \/ old = s /\ \A m \in 1 .. n - 1 : ~IsState(rs[m])
  \/ \E m \in 1 .. n - 1 :
       /\ IsState(rs[m]) /\ rs[m].state = s
       /\ \A later \in m + 1 .. n - 1 : ~IsState(rs[later])

\* A frame that a delegate callback reports reaches Dart as a windowed frame
\* only if it is one: a consumer can keep its last safe windowed geometry
\* ("completion publishes fullscreen state before the resulting frame",
\* docs/ARCHITECTURE.md).
CallbackFramesAreSafe ==
  \A n \in 1 .. Len(events) :
    LET r == events[n] IN
      ~IsState(r) /\ r.source = "callback" =>
        r.frame \in Windowed \/ Seeing(seen, events, n, "on")
=============================================================================
