-------------------------- MODULE WindowPresentation --------------------------
(***************************************************************************)
(* Showing, hiding and closing a window (DaWindowOwner in TextView.mm, the *)
(* da_window_* calls of AppKitBridge.mm, Window in window.dart).           *)
(* Animated presentations complete later, and a generation counter decides *)
(* whether a completion still counts.  A user close may be deferred: Dart  *)
(* gets an operation id and replies.  The window's visibility reaches Dart *)
(* only through posted records.                                            *)
(*                                                                         *)
(* Visibility stands for the other window records (focus, occlusion,       *)
(* backing scale, screen): they are posted and deduplicated alike.         *)
(***************************************************************************)
EXTENDS Naturals, Sequences

CONSTANTS
  MaxGeneration,   \* bound on presentation operations
  MaxOps,          \* bound on close operations
  MaxEvents        \* bound on events under way to Dart

PresentationAssumption ==
  {MaxGeneration, MaxOps, MaxEvents} \subseteq Nat

NoOp == 0

VARIABLES
  onScreen,     \* the window is ordered in
  miniaturized, \* the window is in the Dock
  generation,   \* _presentationGeneration
  animations,   \* completion handlers that have not run
  lastVisible,  \* _lastVisibilityState, "none" before the first post
  registered,   \* daHandle # 0 and the delegate is set
  defers,       \* _defersCloseRequests
  pending,      \* _pendingCloseOperationId
  nextOp,       \* g_next_operation_id
  portOpen,     \* the event port takes events
  events,       \* records on the event port, oldest first
  visible,      \* Dart: _visible
  closed,       \* Dart: _closed
  dartDefers,   \* Dart: _defersCloseRequests
  known,        \* Dart: close operations received
  wish,         \* history: what was asked of the window last
  cutShort      \* history: a frame change cut an animation short, and the
                \* visibility has not been posted since

nativeVars == <<onScreen, miniaturized, generation, animations, lastVisible>>
closeVars == <<registered, defers, pending, nextOp>>
dartVars == <<visible, closed, dartDefers, known>>
vars == <<nativeVars, closeVars, portOpen, events, dartVars, wish, cutShort>>

Init ==
  /\ onScreen = FALSE
  /\ miniaturized = FALSE
  /\ generation = 0
  /\ animations = {}
  /\ lastVisible = "none"
  /\ registered = TRUE
  /\ defers = FALSE
  /\ pending = NoOp
  /\ nextOp = 1
  /\ portOpen = TRUE
  /\ events = <<>>
  /\ visible = FALSE
  /\ closed = FALSE
  /\ dartDefers = FALSE
  /\ known = {}
  /\ wish = "none"
  /\ cutShort = FALSE

Quiet == Len(events) < MaxEvents
\* A completion that no later operation has superseded.
Current(a) == a.of = generation

MayPresent == registered /\ Quiet /\ generation < MaxGeneration

-----------------------------------------------------------------------------
(* Posting.  A closed port takes nothing and leaves the cache alone.       *)

VisibilityRecord(v) == [type |-> "visibility", state |-> v]

VisibilityNews(v) ==
  IF portOpen /\ lastVisible # v THEN <<VisibilityRecord(v)>> ELSE <<>>

\* daPostVisibilityState
PostVisibility(v) ==
  /\ events' = events \o VisibilityNews(v)
  /\ lastVisible' = IF portOpen THEN v ELSE lastVisible
  /\ cutShort' = FALSE

AsVisibility(shown) == IF shown THEN "yes" ELSE "no"

\* [NSWindow close] and windowWillClose: visibility, then the closed record.
CloseWindow ==
  /\ onScreen' = FALSE
  /\ miniaturized' = FALSE
  /\ events' = events \o VisibilityNews("no")
                      \o (IF portOpen THEN <<[type |-> "closed"]>> ELSE <<>>)
  /\ lastVisible' = IF portOpen THEN "no" ELSE lastVisible
  /\ cutShort' = FALSE

-----------------------------------------------------------------------------
(* Presentation, called by Dart.                                           *)

\* Mutant: the window is ordered in and its state not posted.
ShowUnposted ==
  /\ MayPresent
  /\ generation' = generation + 1
  /\ onScreen' = TRUE
  /\ miniaturized' = FALSE
  /\ wish' = "shown"
  /\ UNCHANGED <<animations, lastVisible, closeVars, portOpen, events, dartVars,
                 cutShort>>

\* da_window_show
Show ==
  /\ MayPresent
  /\ generation' = generation + 1
  /\ onScreen' = TRUE
  /\ miniaturized' = FALSE
  /\ PostVisibility("yes")
  /\ wish' = "shown"
  /\ UNCHANGED <<animations, closeVars, portOpen, dartVars>>

\* daPresentFromFrame; without a duration the state is posted at once.
Present(animated) ==
  /\ MayPresent
  /\ generation' = generation + 1
  /\ onScreen' = TRUE
  /\ miniaturized' = FALSE
  /\ IF animated
     THEN /\ animations' = animations \cup
                             {[kind |-> "present", of |-> generation']}
          /\ UNCHANGED <<events, lastVisible, cutShort>>
     ELSE /\ PostVisibility("yes")
          /\ UNCHANGED animations
  /\ wish' = "shown"
  /\ UNCHANGED <<closeVars, portOpen, dartVars>>

\* daHideToFrame; without a duration the window leaves the screen at once.
Hide(animated) ==
  /\ MayPresent
  /\ generation' = generation + 1
  /\ IF animated
     THEN /\ animations' = animations \cup
                             {[kind |-> "hide", of |-> generation']}
          /\ UNCHANGED <<onScreen, miniaturized, events, lastVisible,
                         cutShort>>
     ELSE /\ onScreen' = FALSE
          /\ miniaturized' = FALSE
          /\ PostVisibility("no")
          /\ UNCHANGED animations
  /\ wish' = "hidden"
  /\ UNCHANGED <<closeVars, portOpen, dartVars>>

\* da_window_set_frame invalidates the presentation and posts the frame only.
SetFrame ==
  /\ MayPresent
  /\ generation' = generation + 1
  /\ cutShort' = (cutShort \/ \E a \in animations : Current(a))
  /\ UNCHANGED <<onScreen, miniaturized, animations, lastVisible, closeVars,
                 portOpen, events, dartVars, wish>>

\* Mutant: completions run whatever has happened since.
AnimationCompletesAlways(a) ==
  /\ a \in animations
  /\ animations' = animations \ {a}
  /\ onScreen' = (onScreen /\ a.kind # "hide")
  /\ miniaturized' = (miniaturized /\ a.kind # "hide")
  /\ PostVisibility(AsVisibility(onScreen'))
  /\ UNCHANGED <<generation, closeVars, portOpen, dartVars,
                 wish>>

\* A completion handler; AppKit runs every one, a superseded one returns.
AnimationCompletes(a) ==
  /\ a \in animations
  /\ animations' = animations \ {a}
  /\ IF Current(a)
     THEN /\ onScreen' = (onScreen /\ a.kind # "hide")
          /\ miniaturized' = (miniaturized /\ a.kind # "hide")
          /\ IF registered
             THEN PostVisibility(AsVisibility(onScreen'))
             ELSE UNCHANGED <<events, lastVisible, cutShort>>
     ELSE UNCHANGED <<onScreen, miniaturized, events, lastVisible, cutShort>>
  /\ UNCHANGED <<generation, closeVars, portOpen, dartVars,
                 wish>>

-----------------------------------------------------------------------------
(* The user.                                                               *)

\* windowDidMiniaturize
Miniaturize ==
  /\ registered /\ Quiet
  /\ onScreen
  /\ onScreen' = FALSE
  /\ miniaturized' = TRUE
  /\ PostVisibility("no")
  /\ UNCHANGED <<generation, animations, closeVars, portOpen, dartVars, wish>>

\* windowDidDeminiaturize
Deminiaturize ==
  /\ registered /\ Quiet
  /\ miniaturized
  /\ onScreen' = TRUE
  /\ miniaturized' = FALSE
  /\ PostVisibility("yes")
  /\ UNCHANGED <<generation, animations, closeVars, portOpen, dartVars, wish>>

\* windowShouldClose: refuse now and ask Dart when deferring, once; close
\* when not deferring or when the port does not take the request.
MayClose == ~defers \/ (pending = NoOp /\ ~portOpen)

AskDart ==
  /\ ~MayClose
  /\ IF pending # NoOp
     THEN UNCHANGED <<pending, nextOp, events>>
     ELSE /\ nextOp <= MaxOps
          /\ nextOp' = nextOp + 1
          /\ pending' = nextOp
          /\ events' = Append(events, [type |-> "request", op |-> nextOp])
  /\ UNCHANGED <<nativeVars, registered, defers, portOpen, dartVars, wish,
                 cutShort>>

\* The close button: AppKit closes the window itself.
UserClose ==
  /\ registered /\ Quiet
  /\ onScreen
  /\ \/ AskDart
     \/ /\ MayClose
        /\ CloseWindow
        /\ wish' = "closed"
        /\ UNCHANGED <<generation, animations, closeVars, portOpen, dartVars>>

-----------------------------------------------------------------------------
(* Closing, called by Dart.                                                *)

\* daCloseProgrammatically
CloseProgrammatically ==
  /\ pending' = NoOp
  /\ generation' = generation + 1
  /\ CloseWindow
  /\ wish' = "closed"
  /\ UNCHANGED <<animations, registered, defers, nextOp, portOpen, visible,
                 closed, dartDefers>>

\* Window.close; a window known to be closed is left alone.
Close ==
  /\ MayPresent
  /\ ~closed
  /\ CloseProgrammatically
  /\ UNCHANGED known

\* Window.requestClose goes through windowShouldClose like the user.
RequestClose ==
  /\ MayPresent
  /\ ~closed
  /\ \/ AskDart
     \/ MayClose /\ CloseProgrammatically /\ UNCHANGED known

\* set defersCloseRequests; refused while a request is pending.
SetDeferral(enabled) ==
  /\ registered
  /\ enabled # dartDefers
  /\ enabled \/ pending = NoOp
  /\ defers' = enabled
  /\ dartDefers' = enabled
  /\ UNCHANGED <<nativeVars, registered, pending, nextOp, portOpen, events,
                 visible, closed, known, wish, cutShort>>

\* replyToCloseRequest; a reply to another operation is refused.  A reply is
\* not repeated: a second one would be refused like any stale one.
Reply(op, allow) ==
  /\ MayPresent
  /\ op \in known
  /\ known' = known \ {op}
  /\ IF op = pending /\ allow
     THEN CloseProgrammatically
     ELSE /\ pending' = IF op = pending THEN NoOp ELSE pending
          /\ UNCHANGED <<nativeVars, registered, defers, nextOp, portOpen,
                         events, visible, closed, dartDefers, wish, cutShort>>

-----------------------------------------------------------------------------
(* The Dart event loop, release and termination.                           *)

\* Mutant: a window that was closed once gets no more requests.
DeliverUnlessClosed ==
  /\ events # <<>>
  /\ events' = Tail(events)
  /\ LET e == Head(events) IN
     CASE ~registered -> UNCHANGED <<visible, closed, known>>
       [] registered /\ e.type = "visibility" ->
            visible' = (e.state = "yes") /\ UNCHANGED <<closed, known>>
       [] registered /\ e.type = "closed" ->
            visible' = FALSE /\ closed' = TRUE /\ UNCHANGED known
       [] registered /\ e.type = "request" ->
            /\ known' = IF closed THEN known ELSE known \cup {e.op}
            /\ UNCHANGED <<visible, closed>>
  /\ UNCHANGED <<nativeVars, closeVars, portOpen, dartDefers, wish, cutShort>>

\* Window._updateState and the dispatch of a close request; a disposed window
\* takes nothing.
Deliver ==
  /\ events # <<>>
  /\ events' = Tail(events)
  /\ LET e == Head(events) IN
     CASE ~registered -> UNCHANGED <<visible, closed, known>>
       [] registered /\ e.type = "visibility" ->
            visible' = (e.state = "yes") /\ UNCHANGED <<closed, known>>
       [] registered /\ e.type = "closed" ->
            visible' = FALSE /\ closed' = TRUE /\ UNCHANGED known
       [] registered /\ e.type = "request" ->
            known' = known \cup {e.op} /\ UNCHANGED <<visible, closed>>
  /\ UNCHANGED <<nativeVars, closeVars, portOpen, dartDefers, wish, cutShort>>

\* Window.dispose and PrepareWindowForRelease: no further record is posted.
\* (The presentation is invalidated twice, once by the close it ends with.)
Release ==
  /\ registered
  /\ registered' = FALSE
  /\ pending' = NoOp
  /\ generation' = generation + 2
  /\ onScreen' = FALSE
  /\ miniaturized' = FALSE
  /\ dartDefers' = FALSE
  /\ wish' = "released"
  /\ UNCHANGED <<animations, lastVisible, defers, nextOp, portOpen, events,
                 visible, closed, known, cutShort>>

\* AppKitApplication.terminate closes the event port.
ClosePort ==
  /\ portOpen
  /\ portOpen' = FALSE
  /\ events' = <<>>
  /\ UNCHANGED <<nativeVars, closeVars, dartVars, wish, cutShort>>

Next ==
  \/ Show
  \/ \E animated \in BOOLEAN : Present(animated) \/ Hide(animated)
  \/ SetFrame
  \/ \E a \in animations : AnimationCompletes(a)
  \/ Miniaturize
  \/ Deminiaturize
  \/ UserClose
  \/ Close
  \/ RequestClose
  \/ \E enabled \in BOOLEAN : SetDeferral(enabled)
  \/ \E op \in known, allow \in BOOLEAN : Reply(op, allow)
  \/ Deliver
  \/ Release
  \/ ClosePort

Spec == Init /\ [][Next]_vars

-----------------------------------------------------------------------------
(* Properties.                                                             *)

\* A window leaves the screen only for the latest thing asked of it: the
\* completion of an old hide cannot take down a window shown since ("a stale
\* hide completion cannot hide a window shown by a newer request",
\* docs/C_ABI.md).
StaleHideIsHarmless == 
  [][onScreen /\ ~onScreen' => wish' # "shown" \/ miniaturized']_vars

IsNews(r) == r.type \in {"visibility", "closed"}
ShowsWindow(r) == r.type = "visibility" /\ r.state = "yes"

\* A Dart window that has taken the records rs after it was visible, or not,
\* is visible, or not.
Believing(old, rs, shown) ==
  \/ old = shown /\ \A n \in 1 .. Len(rs) : ~IsNews(rs[n])
  \/ \E n \in 1 .. Len(rs) :
       /\ IsNews(rs[n]) /\ ShowsWindow(rs[n]) = shown
       /\ \A later \in n + 1 .. Len(rs) : ~IsNews(rs[later])

\* Unless a frame change cut an animation short, Dart's isVisible
\* becomes the window's visibility once its records are consumed and no
\* animation is under way, whatever sequence of calls and clicks came before.
VisibilityObserved ==
  registered /\ portOpen /\ ~cutShort /\ ~(\E a \in animations : Current(a))
    => Believing(visible, events, onScreen)

\* A pending close operation is on its way to Dart or in its hands while the
\* port is open, so the window cannot become impossible to close.
CloseIsAnswerable ==
  pending # NoOp /\ portOpen =>
    pending \in known \cup {events[n].op : n \in
                  {m \in 1 .. Len(events) : events[m].type = "request"}}
=============================================================================
