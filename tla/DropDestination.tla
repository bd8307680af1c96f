--------------------------- MODULE DropDestination ---------------------------
(***************************************************************************)
(* Drops on views (AppKitBridge.mm): which registered view a drag over a   *)
(* window is offered to, and what happens between the offer and the drop.  *)
(* AppKit calls the window several times during one drag; between two      *)
(* calls Dart may replace or remove a view's policy or release the view,   *)
(* the pointer may move, and the source may change what it offers.         *)
(*                                                                         *)
(* The view under the pointer is a choice of the environment; payloads and *)
(* their limits are one choice, whether the content can be copied.         *)
(***************************************************************************)
EXTENDS Naturals

CONSTANTS
  Window,
  View,
  Depth,        \* of each view below its window's content view
  MaxDepth,     \* how deep views are nested
  MaxDrags      \* bound on drags

DropAssumption ==
  /\ Window \cap View = {}
  /\ Depth \in [View -> 0 .. MaxDepth]
  /\ \A v, w \in View : Depth[v] = Depth[w] => v = w
  /\ {MaxDepth, MaxDrags} \subseteq Nat

Kind == {"text", "files"}
None == [view |-> "none", kind |-> "none", number |-> 0]
NoDrag == [window |-> "none", number |-> 0, offers |-> {}, over |-> {}]
NoDrop == [got |-> None, offered |-> None]

VARIABLES
  policy,     \* g_drop_destination_owners: the kinds each view accepts
  live,       \* views and windows that are not released
  session,    \* g_drop_sessions: view, kind and drag for each window
  drag,       \* AppKit: the drag under way, with its window and number, the
              \* kinds offered and the views under the pointer
  stage,      \* AppKit: what the window was told last
  drags,      \* draggingSequenceNumber
  offer,      \* history: the destination offered, until it becomes invalid
  drop        \* history: what was dropped last, and the offer then

registrationVars == <<policy, live>>
vars == <<registrationVars, session, drag, stage, drags, offer, drop>>

Init ==
  /\ policy = [v \in View |-> {}]
  /\ live = View \cup Window
  /\ session = [w \in Window |-> None]
  /\ drag = NoDrag
  /\ stage = "idle"
  /\ drags = 0
  /\ offer = None
  /\ drop = NoDrop

-----------------------------------------------------------------------------
(* Resolution.                                                             *)

LiveViews == live \cap View
LiveWindows == live \cap Window

\* Files are preferred to text where both are offered and accepted.
KindFor(v, d) ==
  IF "files" \in d.offers \cap policy[v] THEN "files" ELSE "text"

Compatible(d) == {v \in d.over : d.offers \cap policy[v] # {}}

\* ResolveDropDestination: the deepest compatible view under the pointer.
Resolved(d) ==
  IF Compatible(d) = {} THEN None
  ELSE LET best == CHOOSE v \in Compatible(d) :
                     \A w \in Compatible(d) : Depth[w] <= Depth[v]
       IN  [view |-> best, kind |-> KindFor(best, d), number |-> d.number]

\* Mutant: the destination is resolved anew, whoever the session was for.
ResolvedAnew(d) ==
  IF session[d.window] = None THEN None ELSE Resolved(d)

\* ResolveActiveDropDestination
ResolvedActive(d) ==
  IF session[d.window] # None /\ Resolved(d) = session[d.window]
  THEN session[d.window] ELSE None

-----------------------------------------------------------------------------
(* AppKit's calls to the window.                                           *)

DragUpdates(d) ==
  /\ drag' = d
  /\ session' = [session EXCEPT ![d.window] = Resolved(d)]
  /\ offer' = Resolved(d)
  /\ stage' = IF Resolved(d) = None THEN "refused" ELSE "offered"
  /\ drop' = NoDrop

\* draggingEntered:, of a drag that is new or comes from elsewhere.
DragEnters ==
  /\ stage = "idle" /\ drags < MaxDrags
  /\ drags' = drags + 1
  /\ \E w \in LiveWindows, offers \in SUBSET Kind, over \in SUBSET LiveViews :
       DragUpdates([window |-> w, number |-> drags',
                    offers |-> offers, over |-> over])
  /\ UNCHANGED registrationVars

\* draggingUpdated:
DragMoves ==
  /\ stage \in {"offered", "refused"} /\ drag.window \in live
  /\ \E over \in SUBSET LiveViews : DragUpdates([drag EXCEPT !.over = over])
  /\ UNCHANGED <<registrationVars, drags>>

ClearDropSession == session' = [session EXCEPT ![drag.window] = None]

\* draggingExited:; the drag may go on to another window under its number.
DragExits ==
  /\ stage \in {"offered", "refused"}
  /\ ClearDropSession
  /\ offer' = None
  /\ drop' = NoDrop
  /\ \/ stage' = "idle" /\ drag' = NoDrag
     \/ stage' = "between" /\ UNCHANGED drag
  /\ UNCHANGED <<registrationVars, drags>>

DragReenters ==
  /\ stage = "between"
  /\ \E w \in LiveWindows, over \in SUBSET LiveViews :
       DragUpdates([drag EXCEPT !.window = w, !.over = over])
  /\ UNCHANGED <<registrationVars, drags>>

\* Where the pointer is, and what the source offers, when AppKit calls next.
Now == {[window |-> drag.window, number |-> drag.number,
         offers |-> offers, over |-> over] :
          over \in SUBSET LiveViews, offers \in SUBSET Kind}

\* prepareForDragOperation:, after an offer.
Prepare ==
  /\ stage = "offered"
  /\ \E d \in Now :
       stage' = IF ResolvedActive(d) = None THEN "ending" ELSE "prepared"
  /\ UNCHANGED <<registrationVars, session, drag, drags, offer, drop>>

\* performDragOperation: resolves once more, copies the content and posts.
Perform ==
  /\ stage = "prepared"
  /\ stage' = "ending"
  /\ ClearDropSession
  /\ \E d \in Now, copied \in BOOLEAN :
       drop' = IF ResolvedActive(d) # None /\ copied
               THEN [got |-> ResolvedActive(d), offered |-> offer]
               ELSE NoDrop
  /\ UNCHANGED <<registrationVars, drag, drags, offer>>

\* draggingEnded:
DragEnds ==
  /\ stage \in {"offered", "refused", "prepared", "ending"}
  /\ ClearDropSession
  /\ stage' = "idle"
  /\ drag' = NoDrag
  /\ offer' = None
  /\ drop' = NoDrop
  /\ UNCHANGED <<registrationVars, drags>>

-----------------------------------------------------------------------------
(* Calls of Dart, at any time.                                             *)

For(v, s) == s.view = v

\* ClearDropSessionsForOwner; an offer to the view no longer stands.
ClearSessionsFor(v) ==
  /\ session' = [w \in Window |-> IF For(v, session[w]) THEN None
                                  ELSE session[w]]
  /\ offer' = IF For(v, offer) THEN None ELSE offer

\* da_view_set_drop_destination, with a policy or without.
SetDropDestination(v, kinds) ==
  /\ v \in live
  /\ policy' = [policy EXCEPT ![v] = kinds]
  /\ ClearSessionsFor(v)
  /\ UNCHANGED <<live, drag, stage, drags, drop>>

\* PrepareViewForRelease
ReleaseView(v) ==
  /\ v \in live
  /\ live' = live \ {v}
  /\ policy' = [policy EXCEPT ![v] = {}]
  /\ ClearSessionsFor(v)
  /\ UNCHANGED <<drag, stage, drags, drop>>

\* PrepareWindowForRelease clears the window's session; AppKit may still end
\* the drag there.
ReleaseWindow(w) ==
  /\ w \in live
  /\ live' = live \ {w}
  /\ session' = [session EXCEPT ![w] = None]
  /\ offer' = IF drag.window = w THEN None ELSE offer
  /\ UNCHANGED <<policy, drag, stage, drags, drop>>

Next ==
  \/ DragEnters \/ DragMoves \/ DragExits \/ DragReenters
  \/ Prepare \/ Perform \/ DragEnds
  \/ \E v \in View, kinds \in SUBSET Kind : SetDropDestination(v, kinds)
  \/ \E v \in View : ReleaseView(v)
  \/ \E w \in Window : ReleaseWindow(w)

Spec == Init /\ [][Next]_vars

-----------------------------------------------------------------------------
(* Properties.                                                             *)

\* A drop reaches the view, with the kind of content, that the same drag was
\* last offered to, under the policy it had then: a view whose policy was
\* replaced or that was released in between gets nothing.  No session stands
\* for another view than a live one that accepts its content, and none is left
\* when no drag is under way.
DropFollowsOffer ==
  /\ drop.got = drop.offered
  /\ \A w \in Window : session[w] # None =>
       /\ {w, session[w].view} \subseteq live
       /\ session[w].kind \in policy[session[w].view]
       /\ stage # "idle" /\ w = drag.window
=============================================================================
