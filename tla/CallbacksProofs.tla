--------------------------- MODULE CallbacksProofs ---------------------------
(* For any windows, views, frames and chords, and any number of attaches,    *)
(* drags, presentations, close requests, keys and presses: event sessions,   *)
(* drops, fullscreen, presentation and closing, hot keys and the secure      *)
(* input lease keep what Callbacks promises.  Each part has an invariant of  *)
(* its own, and each step of the composition is a step of one part and       *)
(* leaves the others alone.                                                  *)
EXTENDS Callbacks, TLAPS, WellFoundedInduction, SequenceTheorems

-----------------------------------------------------------------------------
(* Drops.                                                                    *)

LEMMA SmallestNumber ==
  ASSUME NEW S, S \subseteq Nat, S # {}
  PROVE  \E x \in S : \A y \in S : x <= y
<1> DEFINE R == {pair \in Nat \X Nat : pair[1] < pair[2]}
<1>1. R = OpToRel(<, Nat)
  BY Zenon DEF OpToRel
<1>2. IsWellFoundedOn(R, Nat)
  BY <1>1, NatLessThanWellFounded, Zenon
<1>3. \A x, y \in Nat : ~ (<<y, x>> \in R) => x <= y
  OBVIOUS
<1> HIDE DEF R
<1>4. PICK x \in S : \A y \in S : ~ (<<y, x>> \in R)
  BY <1>2, WFMin
<1>5. QED
  BY <1>3, <1>4

NoOffer == Drops!None

IsDrag(d) ==
  d = [window |-> d.window, number |-> d.number,
       offers |-> d.offers, over |-> d.over]

DropsTypeOK ==
  /\ policy \in [View -> SUBSET Drops!Kind]
  /\ dropSession = [w \in Window |-> dropSession[w]]
  /\ IsDrag(drag)
  /\ drag.offers \subseteq Drops!Kind
  /\ stage # "idle" => drag.window \in Window

\* What a session may stand for.
Deliverable(s) ==
  s.view \in View \cap live /\ s.kind \in policy[s.view]

SessionsOK ==
  \A w \in Window : dropSession[w] # NoOffer =>
    /\ w \in live /\ Deliverable(dropSession[w])
    /\ stage \notin {"idle", "between"} /\ w = drag.window

\* Until it is withdrawn, the offer is the session's.
OfferOK ==
  /\ stage \in {"offered", "prepared"} => dropSession[drag.window] = offer
  /\ drop.got = drop.offered

DropsInv == DropsTypeOK /\ SessionsOK /\ OfferOK

\* Among the views under the pointer that take the content there is a
\* deepest one, and its policy has the kind.
LEMMA ResolvedIsDeliverable ==
  ASSUME Drops!DropAssumption, policy \in [View -> SUBSET Drops!Kind],
         NEW d, d.offers \subseteq Drops!Kind,
         d.over \subseteq Drops!LiveViews
  PROVE  Drops!Resolved(d) = NoOffer \/ Deliverable(Drops!Resolved(d))
<1> DEFINE C == Drops!Compatible(d)
           deepest(v) == \A w \in C : Depth[w] <= Depth[v]
           best == CHOOSE v \in C : deepest(v)
<1>1. SUFFICES ASSUME C # {} PROVE Deliverable(Drops!Resolved(d))
  BY DEF Drops!Resolved, NoOffer
<1>2. C \subseteq View \cap live
  BY DEF Drops!Compatible, Drops!LiveViews
<1>3. /\ MaxDepth \in Nat
      /\ \A v \in View : Depth[v] \in Nat /\ Depth[v] <= MaxDepth
  BY DEF Drops!DropAssumption
<1>4. \E v \in C : deepest(v)
  <2> DEFINE S == {MaxDepth - Depth[v] : v \in C}
  <2>1. S \subseteq Nat /\ S # {}
    BY <1>1, <1>2, <1>3
  <2>2. PICK x \in S : \A y \in S : x <= y
    BY <2>1, SmallestNumber
  <2>3. PICK v \in C : x = MaxDepth - Depth[v]
    BY <2>2
  <2>4. \A w \in C : MaxDepth - Depth[v] <= MaxDepth - Depth[w]
    BY <2>2, <2>3
  <2>5. deepest(v)
    BY <1>2, <1>3, <2>4
  <2>6. QED
    BY <2>5
<1>5. best \in C
  BY <1>4
<1>6. d.offers \cap policy[best] # {}
  BY <1>5 DEF Drops!Compatible
<1>7. Drops!KindFor(best, d) \in policy[best]
  BY <1>2, <1>5, <1>6 DEF Drops!KindFor, Drops!Kind
<1>8. Drops!Resolved(d) =
        [view |-> best, kind |-> Drops!KindFor(best, d), number |-> d.number]
  BY <1>1 DEF Drops!Resolved
<1>9. QED
  BY <1>2, <1>5, <1>7, <1>8 DEF Deliverable

LEMMA DragFields ==
  ASSUME NEW d, IsDrag(d), NEW w, NEW over
  PROVE  /\ [d EXCEPT !.over = over] =
              [window |-> d.window, number |-> d.number,
               offers |-> d.offers, over |-> over]
         /\ [d EXCEPT !.window = w, !.over = over] =
              [window |-> w, number |-> d.number,
               offers |-> d.offers, over |-> over]
<1>1. [d EXCEPT !.over = over] =
        [window |-> d.window, number |-> d.number,
         offers |-> d.offers, over |-> over]
  BY DEF IsDrag
<1>2. PICK e : e = [d EXCEPT !.window = w, !.over = over]
  OBVIOUS
<1>3. e = [window |-> w, number |-> d.number,
           offers |-> d.offers, over |-> over]
  BY <1>2 DEF IsDrag
<1>4. QED
  BY <1>1, <1>2, <1>3

\* AppKit tells the window where the drag is now.
LEMMA DragUpdatesKeeps ==
  ASSUME Drops!DropAssumption, DropsInv, NEW d, IsDrag(d),
         d.offers \subseteq Drops!Kind, d.over \subseteq Drops!LiveViews,
         d.window \in Window \cap live,
         \A w \in Window \ {d.window} : dropSession[w] = NoOffer,
         Drops!DragUpdates(d), UNCHANGED Drops!registrationVars
  PROVE  DropsInv'
<1> USE DEF DropsInv
<1>1. UNCHANGED <<policy, live>>
  BY DEF Drops!registrationVars
<1>2. /\ drag' = d /\ stage' \in {"offered", "refused"}
      /\ drop' = Drops!NoDrop /\ offer' = Drops!Resolved(d)
      /\ dropSession' = [dropSession EXCEPT ![d.window] = Drops!Resolved(d)]
  BY DEF Drops!DragUpdates
<1>3. DropsTypeOK'
  BY <1>1, <1>2 DEF DropsTypeOK, IsDrag
<1>4. /\ dropSession'[d.window] = Drops!Resolved(d)
      /\ \A w \in Window \ {d.window} : dropSession'[w] = NoOffer
  BY <1>2 DEF DropsTypeOK
<1>5. Drops!Resolved(d) = NoOffer \/ Deliverable(Drops!Resolved(d))
  BY ResolvedIsDeliverable DEF DropsTypeOK
<1>6. SessionsOK'
  BY <1>1, <1>2, <1>4, <1>5 DEF SessionsOK, Deliverable, NoOffer
<1>7. OfferOK'
  BY <1>2, <1>4 DEF OfferOK, Drops!NoDrop
<1>8. QED
  BY <1>3, <1>6, <1>7

LEMMA ClearKeeps ==
  ASSUME DropsInv, stage # "idle", Drops!ClearDropSession
  PROVE  /\ dropSession' = [w \in Window |-> dropSession'[w]]
         /\ \A w \in Window : dropSession'[w] = NoOffer
<1>1. dropSession' = [dropSession EXCEPT ![drag.window] = NoOffer]
  BY DEF Drops!ClearDropSession, NoOffer
<1>2. QED
  BY <1>1 DEF DropsInv, DropsTypeOK, SessionsOK

\* Dart replaces or removes the policy of a view, or releases the view.
LEMMA ClearSessionsKeeps ==
  ASSUME DropsInv, NEW v, NEW kinds \in SUBSET Drops!Kind,
         Drops!ClearSessionsFor(v),
         policy' = [policy EXCEPT ![v] = kinds],
         live' \in {live, live \ {v}}, v \notin Window \/ live' = live,
         UNCHANGED <<drag, stage, drop>>
  PROVE  DropsInv'
<1> USE DEF DropsInv
<1>1. /\ dropSession' =
           [w \in Window |-> IF dropSession[w].view = v THEN NoOffer
                             ELSE dropSession[w]]
      /\ offer' = IF offer.view = v THEN NoOffer ELSE offer
  BY DEF Drops!ClearSessionsFor, Drops!For, NoOffer
<1>2. DropsTypeOK'
  BY <1>1 DEF DropsTypeOK
<1>3. SessionsOK'
  <2> SUFFICES ASSUME NEW w \in Window, dropSession'[w] # NoOffer
               PROVE  /\ w \in live' /\ Deliverable(dropSession[w])'
                      /\ stage' \notin {"idle", "between"} /\ w = drag'.window
    BY DEF SessionsOK
  <2>1. dropSession'[w] = dropSession[w] /\ dropSession[w].view # v
    BY <1>1
  <2>2. Deliverable(dropSession[w])
    BY <2>1 DEF SessionsOK
  <2>3. policy'[dropSession[w].view] = policy[dropSession[w].view]
    BY <2>1, <2>2 DEF DropsTypeOK, Deliverable
  <2>4. Deliverable(dropSession[w])'
    BY <2>1, <2>2, <2>3 DEF Deliverable
  <2>5. w \in live'
    BY <2>1 DEF SessionsOK
  <2>6. QED
    BY <2>1, <2>4, <2>5 DEF SessionsOK
<1>4. OfferOK'
  BY <1>1 DEF OfferOK, DropsTypeOK
<1>5. QED
  BY <1>2, <1>3, <1>4

LEMMA DropsStep ==
  ASSUME Drops!DropAssumption, DropsInv, [Drops!Next]_dVars
  PROVE  DropsInv'
<1> USE DEF DropsInv
<1>1. CASE Drops!DragEnters
  <2>1. PICK w \in Drops!LiveWindows, offers \in SUBSET Drops!Kind,
             over \in SUBSET Drops!LiveViews :
          Drops!DragUpdates([window |-> w, number |-> drags',
                             offers |-> offers, over |-> over])
    BY <1>1 DEF Drops!DragEnters
  <2>2. \A x \in Window : dropSession[x] = NoOffer
    BY <1>1 DEF Drops!DragEnters, SessionsOK
  <2>3. UNCHANGED Drops!registrationVars
    BY <1>1 DEF Drops!DragEnters
  <2>4. QED
    BY <2>1, <2>2, <2>3, DragUpdatesKeeps DEF Drops!LiveWindows, IsDrag
<1>2. CASE Drops!DragMoves
  <2>1. PICK over \in SUBSET Drops!LiveViews :
          Drops!DragUpdates([drag EXCEPT !.over = over])
    BY <1>2 DEF Drops!DragMoves
  <2>2. [drag EXCEPT !.over = over] =
          [window |-> drag.window, number |-> drag.number,
           offers |-> drag.offers, over |-> over]
    BY DragFields DEF DropsTypeOK
  <2>3. /\ stage # "idle" /\ drag.window \in live
        /\ UNCHANGED Drops!registrationVars
    BY <1>2 DEF Drops!DragMoves
  <2>4. /\ drag.window \in Window /\ drag.offers \subseteq Drops!Kind
        /\ \A w \in Window \ {drag.window} : dropSession[w] = NoOffer
    BY <2>3 DEF DropsTypeOK, SessionsOK
  <2>5. QED
    BY <2>1, <2>2, <2>3, <2>4, DragUpdatesKeeps DEF IsDrag
<1>3. CASE Drops!DragExits
  <2>1. /\ stage # "idle" /\ Drops!ClearDropSession
        /\ offer' = NoOffer /\ drop' = Drops!NoDrop
        /\ UNCHANGED <<policy, live>>
        /\ \/ stage' = "idle" /\ drag' = Drops!NoDrag
           \/ stage' = "between" /\ UNCHANGED drag
    BY <1>3 DEF Drops!DragExits, Drops!registrationVars, NoOffer
  <2>2. DropsTypeOK'
    BY <2>1, ClearKeeps DEF DropsTypeOK, IsDrag, Drops!NoDrag
  <2>3. SessionsOK' /\ OfferOK'
    BY <2>1, ClearKeeps DEF SessionsOK, OfferOK, Drops!NoDrop
  <2>4. QED
    BY <2>2, <2>3
<1>4. CASE Drops!DragReenters
  <2>1. PICK w \in Drops!LiveWindows, over \in SUBSET Drops!LiveViews :
          Drops!DragUpdates([drag EXCEPT !.window = w, !.over = over])
    BY <1>4 DEF Drops!DragReenters
  <2>2. [drag EXCEPT !.window = w, !.over = over] =
          [window |-> w, number |-> drag.number,
           offers |-> drag.offers, over |-> over]
    BY DragFields DEF DropsTypeOK
  <2>3. /\ \A x \in Window : dropSession[x] = NoOffer
        /\ drag.offers \subseteq Drops!Kind
        /\ UNCHANGED Drops!registrationVars
    BY <1>4 DEF Drops!DragReenters, SessionsOK, DropsTypeOK
  <2>4. QED
    BY <2>1, <2>2, <2>3, DragUpdatesKeeps DEF Drops!LiveWindows, IsDrag
<1>5. CASE Drops!Prepare
  <2>1. /\ stage = "offered" /\ stage' \in {"ending", "prepared"}
        /\ UNCHANGED <<policy, live, dropSession, drag, offer, drop>>
    BY <1>5 DEF Drops!Prepare, Drops!registrationVars
  <2>2. QED
    BY <2>1 DEF DropsTypeOK, SessionsOK, OfferOK, Deliverable
<1>6. CASE Drops!Perform
  <2>1. /\ stage = "prepared" /\ stage' = "ending" /\ Drops!ClearDropSession
        /\ UNCHANGED <<policy, live, drag, offer>>
    BY <1>6 DEF Drops!Perform, Drops!registrationVars
  <2>2. drop'.got = drop'.offered
    <3>1. PICK d \in Drops!Now, copied \in BOOLEAN :
            drop' = IF Drops!ResolvedActive(d) # NoOffer /\ copied
                    THEN [got |-> Drops!ResolvedActive(d), offered |-> offer]
                    ELSE Drops!NoDrop
      BY <1>6 DEF Drops!Perform, NoOffer
    <3>2. d.window = drag.window
      BY DEF Drops!Now
    <3>3. Drops!ResolvedActive(d) \in {NoOffer, offer}
      BY <2>1, <3>2 DEF Drops!ResolvedActive, OfferOK, NoOffer
    <3>4. QED
      BY <3>1, <3>3 DEF Drops!NoDrop
  <2>3. DropsTypeOK'
    BY <2>1, ClearKeeps DEF DropsTypeOK
  <2>4. SessionsOK' /\ OfferOK'
    BY <2>1, <2>2, ClearKeeps DEF SessionsOK, OfferOK
  <2>5. QED
    BY <2>3, <2>4
<1>7. CASE Drops!DragEnds
  <2>1. /\ stage # "idle" /\ stage' = "idle" /\ Drops!ClearDropSession
        /\ drag' = Drops!NoDrag /\ drop' = Drops!NoDrop
        /\ UNCHANGED <<policy, live>>
    BY <1>7 DEF Drops!DragEnds, Drops!registrationVars
  <2>2. DropsTypeOK'
    BY <2>1, ClearKeeps DEF DropsTypeOK, IsDrag, Drops!NoDrag
  <2>3. SessionsOK' /\ OfferOK'
    BY <2>1, ClearKeeps DEF SessionsOK, OfferOK, Drops!NoDrop
  <2>4. QED
    BY <2>2, <2>3
<1>8. ASSUME NEW v \in View, NEW kinds \in SUBSET Drops!Kind,
             Drops!SetDropDestination(v, kinds)
      PROVE  DropsInv'
  BY <1>8, ClearSessionsKeeps DEF Drops!SetDropDestination
<1>9. ASSUME NEW v \in View, Drops!ReleaseView(v)
      PROVE  DropsInv'
  BY <1>9, ClearSessionsKeeps DEF Drops!ReleaseView, Drops!DropAssumption
<1>10. ASSUME NEW w \in Window, Drops!ReleaseWindow(w)
       PROVE  DropsInv'
  <2>1. /\ dropSession' = [dropSession EXCEPT ![w] = NoOffer]
        /\ offer' = IF drag.window = w THEN NoOffer ELSE offer
        /\ live' = live \ {w}
        /\ UNCHANGED <<policy, drag, stage, drop>>
    BY <1>10 DEF Drops!ReleaseWindow, NoOffer
  <2>2. DropsTypeOK'
    BY <2>1 DEF DropsTypeOK
  <2>3. \A x \in Window : dropSession'[x] =
          IF x = w THEN NoOffer ELSE dropSession[x]
    BY <2>1 DEF DropsTypeOK
  <2>4. SessionsOK'
    BY <2>1, <2>3 DEF SessionsOK, Deliverable, Drops!DropAssumption
  <2>5. OfferOK'
    BY <2>1, <2>3 DEF OfferOK, DropsTypeOK
  <2>6. QED
    BY <2>2, <2>4, <2>5
<1>11. CASE UNCHANGED dVars
  BY <1>11 DEF dVars, DropsTypeOK, SessionsOK, OfferOK, Deliverable
<1>12. QED
  BY <1>1, <1>2, <1>3, <1>4, <1>5, <1>6, <1>7, <1>8, <1>9, <1>10, <1>11
  DEF Drops!Next

-----------------------------------------------------------------------------
(* Fullscreen.                                                               *)

WindowRecord ==
  [state : Fullscreen!Mode]
    \cup [frame : Fullscreen!Frame, source : {"callback", "snapshot"}]

\* A Dart window that saw old finds no unsafe frame among the records rs.
Safe(old, rs) ==
  \A n \in 1 .. Len(rs) :
    ~Fullscreen!IsState(rs[n]) /\ rs[n].source = "callback" =>
      rs[n].frame \in Windowed \/ Fullscreen!Seeing(old, rs, n, "on")

\* What a Dart window that saw old sees after the records rs.
Ends(old, rs, s) == Fullscreen!Seeing(old, rs, Len(rs) + 1, s)

\* Where the last post is known it was the window's mode, and Dart ends up
\* with that mode.
FullscreenInv ==
  /\ mode \in Fullscreen!Mode /\ frame \in Fullscreen!Frame
  /\ windowed \in Windowed
  /\ changing \in BOOLEAN
  /\ changing => target = Fullscreen!Opposite(mode)
  /\ lastState \in {Fullscreen!None, mode}
  /\ stateEvents \in Seq(WindowRecord)
  /\ Ends(seen, stateEvents, mode)
  /\ Safe(seen, stateEvents)

LEMMA RecordShapes ==
  /\ \A s \in Fullscreen!Mode : Fullscreen!IsState([state |-> s])
  /\ \A f, source : ~Fullscreen!IsState([frame |-> f, source |-> source])
BY DEF Fullscreen!IsState

LEMMA AppendFacts ==
  ASSUME NEW S, NEW rs \in Seq(S), NEW r \in S
  PROVE  /\ Append(rs, r) \in Seq(S)
         /\ Len(rs) \in Nat /\ Len(Append(rs, r)) = Len(rs) + 1
         /\ Append(rs, r)[Len(rs) + 1] = r
         /\ \A n \in 1 .. Len(rs) : Append(rs, r)[n] = rs[n]
OBVIOUS

LEMMA TailFacts ==
  ASSUME NEW S, NEW rs \in Seq(S), rs # <<>>
  PROVE  /\ Head(rs) = rs[1] /\ Head(rs) \in S /\ Tail(rs) \in Seq(S)
         /\ Len(rs) \in Nat \ {0} /\ Len(Tail(rs)) = Len(rs) - 1
         /\ \A n \in 1 .. Len(rs) - 1 : Tail(rs)[n] = rs[n + 1]
OBVIOUS

LEMMA ConcatFacts ==
  ASSUME NEW S, NEW rs \in Seq(S), NEW r \in S
  PROVE  rs \o <<>> = rs /\ rs \o <<r>> = Append(rs, r)
OBVIOUS

\* A further record does not change what is seen before it.
LEMMA SeeingBefore ==
  ASSUME NEW S, NEW rs \in Seq(S), NEW r \in S, NEW old, NEW s,
         NEW n \in 1 .. Len(rs) + 1
  PROVE  Fullscreen!Seeing(old, rs, n, s)
           => Fullscreen!Seeing(old, Append(rs, r), n, s)
BY AppendFacts DEF Fullscreen!Seeing

LEMMA SeeingAfter ==
  ASSUME NEW S, NEW rs \in Seq(S), NEW r \in S, NEW old, NEW s,
         IF Fullscreen!IsState(r) THEN r.state = s ELSE Ends(old, rs, s)
  PROVE  Ends(old, Append(rs, r), s)
<1>1. CASE Fullscreen!IsState(r)
  BY <1>1, AppendFacts DEF Ends, Fullscreen!Seeing
<1>2. CASE ~Fullscreen!IsState(r)
  BY <1>2, AppendFacts DEF Ends, Fullscreen!Seeing
<1>3. QED
  BY <1>1, <1>2

LEMMA SeeingDelivered ==
  ASSUME NEW S, NEW rs \in Seq(S), rs # <<>>, NEW old, NEW s,
         NEW n \in 2 .. Len(rs) + 1, Fullscreen!Seeing(old, rs, n, s),
         NEW new, IF Fullscreen!IsState(Head(rs)) THEN new = Head(rs).state
                  ELSE new = old
  PROVE  Fullscreen!Seeing(new, Tail(rs), n - 1, s)
<1>1. CASE /\ old = s /\ \A m \in 1 .. n - 1 : ~Fullscreen!IsState(rs[m])
  BY <1>1, TailFacts DEF Fullscreen!Seeing
<1>2. ASSUME NEW m \in 1 .. n - 1,
             Fullscreen!IsState(rs[m]), rs[m].state = s,
             \A later \in m + 1 .. n - 1 : ~Fullscreen!IsState(rs[later])
      PROVE  Fullscreen!Seeing(new, Tail(rs), n - 1, s)
  <2>1. CASE m = 1
    BY <1>2, <2>1, TailFacts DEF Fullscreen!Seeing
  <2>2. CASE m # 1
    <3>1. m - 1 \in 1 .. (n - 1) - 1 /\ Tail(rs)[m - 1] = rs[m]
      BY <2>2, TailFacts
    <3>2. \A later \in (m - 1) + 1 .. (n - 1) - 1 :
            ~Fullscreen!IsState(Tail(rs)[later])
      BY <1>2, TailFacts
    <3>3. QED
      BY <1>2, <3>1, <3>2 DEF Fullscreen!Seeing
  <2>3. QED
    BY <2>1, <2>2
<1>3. QED
  BY <1>1, <1>2 DEF Fullscreen!Seeing

LEMMA SafeAppend ==
  ASSUME NEW rs \in Seq(WindowRecord), NEW r \in WindowRecord, NEW old,
         Safe(old, rs),
         ~Fullscreen!IsState(r) /\ r.source = "callback" =>
           r.frame \in Windowed \/ Ends(old, rs, "on")
  PROVE  Safe(old, Append(rs, r))
<1> SUFFICES ASSUME NEW n \in 1 .. Len(Append(rs, r)),
                    ~Fullscreen!IsState(Append(rs, r)[n]),
                    Append(rs, r)[n].source = "callback"
             PROVE  \/ Append(rs, r)[n].frame \in Windowed
                    \/ Fullscreen!Seeing(old, Append(rs, r), n, "on")
  BY DEF Safe
<1>1. CASE n = Len(rs) + 1
  BY <1>1, AppendFacts, SeeingBefore DEF Ends
<1>2. CASE n # Len(rs) + 1
  <2>1. n \in 1 .. Len(rs) /\ Append(rs, r)[n] = rs[n]
    BY <1>2, AppendFacts
  <2>2. QED
    BY <2>1, AppendFacts, SeeingBefore DEF Safe
<1>3. QED
  BY <1>1, <1>2

\* daPostFullscreenState: Dart comes to see what is posted.
LEMMA PostsState ==
  ASSUME NEW rs \in Seq(WindowRecord), NEW old, NEW s \in Fullscreen!Mode,
         Safe(old, rs), lastState = s => Ends(old, rs, s)
  PROVE  LET new == rs \o Fullscreen!StateRecord(s) IN
           new \in Seq(WindowRecord) /\ Safe(old, new) /\ Ends(old, new, s)
<1> DEFINE r == [state |-> s]
<1>1. r \in WindowRecord /\ Fullscreen!IsState(r) /\ r.state = s
  BY RecordShapes DEF WindowRecord
<1> HIDE DEF r
<1>2. CASE lastState = s
  BY <1>2, ConcatFacts, <1>1 DEF Fullscreen!StateRecord
<1>3. CASE lastState # s
  <2>1. rs \o Fullscreen!StateRecord(s) = Append(rs, r)
    BY <1>1, <1>3, ConcatFacts DEF Fullscreen!StateRecord, r
  <2>2. QED
    BY <1>1, <2>1, AppendFacts, SafeAppend, SeeingAfter
<1>4. QED
  BY <1>2, <1>3

\* daPostFrame leaves what Dart sees of the state alone.
LEMMA PostsFrame ==
  ASSUME NEW rs \in Seq(WindowRecord), NEW old, NEW s,
         NEW f \in Fullscreen!Frame, NEW source \in {"callback", "snapshot"},
         Safe(old, rs), Ends(old, rs, s),
         source = "callback" => f \in Windowed \/ s = "on"
  PROVE  LET new == rs \o Fullscreen!FrameRecord(f, source) IN
           new \in Seq(WindowRecord) /\ Safe(old, new) /\ Ends(old, new, s)
<1> DEFINE r == [frame |-> f, source |-> source]
<1>1. /\ r \in WindowRecord /\ ~Fullscreen!IsState(r)
      /\ r.frame = f /\ r.source = source
  BY RecordShapes DEF WindowRecord
<1> HIDE DEF r
<1>2. CASE lastFrame = f
  BY <1>1, <1>2, ConcatFacts DEF Fullscreen!FrameRecord
<1>3. CASE lastFrame # f
  <2>1. rs \o Fullscreen!FrameRecord(f, source) = Append(rs, r)
    BY <1>1, <1>3, ConcatFacts DEF Fullscreen!FrameRecord, r
  <2>2. QED
    BY <1>1, <2>1, AppendFacts, SafeAppend, SeeingAfter
<1>4. QED
  BY <1>2, <1>3

LEMMA Opposites ==
  \A m \in Fullscreen!Mode :
    /\ Fullscreen!Opposite(m) \in Fullscreen!Mode \ {m}
    /\ Fullscreen!Opposite(Fullscreen!Opposite(m)) = m
<1>1. Fullscreen!Opposite("on") = "off" /\ Fullscreen!Opposite("off") = "on"
  BY DEF Fullscreen!Opposite, Fullscreen!Mode
<1>2. QED
  BY <1>1 DEF Fullscreen!Mode

\* A transition ends, reached or failed, in mode s.
LEMMA TransitionEnds ==
  ASSUME FullscreenInv, NEW s \in Fullscreen!Mode,
         lastState = s => Ends(seen, stateEvents, s),
         mode' = s, changing' = FALSE, UNCHANGED <<windowed, seen>>,
         frame' = IF s = "on" THEN Fullscreen!Full ELSE windowed,
         Fullscreen!PostStateThenFrame(s, frame')
  PROVE  FullscreenInv'
<1> USE DEF FullscreenInv
<1> DEFINE rs == stateEvents \o Fullscreen!StateRecord(s)
<1>1. rs \in Seq(WindowRecord) /\ Safe(seen, rs) /\ Ends(seen, rs, s)
  BY PostsState
<1>2. /\ stateEvents' = rs \o Fullscreen!FrameRecord(frame', "callback")
      /\ lastState' = s
  BY DEF Fullscreen!PostStateThenFrame
<1> HIDE DEF rs
<1>3. frame' \in Fullscreen!Frame /\ (frame' \in Windowed \/ s = "on")
  BY DEF Fullscreen!Frame
<1> DEFINE f == frame'
<1> HIDE DEF f
<1>4. f \in Fullscreen!Frame /\ (f \in Windowed \/ s = "on")
      /\ stateEvents' = rs \o Fullscreen!FrameRecord(f, "callback")
  BY <1>2, <1>3 DEF f
<1>5. /\ stateEvents' \in Seq(WindowRecord)
      /\ Safe(seen, stateEvents') /\ Ends(seen, stateEvents', s)
  BY <1>1, <1>4, PostsFrame
<1>6. QED
  BY <1>2, <1>3, <1>5 DEF Safe, Ends

LEMMA FullscreenStep ==
  ASSUME FullscreenInv, [Fullscreen!Next]_fVars
  PROVE  FullscreenInv'
<1> USE DEF FullscreenInv
<1>1. CASE Fullscreen!UserToggles
  <2>1. /\ changing' = TRUE /\ target' = Fullscreen!Opposite(mode)
        /\ UNCHANGED <<mode, frame, windowed, lastState, stateEvents, seen>>
    BY <1>1 DEF Fullscreen!UserToggles, Fullscreen!dartVars
  <2>2. QED
    BY <2>1 DEF Safe, Ends
<1>2. ASSUME NEW f \in Windowed, Fullscreen!UserMoves(f)
      PROVE  FullscreenInv'
  <2>1. /\ frame' = f /\ windowed' = f
        /\ stateEvents' = stateEvents \o Fullscreen!FrameRecord(f, "callback")
        /\ UNCHANGED <<mode, changing, target, lastState, seen>>
    BY <1>2 DEF Fullscreen!UserMoves, Fullscreen!dartVars
  <2>2. f \in Fullscreen!Frame
    BY DEF Fullscreen!Frame
  <2>3. /\ stateEvents' \in Seq(WindowRecord) /\ Safe(seen, stateEvents')
        /\ Ends(seen, stateEvents', mode)
    BY <2>1, <2>2, PostsFrame
  <2>4. QED
    BY <2>1, <2>2, <2>3 DEF Safe, Ends
<1>3. CASE Fullscreen!TransitionMoves
  <2>1. /\ frame' = Fullscreen!Moving
        /\ UNCHANGED <<mode, windowed, changing, target, lastState,
                       stateEvents, seen>>
    BY <1>3
    DEF Fullscreen!TransitionMoves, Fullscreen!ownerVars, Fullscreen!dartVars
  <2>2. frame' \in Fullscreen!Frame
    BY <2>1 DEF Fullscreen!Frame
  <2>3. QED
    BY <2>1, <2>2 DEF Safe, Ends
<1>4. CASE Fullscreen!FullscreenEnds
  <2>1. /\ changing /\ changing' = FALSE /\ mode' = target
        /\ frame' = IF target = "on" THEN Fullscreen!Full ELSE windowed
        /\ Fullscreen!PostStateThenFrame(target, frame')
        /\ UNCHANGED <<windowed, seen>>
    BY <1>4 DEF Fullscreen!FullscreenEnds, Fullscreen!dartVars
  <2>2. target \in Fullscreen!Mode /\ target # mode
    BY <2>1, Opposites
  <2>3. lastState # target
    BY <2>2 DEF Fullscreen!None, Fullscreen!Mode
  <2>4. QED
    BY <2>1, <2>2, <2>3, TransitionEnds
<1>5. CASE Fullscreen!FullscreenFails
  <2>1. /\ changing /\ changing' = FALSE /\ mode' = mode
        /\ frame' = IF mode = "on" THEN Fullscreen!Full ELSE windowed
        /\ Fullscreen!PostStateThenFrame(Fullscreen!Opposite(target), frame')
        /\ UNCHANGED <<windowed, seen>>
    BY <1>5 DEF Fullscreen!FullscreenFails, Fullscreen!dartVars
  <2>2. Fullscreen!Opposite(target) = mode
    BY <2>1, Opposites
  <2>3. QED
    BY <2>1, <2>2, TransitionEnds
<1>6. ASSUME NEW enabled \in Fullscreen!Mode, Fullscreen!SetFullscreen(enabled)
      PROVE  FullscreenInv'
  <2>1. /\ Fullscreen!DaSetFullscreen(enabled)
        /\ UNCHANGED <<mode, frame, windowed, seen>>
    BY <1>6 DEF Fullscreen!SetFullscreen
  <2>2. CASE ~changing /\ mode = enabled
    <3>1. /\ stateEvents' = stateEvents \o Fullscreen!StateRecord(mode)
          /\ lastState' = mode /\ changing' = changing
      BY <2>1, <2>2 DEF Fullscreen!DaSetFullscreen
    <3>2. /\ stateEvents' \in Seq(WindowRecord) /\ Safe(seen, stateEvents')
          /\ Ends(seen, stateEvents', mode)
      BY <3>1, PostsState
    <3>3. QED
      BY <2>1, <2>2, <3>1, <3>2 DEF Safe, Ends
  <2>3. CASE changing \/ mode # enabled
    <3>1. /\ UNCHANGED <<lastState, stateEvents>>
          /\ IF changing THEN UNCHANGED <<changing, target>>
             ELSE changing' = TRUE /\ target' = enabled
      BY <2>1, <2>3 DEF Fullscreen!DaSetFullscreen
    <3>2. ~changing => enabled = Fullscreen!Opposite(mode)
      BY <2>3 DEF Fullscreen!Opposite, Fullscreen!Mode
    <3>3. QED
      BY <2>1, <3>1, <3>2 DEF Safe, Ends
  <2>4. QED
    BY <2>2, <2>3
<1>7. CASE Fullscreen!Show
  <2> DEFINE rs == stateEvents \o Fullscreen!FrameRecord(frame, "snapshot")
  <2>1. /\ stateEvents' = rs \o Fullscreen!StateRecord(mode)
        /\ lastState' = mode
        /\ UNCHANGED <<mode, frame, windowed, changing, target, seen>>
    BY <1>7
    DEF Fullscreen!Show, Fullscreen!PostCurrentWindowState,
        Fullscreen!dartVars
  <2>2. rs \in Seq(WindowRecord) /\ Safe(seen, rs) /\ Ends(seen, rs, mode)
    BY PostsFrame
  <2> HIDE DEF rs
  <2>3. /\ stateEvents' \in Seq(WindowRecord) /\ Safe(seen, stateEvents')
        /\ Ends(seen, stateEvents', mode)
    BY <2>1, <2>2, PostsState
  <2>4. QED
    BY <2>1, <2>3 DEF Safe, Ends
<1>8. CASE Fullscreen!Deliver
  <2>1. /\ stateEvents # <<>> /\ stateEvents' = Tail(stateEvents)
        /\ UNCHANGED <<mode, frame, windowed, changing, target, lastState>>
        /\ IF Fullscreen!IsState(Head(stateEvents))
           THEN seen' = Head(stateEvents).state ELSE seen' = seen
    BY <1>8
    DEF Fullscreen!Deliver, Fullscreen!ownerVars, Fullscreen!dartVars,
        Fullscreen!IsState
  <2>2. stateEvents' \in Seq(WindowRecord)
    BY <2>1, TailFacts
  <2>3. Ends(seen, stateEvents, mode)'
    BY <2>1, TailFacts, SeeingDelivered DEF Ends
  <2>4. Safe(seen, stateEvents)'
    <3> SUFFICES ASSUME NEW n \in 1 .. Len(stateEvents'),
                        ~Fullscreen!IsState(stateEvents'[n]),
                        stateEvents'[n].source = "callback"
                 PROVE  \/ stateEvents'[n].frame \in Windowed
                        \/ Fullscreen!Seeing(seen', stateEvents', n, "on")
      BY DEF Safe
    <3>1. /\ n + 1 \in 2 .. Len(stateEvents) + 1
          /\ n + 1 \in 1 .. Len(stateEvents)
          /\ stateEvents'[n] = stateEvents[n + 1] /\ (n + 1) - 1 = n
      BY <2>1, TailFacts
    <3>2. \/ stateEvents[n + 1].frame \in Windowed
          \/ Fullscreen!Seeing(seen, stateEvents, n + 1, "on")
      BY <3>1 DEF Safe
    <3>3. Fullscreen!Seeing(seen, stateEvents, n + 1, "on")
            => Fullscreen!Seeing(seen', stateEvents', (n + 1) - 1, "on")
      BY <2>1, <3>1, SeeingDelivered
    <3>4. QED
      BY <3>1, <3>2, <3>3
  <2>5. QED
    BY <2>1, <2>2, <2>3, <2>4
<1>9. CASE UNCHANGED fVars
  BY <1>9 DEF fVars, Safe, Ends
<1>10. QED
  BY <1>1, <1>2, <1>3, <1>4, <1>5, <1>6, <1>7, <1>8, <1>9 DEF Fullscreen!Next

-----------------------------------------------------------------------------
(* Presentation and closing.                                                 *)

PresentationRecord ==
  [type : {"visibility"}, state : {"yes", "no"}]
    \cup [type : {"closed"}] \cup [type : {"request"}, op : Nat]

\* The close operations that records bring to Dart.
Asked(rs) ==
  {rs[n].op : n \in {m \in 1 .. Len(rs) : rs[m].type = "request"}}

UnderWay == \E a \in animations : Presentation!Current(a)

PresentationTypeOK ==
  /\ onScreen \in BOOLEAN /\ visible \in BOOLEAN /\ portOpen \in BOOLEAN
  /\ lastVisible \in {"none", "yes", "no"}
  /\ generation \in Nat /\ nextOp \in Nat
  /\ events \in Seq(PresentationRecord)

\* Dart comes to believe the state posted last.
BeliefOK ==
  registered /\ portOpen =>
    Presentation!Believing(visible, events, lastVisible = "yes")

\* Between animations, the state posted last is the window's.
PostedOK ==
  registered /\ portOpen /\ ~cutShort /\ ~UnderWay =>
    (lastVisible = "yes" <=> onScreen)

\* A completion that still counts belongs to the latest wish.
AnimationsOK ==
  \A a \in animations :
    /\ a.of \in Nat /\ a.of <= generation
    /\ Presentation!Current(a) /\ a.kind = "hide" => wish # "shown"

\* A released window has no close operation, and any other one is answerable.
ClosingOK ==
  /\ ~registered => pending = Presentation!NoOp
  /\ pending # Presentation!NoOp /\ portOpen =>
         pending \in known \cup Asked(events)

PresentationInv ==
  PresentationTypeOK /\ BeliefOK /\ PostedOK /\ AnimationsOK /\ ClosingOK

LEMMA PresentationRecords ==
  /\ \A v \in {"yes", "no"} :
       /\ [type |-> "visibility", state |-> v] \in PresentationRecord
       /\ Presentation!IsNews([type |-> "visibility", state |-> v])
       /\ Presentation!ShowsWindow([type |-> "visibility", state |-> v])
            <=> v = "yes"
  /\ [type |-> "closed"] \in PresentationRecord
  /\ Presentation!IsNews([type |-> "closed"])
  /\ ~Presentation!ShowsWindow([type |-> "closed"])
  /\ \A op \in Nat :
       /\ [type |-> "request", op |-> op] \in PresentationRecord
       /\ ~Presentation!IsNews([type |-> "request", op |-> op])
BY DEF PresentationRecord, Presentation!IsNews, Presentation!ShowsWindow

LEMMA BelievingAfter ==
  ASSUME NEW S, NEW rs \in Seq(S), NEW r \in S, NEW old,
         NEW shown \in BOOLEAN,
         IF Presentation!IsNews(r) THEN Presentation!ShowsWindow(r) <=> shown
         ELSE Presentation!Believing(old, rs, shown)
  PROVE  Presentation!Believing(old, Append(rs, r), shown)
<1>1. CASE Presentation!IsNews(r)
  <2>1. Presentation!ShowsWindow(r) = shown
    BY <1>1 DEF Presentation!ShowsWindow
  <2>2. /\ Len(rs) + 1 \in 1 .. Len(Append(rs, r))
        /\ \A later \in (Len(rs) + 1) + 1 .. Len(Append(rs, r)) : FALSE
    BY AppendFacts
  <2>3. QED
    BY <1>1, <2>1, <2>2, AppendFacts DEF Presentation!Believing
<1>2. CASE ~Presentation!IsNews(r)
  BY <1>2, AppendFacts DEF Presentation!Believing
<1>3. QED
  BY <1>1, <1>2

LEMMA BelievingDelivered ==
  ASSUME NEW S, NEW rs \in Seq(S), rs # <<>>, NEW old, NEW shown \in BOOLEAN,
         Presentation!Believing(old, rs, shown),
         NEW new, IF Presentation!IsNews(Head(rs))
                  THEN new = Presentation!ShowsWindow(Head(rs)) ELSE new = old
  PROVE  Presentation!Believing(new, Tail(rs), shown)
<1>1. CASE old = shown /\ \A n \in 1 .. Len(rs) : ~Presentation!IsNews(rs[n])
  BY <1>1, TailFacts DEF Presentation!Believing
<1>2. ASSUME NEW n \in 1 .. Len(rs), Presentation!IsNews(rs[n]),
             Presentation!ShowsWindow(rs[n]) = shown,
             \A later \in n + 1 .. Len(rs) : ~Presentation!IsNews(rs[later])
      PROVE  Presentation!Believing(new, Tail(rs), shown)
  <2>1. CASE n = 1
    <3>1. new = shown
      BY <1>2, <2>1, TailFacts
    <3>2. \A later \in 1 .. Len(Tail(rs)) :
            ~Presentation!IsNews(Tail(rs)[later])
      BY <1>2, <2>1, TailFacts
    <3>3. QED
      BY <3>1, <3>2 DEF Presentation!Believing
  <2>2. CASE n # 1
    <3>1. n - 1 \in 1 .. Len(Tail(rs)) /\ Tail(rs)[n - 1] = rs[n]
      BY <2>2, TailFacts
    <3>2. \A later \in (n - 1) + 1 .. Len(Tail(rs)) :
            ~Presentation!IsNews(Tail(rs)[later])
      BY <1>2, TailFacts
    <3>3. QED
      BY <1>2, <3>1, <3>2 DEF Presentation!Believing
  <2>3. QED
    BY <2>1, <2>2
<1>3. QED
  BY <1>1, <1>2 DEF Presentation!Believing

LEMMA AskedAfter ==
  ASSUME NEW S, NEW rs \in Seq(S), NEW r \in S
  PROVE  /\ Asked(rs) \subseteq Asked(Append(rs, r))
         /\ r.type = "request" => r.op \in Asked(Append(rs, r))
BY AppendFacts DEF Asked

LEMMA AskedDelivered ==
  ASSUME NEW S, NEW rs \in Seq(S), rs # <<>>, NEW op \in Asked(rs)
  PROVE  \/ op \in Asked(Tail(rs))
         \/ Head(rs).type = "request" /\ op = Head(rs).op
<1>1. PICK n \in 1 .. Len(rs) : rs[n].type = "request" /\ rs[n].op = op
  BY DEF Asked
<1>2. CASE n = 1
  BY <1>1, <1>2, TailFacts
<1>3. CASE n # 1
  <2>1. n - 1 \in 1 .. Len(Tail(rs)) /\ Tail(rs)[n - 1] = rs[n]
    BY <1>3, TailFacts
  <2>2. QED
    BY <1>1, <2>1 DEF Asked
<1>4. QED
  BY <1>2, <1>3

\* daPostVisibilityState, while the port is open or not.
LEMMA PostsVisibility ==
  ASSUME PresentationTypeOK, NEW v \in {"yes", "no"},
         portOpen =>
           Presentation!Believing(visible, events, lastVisible = "yes")
  PROVE  LET new == events \o Presentation!VisibilityNews(v) IN
           /\ new \in Seq(PresentationRecord)
           /\ portOpen => Presentation!Believing(visible, new, v = "yes")
           /\ Asked(events) \subseteq Asked(new)
<1> USE DEF PresentationTypeOK
<1>1. CASE portOpen /\ lastVisible # v
  <2> DEFINE r == [type |-> "visibility", state |-> v]
  <2>1. r \in PresentationRecord /\ Presentation!IsNews(r)
        /\ (Presentation!ShowsWindow(r) <=> v = "yes")
    BY PresentationRecords
  <2>2. events \o Presentation!VisibilityNews(v) = events \o <<r>>
    BY <1>1
    DEF Presentation!VisibilityNews, Presentation!VisibilityRecord
  <2> HIDE DEF r
  <2>3. events \o Presentation!VisibilityNews(v) = Append(events, r)
    BY <2>1, <2>2, ConcatFacts
  <2>4. /\ Append(events, r) \in Seq(PresentationRecord)
        /\ Asked(events) \subseteq Asked(Append(events, r))
    BY <2>1, AppendFacts, AskedAfter
  <2>5. (v = "yes") \in BOOLEAN
    OBVIOUS
  <2>6. Presentation!Believing(visible, Append(events, r), v = "yes")
    BY <2>1, <2>5, BelievingAfter
  <2>7. QED
    BY <2>3, <2>4, <2>6
<1>2. CASE ~(portOpen /\ lastVisible # v)
  <2>1. events \o Presentation!VisibilityNews(v) = events
    BY <1>2 DEF Presentation!VisibilityNews
  <2>2. QED
    BY <1>2, <2>1
<1>3. QED
  BY <1>1, <1>2

\* A step that posts the visibility it brings about; an animation that still
\* counts afterwards counted before it.
LEMMA Presents ==
  ASSUME PresentationInv, registered, NEW v \in {"yes", "no"},
         Presentation!PostVisibility(v), onScreen' = (v = "yes"),
         animations' \subseteq animations,
         \/ UNCHANGED <<generation, wish>>
         \/ generation' = generation + 1,
         UNCHANGED <<registered, portOpen, visible, known, pending, nextOp>>
  PROVE  PresentationInv'
<1> USE DEF PresentationInv, PresentationTypeOK
<1>1. /\ events' = events \o Presentation!VisibilityNews(v)
      /\ lastVisible' = IF portOpen THEN v ELSE lastVisible
  BY DEF Presentation!PostVisibility
<1>2. /\ events' \in Seq(PresentationRecord)
      /\ portOpen => Presentation!Believing(visible, events', v = "yes")
      /\ Asked(events) \subseteq Asked(events')
  BY <1>1, PostsVisibility DEF BeliefOK
<1>3. PresentationTypeOK'
  BY <1>1, <1>2
<1>4. BeliefOK'
  BY <1>1, <1>2 DEF BeliefOK
<1>5. PostedOK'
  BY <1>1 DEF PostedOK
<1>6. AnimationsOK'
  BY DEF AnimationsOK, Presentation!Current
<1>7. ClosingOK'
  BY <1>2 DEF ClosingOK, Asked
<1>8. QED
  BY <1>3, <1>4, <1>5, <1>6, <1>7

\* A step that closes the window, at AppKit's hands or through the bridge.
LEMMA Closes ==
  ASSUME PresentationInv, registered, Presentation!CloseWindow,
         generation' \in {generation, generation + 1}, wish' = "closed",
         pending' = Presentation!NoOp \/ UNCHANGED <<pending, known>>,
         UNCHANGED <<registered, portOpen, visible, nextOp, animations>>
  PROVE  PresentationInv'
<1> USE DEF PresentationInv, PresentationTypeOK
<1> DEFINE rs == events \o Presentation!VisibilityNews("no")
           closing == [type |-> "closed"]
<1>1. /\ events' = rs \o (IF portOpen THEN <<closing>> ELSE <<>>)
      /\ lastVisible' = IF portOpen THEN "no" ELSE lastVisible
      /\ onScreen' = FALSE
  BY DEF Presentation!CloseWindow
<1>2. /\ rs \in Seq(PresentationRecord)
      /\ portOpen => Presentation!Believing(visible, rs, "no" = "yes")
      /\ Asked(events) \subseteq Asked(rs)
  BY PostsVisibility DEF BeliefOK
<1>3. /\ closing \in PresentationRecord /\ Presentation!IsNews(closing)
      /\ ~Presentation!ShowsWindow(closing)
  BY PresentationRecords
<1> HIDE DEF rs, closing
<1>4. /\ events' \in Seq(PresentationRecord)
      /\ portOpen => Presentation!Believing(visible, events', FALSE)
      /\ Asked(events) \subseteq Asked(events')
  <2>1. CASE portOpen
    <3>1. events' = Append(rs, closing)
      BY <1>1, <1>2, <1>3, <2>1, ConcatFacts
    <3>2. QED
      BY <1>2, <1>3, <3>1, AppendFacts, AskedAfter, BelievingAfter
  <2>2. CASE ~portOpen
    BY <1>1, <1>2, <1>3, <2>2, ConcatFacts
  <2>3. QED
    BY <2>1, <2>2
<1>5. PresentationTypeOK'
  <2>1. onScreen' \in BOOLEAN
    BY <1>1
  <2>2. QED
    BY <1>1, <1>4, <2>1
<1>6. BeliefOK'
  BY <1>1, <1>4 DEF BeliefOK
<1>7. PostedOK'
  BY <1>1 DEF PostedOK
<1>8. AnimationsOK'
  BY DEF AnimationsOK, Presentation!Current
<1>9. ClosingOK'
  BY <1>4 DEF ClosingOK, Asked
<1>10. QED
  BY <1>5, <1>6, <1>7, <1>8, <1>9

\* windowShouldClose refuses and asks Dart, once.
LEMMA Asks ==
  ASSUME PresentationInv, registered, Presentation!AskDart
  PROVE  PresentationInv'
<1> USE DEF PresentationInv, PresentationTypeOK
<1>1. /\ UNCHANGED <<onScreen, generation, animations, lastVisible, registered,
                     portOpen, visible, known, wish, cutShort>>
      /\ IF pending # Presentation!NoOp
         THEN UNCHANGED <<pending, nextOp, events>>
         ELSE /\ nextOp' = nextOp + 1 /\ pending' = nextOp
              /\ events' = Append(events, [type |-> "request", op |-> nextOp])
  BY DEF Presentation!AskDart, Presentation!nativeVars, Presentation!dartVars
<1>2. CASE pending # Presentation!NoOp
  BY <1>1, <1>2
  DEF BeliefOK, PostedOK, UnderWay, AnimationsOK, ClosingOK,
      Presentation!Current
<1>3. CASE pending = Presentation!NoOp
  <2> DEFINE r == [type |-> "request", op |-> nextOp]
  <2>1. /\ r \in PresentationRecord /\ ~Presentation!IsNews(r)
        /\ r.type = "request" /\ r.op = nextOp
    BY PresentationRecords
  <2>2. events' = Append(events, r)
    BY <1>1, <1>3
  <2> HIDE DEF r
  <2>3. events' \in Seq(PresentationRecord) /\ nextOp \in Asked(events')
    BY <2>1, <2>2, AppendFacts, AskedAfter
  <2>4. PresentationTypeOK'
    BY <1>1, <1>3, <2>3
  <2>5. BeliefOK'
    BY <1>1, <2>1, <2>2, BelievingAfter DEF BeliefOK
  <2>6. PostedOK' /\ AnimationsOK'
    BY <1>1 DEF PostedOK, UnderWay, AnimationsOK, Presentation!Current
  <2>7. ClosingOK'
    BY <1>1, <1>3, <2>3 DEF ClosingOK, Asked
  <2>8. QED
    BY <2>4, <2>5, <2>6, <2>7
<1>4. QED
  BY <1>2, <1>3

LEMMA PresentationStep ==
  ASSUME PresentationInv, [Presentation!Next]_pVars
  PROVE  PresentationInv'
<1> USE DEF PresentationInv, PresentationTypeOK
<1> USE DEF Presentation!closeVars, Presentation!dartVars,
            Presentation!nativeVars
<1>1. CASE Presentation!Show
  <2>1. "yes" \in {"yes", "no"}
    OBVIOUS
  <2>2. QED
    BY <1>1, <2>1, Presents DEF Presentation!Show, Presentation!MayPresent
<1>2. ASSUME NEW animated \in BOOLEAN, Presentation!Present(animated)
      PROVE  PresentationInv'
  <2>1. registered /\ generation' = generation + 1 /\ onScreen' = TRUE
        /\ wish' = "shown"
        /\ UNCHANGED <<registered, portOpen, visible, known, pending, nextOp>>
    BY <1>2 DEF Presentation!Present, Presentation!MayPresent
  <2>2. CASE animated
    <3> DEFINE a == [kind |-> "present", of |-> generation']
    <3>1. /\ animations' = animations \cup {a}
          /\ UNCHANGED <<events, lastVisible, cutShort>>
      BY <1>2, <2>2 DEF Presentation!Present
    <3>2. a \in animations' /\ a.of = generation'
      BY <3>1
    <3>3. UnderWay'
      BY <3>2 DEF UnderWay, Presentation!Current
    <3>4. AnimationsOK'
      BY <2>1, <3>1 DEF AnimationsOK, Presentation!Current
    <3>5. QED
      BY <2>1, <3>1, <3>3, <3>4 DEF BeliefOK, PostedOK, ClosingOK
  <2>3. CASE ~animated
    <3>1. Presentation!PostVisibility("yes") /\ UNCHANGED animations
      BY <1>2, <2>3 DEF Presentation!Present
    <3>2. QED
      BY <2>1, <3>1, Presents
  <2>4. QED
    BY <2>2, <2>3
<1>3. ASSUME NEW animated \in BOOLEAN, Presentation!Hide(animated)
      PROVE  PresentationInv'
  <2>1. registered /\ generation' = generation + 1 /\ wish' = "hidden"
        /\ UNCHANGED <<registered, portOpen, visible, known, pending, nextOp>>
    BY <1>3 DEF Presentation!Hide, Presentation!MayPresent
  <2>2. CASE animated
    <3> DEFINE a == [kind |-> "hide", of |-> generation']
    <3>1. /\ animations' = animations \cup {a}
          /\ UNCHANGED <<onScreen, events, lastVisible, cutShort>>
      BY <1>3, <2>2 DEF Presentation!Hide
    <3>2. a \in animations' /\ a.of = generation'
      BY <3>1
    <3>3. UnderWay'
      BY <3>2 DEF UnderWay, Presentation!Current
    <3>4. AnimationsOK'
      BY <2>1, <3>1 DEF AnimationsOK, Presentation!Current
    <3>5. QED
      BY <2>1, <3>1, <3>3, <3>4 DEF BeliefOK, PostedOK, ClosingOK
  <2>3. CASE ~animated
    <3>1. onScreen' = FALSE /\ Presentation!PostVisibility("no")
          /\ UNCHANGED animations
      BY <1>3, <2>3 DEF Presentation!Hide
    <3>2. QED
      BY <2>1, <3>1, Presents
  <2>4. QED
    BY <2>2, <2>3
<1>4. CASE Presentation!SetFrame
  <2>1. /\ generation' = generation + 1 /\ cutShort' = (cutShort \/ UnderWay)
        /\ UNCHANGED <<onScreen, animations, lastVisible, registered, pending,
                       nextOp, portOpen, events, visible, known, wish>>
    BY <1>4 DEF Presentation!SetFrame, UnderWay
  <2>2. AnimationsOK'
    BY <2>1 DEF AnimationsOK, Presentation!Current
  <2>3. PostedOK'
    BY <2>1 DEF PostedOK
  <2>4. QED
    BY <2>1, <2>2, <2>3 DEF BeliefOK, ClosingOK
<1>5. ASSUME NEW a \in animations, Presentation!AnimationCompletes(a)
      PROVE  PresentationInv'
  <2>1. /\ animations' = animations \ {a}
        /\ UNCHANGED <<generation, registered, pending, nextOp, portOpen,
                       visible, known, wish>>
    BY <1>5 DEF Presentation!AnimationCompletes
  <2>2. CASE Presentation!Current(a) /\ registered
    <3>1. onScreen' = (onScreen /\ a.kind # "hide")
          /\ Presentation!PostVisibility(Presentation!AsVisibility(onScreen'))
      BY <1>5, <2>2 DEF Presentation!AnimationCompletes
    <3> DEFINE v == Presentation!AsVisibility(onScreen')
    <3>2. v \in {"yes", "no"} /\ onScreen' = (v = "yes")
      BY <3>1 DEF Presentation!AsVisibility
    <3>3. Presentation!PostVisibility(v)
      BY <3>1
    <3> HIDE DEF v
    <3>4. QED
      BY <2>1, <2>2, <3>2, <3>3, Presents
  <2>3. CASE ~(Presentation!Current(a) /\ registered)
    <3>1. /\ onScreen' \in BOOLEAN
          /\ UNCHANGED <<events, lastVisible, cutShort>>
          /\ ~Presentation!Current(a) => onScreen' = onScreen
      BY <1>5, <2>3 DEF Presentation!AnimationCompletes
    <3>2. AnimationsOK'
      BY <2>1 DEF AnimationsOK, Presentation!Current
    <3>3. registered => (UnderWay' <=> UnderWay)
      BY <2>1, <2>3 DEF UnderWay, Presentation!Current
    <3>4. PostedOK'
      BY <2>1, <2>3, <3>1, <3>3 DEF PostedOK
    <3>5. QED
      BY <2>1, <3>1, <3>2, <3>4 DEF BeliefOK, ClosingOK
  <2>4. QED
    BY <2>2, <2>3
<1>6. CASE Presentation!Miniaturize
  <2>1. /\ registered /\ onScreen' = FALSE
        /\ Presentation!PostVisibility("no")
        /\ UNCHANGED <<generation, animations, wish, registered, portOpen,
                       visible, known, pending, nextOp>>
    BY <1>6 DEF Presentation!Miniaturize
  <2>2. QED
    BY <2>1, Presents
<1>7. CASE Presentation!Deminiaturize
  <2>1. /\ registered /\ onScreen' = TRUE
        /\ Presentation!PostVisibility("yes")
        /\ UNCHANGED <<generation, animations, wish, registered, portOpen,
                       visible, known, pending, nextOp>>
    BY <1>7 DEF Presentation!Deminiaturize
  <2>2. QED
    BY <2>1, Presents
<1>8. CASE Presentation!UserClose
  BY <1>8, Asks, Closes DEF Presentation!UserClose
<1>9. ASSUME registered, Presentation!CloseProgrammatically
      PROVE  PresentationInv'
  BY <1>9, Closes DEF Presentation!CloseProgrammatically
<1>10. CASE Presentation!Close
  BY <1>9, <1>10 DEF Presentation!Close, Presentation!MayPresent
<1>11. CASE Presentation!RequestClose
  BY <1>9, <1>11, Asks DEF Presentation!RequestClose, Presentation!MayPresent
<1>12. ASSUME NEW enabled \in BOOLEAN, Presentation!SetDeferral(enabled)
       PROVE  PresentationInv'
  BY <1>12
  DEF Presentation!SetDeferral, BeliefOK, PostedOK, UnderWay, AnimationsOK,
      ClosingOK, Asked, Presentation!Current
<1>13. ASSUME NEW op \in known, NEW allow \in BOOLEAN,
              Presentation!Reply(op, allow)
       PROVE  PresentationInv'
  <2>1. registered /\ known' = known \ {op}
    BY <1>13 DEF Presentation!Reply, Presentation!MayPresent
  <2>2. CASE op = pending /\ allow
    BY <1>9, <1>13, <2>1, <2>2 DEF Presentation!Reply
  <2>3. CASE ~(op = pending /\ allow)
    <3>1. /\ pending' = IF op = pending THEN Presentation!NoOp ELSE pending
          /\ UNCHANGED <<onScreen, generation, animations, lastVisible,
                         registered, nextOp, portOpen, events, visible, wish,
                         cutShort>>
      BY <1>13, <2>3 DEF Presentation!Reply
    <3>2. ClosingOK'
      BY <2>1, <3>1 DEF ClosingOK, Asked
    <3>3. QED
      BY <3>1, <3>2
      DEF BeliefOK, PostedOK, UnderWay, AnimationsOK, Presentation!Current
  <2>4. QED
    BY <2>2, <2>3
<1>14. CASE Presentation!Deliver
  <2> DEFINE e == Head(events)
  <2>1. /\ events # <<>> /\ events' = Tail(events)
        /\ UNCHANGED <<onScreen, generation, animations, lastVisible,
                       registered, pending, nextOp, portOpen, wish, cutShort>>
    BY <1>14 DEF Presentation!Deliver
  <2>2. events' \in Seq(PresentationRecord) /\ e \in PresentationRecord
    BY <2>1, TailFacts
  <2>3. \/ e \in [type : {"visibility"}, state : {"yes", "no"}]
        \/ e \in [type : {"closed"}] \/ e \in [type : {"request"}, op : Nat]
    BY <2>2 DEF PresentationRecord
  <2>4. /\ visible' = IF registered /\ Presentation!IsNews(e)
                      THEN Presentation!ShowsWindow(e) ELSE visible
        /\ known' = IF registered /\ e.type = "request"
                    THEN known \cup {e.op} ELSE known
    <3>1. CASE ~registered
      BY <1>14, <3>1 DEF Presentation!Deliver
    <3>2. CASE registered /\ e.type = "visibility"
      BY <1>14, <3>2
      DEF Presentation!Deliver, Presentation!IsNews, Presentation!ShowsWindow
    <3>3. CASE registered /\ e.type = "closed"
      BY <1>14, <3>3
      DEF Presentation!Deliver, Presentation!IsNews, Presentation!ShowsWindow
    <3>4. CASE registered /\ e.type = "request"
      BY <1>14, <3>4
      DEF Presentation!Deliver, Presentation!IsNews, Presentation!ShowsWindow
    <3>5. QED
      BY <2>3, <3>1, <3>2, <3>3, <3>4
  <2> HIDE DEF e
  <2>5. PresentationTypeOK'
    BY <2>1, <2>2, <2>4 DEF Presentation!ShowsWindow
  <2>6. BeliefOK'
    BY <2>1, <2>4, BelievingDelivered DEF BeliefOK, e
  <2>7. PostedOK' /\ AnimationsOK'
    BY <2>1 DEF PostedOK, UnderWay, AnimationsOK, Presentation!Current
  <2>8. ClosingOK'
    BY <2>1, <2>4, AskedDelivered DEF ClosingOK, e
  <2>9. QED
    BY <2>5, <2>6, <2>7, <2>8
<1>15. CASE Presentation!Release
  <2>1. /\ registered' = FALSE /\ pending' = Presentation!NoOp
        /\ generation' = generation + 2 /\ onScreen' = FALSE
        /\ UNCHANGED <<animations, lastVisible, nextOp, portOpen, events,
                       visible, known, cutShort>>
    BY <1>15 DEF Presentation!Release
  <2>2. AnimationsOK'
    BY <2>1 DEF AnimationsOK, Presentation!Current
  <2>3. onScreen' \in BOOLEAN
    BY <2>1
  <2>4. PresentationTypeOK'
    BY <2>1, <2>3
  <2>5. QED
    BY <2>1, <2>2, <2>4 DEF BeliefOK, PostedOK, ClosingOK
<1>16. CASE Presentation!ClosePort
  <2>1. /\ portOpen' = FALSE /\ events' = <<>>
        /\ UNCHANGED <<onScreen, generation, animations, lastVisible,
                       registered, pending, nextOp, visible, known, wish,
                       cutShort>>
    BY <1>16 DEF Presentation!ClosePort
  <2>2. events' \in Seq(PresentationRecord)
    BY <2>1
  <2>3. PresentationTypeOK'
    BY <2>1, <2>2
  <2>4. AnimationsOK'
    BY <2>1 DEF AnimationsOK, Presentation!Current
  <2>5. QED
    BY <2>1, <2>3, <2>4 DEF BeliefOK, PostedOK, ClosingOK
<1>17. CASE UNCHANGED pVars
  BY <1>17
  DEF pVars, BeliefOK, PostedOK, UnderWay, AnimationsOK, ClosingOK, Asked,
      Presentation!Current
<1>18. QED
  BY <1>1, <1>2, <1>3, <1>4, <1>5, <1>6, <1>7, <1>8, <1>10, <1>11, <1>12,
     <1>13, <1>14, <1>15, <1>16, <1>17
  DEF Presentation!Next

-----------------------------------------------------------------------------
(* Secure Event Input.                                                       *)

LeaseTypeOK ==
  /\ lease \in [exists : BOOLEAN, desired : BOOLEAN, owned : BOOLEAN,
                last : {"ok", "failed"}]
  /\ active \in BOOLEAN
  /\ notice \in BOOLEAN
  /\ held \in Nat
  /\ stranded \in Nat

\* Without an owner nothing is owned: that is what its creation relies on.
LeaseInv ==
  /\ LeaseTypeOK
  /\ ~lease.exists => lease = NoLease
  /\ LeaseFollowsRequest

\* Whatever Carbon answers, the reference it counts is the one the owner
\* records afterwards, and a successful answer leaves owner and request agreed.
LEMMA ApplyKeepsLease ==
  ASSUME LeaseInv, lease.exists, NEW desired \in BOOLEAN,
         ApplyForActivity(desired), UNCHANGED <<active, stranded>>,
         notice' \in BOOLEAN
  PROVE  LeaseInv'
<1> DEFINE wanted == desired /\ active
<1>1. /\ lease \in [exists : BOOLEAN, desired : BOOLEAN, owned : BOOLEAN,
                    last : {"ok", "failed"}]
      /\ wanted \in BOOLEAN
      /\ held \in Nat /\ stranded \in Nat
      /\ active' = active /\ stranded' = stranded
      /\ held = (IF lease.owned THEN 1 ELSE 0) + stranded
  BY DEF LeaseInv, LeaseTypeOK, LeaseFollowsRequest
<1>2. CASE /\ wanted = lease.owned
           /\ lease' = [lease EXCEPT !.desired = desired, !.last = "ok"]
           /\ UNCHANGED held
  <2>1. /\ lease' \in [exists : BOOLEAN, desired : BOOLEAN, owned : BOOLEAN,
                       last : {"ok", "failed"}]
        /\ lease'.exists /\ lease'.desired = desired
        /\ lease'.owned = lease.owned
    BY <1>1, <1>2
  <2>2. QED
    BY <1>1, <1>2, <2>1 DEF LeaseInv, LeaseTypeOK, LeaseFollowsRequest
<1>3. CASE /\ lease' = [lease EXCEPT !.desired = desired, !.last = "failed"]
           /\ UNCHANGED held
  <2>1. /\ lease' \in [exists : BOOLEAN, desired : BOOLEAN, owned : BOOLEAN,
                       last : {"ok", "failed"}]
        /\ lease'.exists /\ lease'.last = "failed"
        /\ lease'.owned = lease.owned
    BY <1>1, <1>3
  <2>2. QED
    BY <1>1, <1>3, <2>1 DEF LeaseInv, LeaseTypeOK, LeaseFollowsRequest
<1>4. CASE /\ wanted # lease.owned
           /\ lease' = [lease EXCEPT !.desired = desired, !.last = "ok",
                                     !.owned = wanted]
           /\ Refer(wanted)
  <2>1. /\ lease' \in [exists : BOOLEAN, desired : BOOLEAN, owned : BOOLEAN,
                       last : {"ok", "failed"}]
        /\ lease'.exists /\ lease'.desired = desired
        /\ lease'.owned = wanted
    BY <1>1, <1>4
  <2>2. held' \in Nat /\ held' = (IF wanted THEN 1 ELSE 0) + stranded
    <3>1. CASE wanted
      BY <1>1, <1>4, <3>1 DEF Refer
    <3>2. CASE ~wanted
      BY <1>1, <1>4, <3>2 DEF Refer
    <3>3. QED
      BY <3>1, <3>2
  <2>3. QED
    BY <1>1, <2>1, <2>2 DEF LeaseInv, LeaseTypeOK, LeaseFollowsRequest
<1>5. QED
  BY <1>2, <1>3, <1>4 DEF ApplyForActivity

LEMMA LeaseInitially == GrantsInit => LeaseInv
<1> SUFFICES ASSUME GrantsInit PROVE LeaseInv
  OBVIOUS
<1>1. /\ NoLease \in [exists : BOOLEAN, desired : BOOLEAN, owned : BOOLEAN,
                       last : {"ok", "failed"}]
      /\ NoLease.exists = FALSE /\ NoLease.owned = FALSE
  BY DEF NoLease
<1>2. /\ lease = NoLease /\ active \in BOOLEAN /\ notice = FALSE
      /\ held = 0 /\ stranded = 0
  BY DEF GrantsInit
<1>3. LeaseTypeOK
  BY <1>1, <1>2 DEF LeaseTypeOK
<1>4. held = (IF lease.owned THEN 1 ELSE 0) + stranded
  BY <1>1, <1>2
<1>5. lease.exists = FALSE
  BY <1>1, <1>2
<1>6. QED
  BY <1>2, <1>3, <1>4, <1>5 DEF LeaseInv, LeaseFollowsRequest

LEMMA LeaseStep == LeaseInv /\ [GrantsNext]_grantsVars => LeaseInv'
<1> SUFFICES ASSUME LeaseInv, [GrantsNext]_grantsVars
             PROVE  LeaseInv'
  OBVIOUS
<1> USE DEF LeaseInv
<1>1. ASSUME UNCHANGED leaseVars
      PROVE  LeaseInv'
  BY <1>1 DEF leaseVars, LeaseTypeOK, LeaseFollowsRequest
<1>2. CASE CreateLease
  BY <1>2 DEF CreateLease, LeaseTypeOK, LeaseFollowsRequest, NewLease, NoLease
<1>3. ASSUME NEW desired \in BOOLEAN, SetDesired(desired)
      PROVE  LeaseInv'
  BY <1>3, ApplyKeepsLease DEF SetDesired, LeaseTypeOK
<1>4. CASE ActivationChanges
  BY <1>4 DEF ActivationChanges, LeaseTypeOK, LeaseFollowsRequest
<1>5. CASE ActivationNoticed
  <2>1. CASE lease.exists
    <3>1. lease.desired \in BOOLEAN
      BY DEF LeaseTypeOK
    <3>2. /\ ApplyForActivity(lease.desired)
          /\ UNCHANGED <<active, stranded>>
          /\ notice' \in BOOLEAN
      BY <1>5, <2>1 DEF ActivationNoticed
    <3>3. QED
      BY <2>1, <3>1, <3>2, ApplyKeepsLease
  <2>2. CASE ~lease.exists
    BY <1>5, <2>2 DEF ActivationNoticed, LeaseTypeOK, LeaseFollowsRequest,
                      NoLease
  <2>3. QED
    BY <2>1, <2>2
<1>6. CASE ReleaseLease
  <2>1. /\ lease' = NoLease /\ active' = active /\ notice' = notice
        /\ NoLease \in [exists : BOOLEAN, desired : BOOLEAN, owned : BOOLEAN,
                         last : {"ok", "failed"}]
        /\ NoLease.exists = FALSE /\ NoLease.owned = FALSE
    BY <1>6 DEF ReleaseLease, NoLease
  <2>2. /\ lease.owned \in BOOLEAN /\ held \in Nat /\ stranded \in Nat
        /\ held = (IF lease.owned THEN 1 ELSE 0) + stranded
    BY DEF LeaseTypeOK, LeaseFollowsRequest
  <2>3. held' \in Nat /\ stranded' \in Nat /\ held' = stranded'
    <3>1. CASE lease.owned = FALSE
      <4>1. held = stranded
        BY <2>2, <3>1
      <4>2. held' = held /\ stranded' = stranded
        BY <1>6, <3>1 DEF ReleaseLease
      <4>3. QED
        BY <2>2, <4>1, <4>2
    <3>2. CASE lease.owned = TRUE
      <4>1. held = 1 + stranded
        BY <2>2, <3>2
      <4>2. \/ held' = held - 1 /\ stranded' = stranded
            \/ held' = held /\ stranded' = stranded + 1
        BY <1>6, <3>2 DEF ReleaseLease, Refer
      <4>3. QED
        BY <2>2, <4>1, <4>2
    <3>3. QED
      BY <2>2, <3>1, <3>2
  <2>4. LeaseTypeOK'
    BY <2>1, <2>3 DEF LeaseTypeOK
  <2>5. lease'.exists = FALSE /\ lease'.owned = FALSE
    BY <2>1
  <2>6. held' = (IF lease'.owned THEN 1 ELSE 0) + stranded'
    <3>1. (IF lease'.owned THEN 1 ELSE 0) = 0
      BY <2>5
    <3>2. \A n \in Nat : n = 0 + n
      OBVIOUS
    <3>3. QED
      BY <2>3, <3>1, <3>2
  <2>7. QED
    BY <2>1, <2>4, <2>5, <2>6 DEF LeaseFollowsRequest
<1>7. CASE UNCHANGED grantsVars
  BY <1>1, <1>7 DEF grantsVars
<1>8. QED
  BY <1>1, <1>2, <1>3, <1>4, <1>5, <1>6, <1>7
  DEF GrantsNext, RegistrationFails, RegisterKey, ReleaseKey, UserPresses,
      DispatchPress

-----------------------------------------------------------------------------
(* Global hot keys.                                                          *)

HotKey == [identifier : Nat, chord : Chord]

KeyTypeOK ==
  /\ handler \in BOOLEAN
  /\ nextIdentifier \in Nat
  /\ nextHandle \in Nat
  /\ \A h \in DOMAIN keys : keys[h] \in HotKey
  /\ presses \in Seq(HotKey)

\* Identifiers and handles that were given out are not given out again.
KeysAreOld ==
  /\ \A i \in DOMAIN handles : i \in Nat /\ i < nextIdentifier
  /\ \A h \in DOMAIN keys : h \in Nat /\ h < nextHandle

\* The identifier map and the owners are each other's inverse.
KeysArePaired ==
  /\ \A h \in DOMAIN keys : /\ keys[h].identifier \in DOMAIN handles
                            /\ handles[keys[h].identifier] = h
  /\ \A i \in DOMAIN handles : /\ handles[i] \in DOMAIN keys
                               /\ keys[handles[i]].identifier = i

\* A press that is dispatched late finds the key it was made for, or none.
PressesFindTheirKey ==
  \A n \in 1 .. Len(presses) :
    /\ presses[n].identifier < nextIdentifier
    /\ presses[n].identifier \in DOMAIN handles =>
         presses[n] = keys[handles[presses[n].identifier]]

KeyInv ==
  /\ KeyTypeOK
  /\ KeysAreOld
  /\ KeysArePaired
  /\ carbon = {keys[h] : h \in DOMAIN keys}
  /\ handler <=> DOMAIN handles # {}
  /\ PressesFindTheirKey
  /\ report.bound = report.pressed

LEMMA PressesAreTyped ==
  ASSUME KeyInv, NEW n \in 1 .. Len(presses)
  PROVE  presses[n].identifier \in Nat
<1>1. presses[n] \in HotKey
  BY DEF KeyInv, KeyTypeOK
<1>2. QED
  BY <1>1 DEF HotKey

LEMMA KeyInvIsExact == KeyInv => HotKeysAreExact
<1> SUFFICES ASSUME KeyInv PROVE HotKeysAreExact
  OBVIOUS
<1> USE DEF KeyInv, KeysArePaired
<1>1. {k.identifier : k \in carbon} = DOMAIN handles
  <2>1. ASSUME NEW k \in carbon
        PROVE  k.identifier \in DOMAIN handles
    <3>1. PICK h \in DOMAIN keys : k = keys[h]
      OBVIOUS
    <3>2. QED
      BY <3>1
  <2>2. ASSUME NEW i \in DOMAIN handles
        PROVE  \E k \in carbon : i = k.identifier
    <3>1. handles[i] \in DOMAIN keys /\ keys[handles[i]].identifier = i
      OBVIOUS
    <3>2. keys[handles[i]] \in carbon
      BY <3>1
    <3>3. QED
      BY <3>1, <3>2
  <2> HIDE DEF KeyInv, KeysArePaired
  <2>3. QED
    BY <2>1, <2>2
<1>2. \A h \in DOMAIN keys : keys[h] \in carbon
  OBVIOUS
<1>3. {handles[i] : i \in DOMAIN handles} = DOMAIN keys
  OBVIOUS
<1>4. DOMAIN handles # {} <=> DOMAIN keys # {}
  OBVIOUS
<1>5. /\ handler <=> DOMAIN handles # {}
      /\ report.bound = report.pressed
      /\ \A h \in DOMAIN keys : handles[keys[h].identifier] = h
  OBVIOUS
<1> HIDE DEF KeyInv, KeysArePaired
<1>6. QED
  BY <1>1, <1>2, <1>3, <1>4, <1>5 DEF HotKeysAreExact

LEMMA KeysInitially == GrantsInit => KeyInv
<1> SUFFICES ASSUME GrantsInit PROVE KeyInv
  OBVIOUS
<1>1. DOMAIN handles = {} /\ DOMAIN keys = {} /\ Len(presses) = 0
  BY DEF GrantsInit
<1>2. KeyTypeOK
  <2>1. presses \in Seq(HotKey)
    <3>1. presses = <<>>
      BY DEF GrantsInit
    <3>2. QED
      BY <3>1
  <2>2. handler \in BOOLEAN /\ nextIdentifier \in Nat /\ nextHandle \in Nat
    BY DEF GrantsInit
  <2>3. QED
    BY <1>1, <2>1, <2>2 DEF KeyTypeOK
<1>3. KeysAreOld /\ KeysArePaired
  BY <1>1 DEF KeysAreOld, KeysArePaired
<1>4. PressesFindTheirKey
  BY <1>1 DEF PressesFindTheirKey
<1>5. carbon = {keys[h] : h \in DOMAIN keys}
  BY <1>1 DEF GrantsInit
<1>6. handler <=> DOMAIN handles # {}
  BY <1>1 DEF GrantsInit
<1>7. report.bound = report.pressed
  BY DEF GrantsInit, NoReport
<1>8. QED
  BY <1>2, <1>3, <1>4, <1>5, <1>6, <1>7 DEF KeyInv

LEMMA RegisterKeepsKeys ==
  ASSUME KeyInv, NEW chord \in Chord, RegisterKey(chord)
  PROVE  KeyInv'
<1> DEFINE key == [identifier |-> nextIdentifier, chord |-> chord]
<1>1. /\ handles' = With(handles, nextIdentifier, nextHandle)
      /\ keys' = With(keys, nextHandle, key)
      /\ nextIdentifier' = nextIdentifier + 1
      /\ nextHandle' = nextHandle + 1
      /\ carbon' = carbon \cup {key}
      /\ handler' = TRUE
      /\ presses' = presses /\ report' = report
  BY DEF RegisterKey
<1>2. /\ nextIdentifier \in Nat /\ nextIdentifier \notin DOMAIN handles
      /\ nextHandle \in Nat /\ nextHandle \notin DOMAIN keys
  BY DEF KeyInv, KeyTypeOK, KeysAreOld
<1>3. /\ DOMAIN handles' = DOMAIN handles \cup {nextIdentifier}
      /\ handles'[nextIdentifier] = nextHandle
      /\ \A i \in DOMAIN handles : handles'[i] = handles[i]
  BY <1>1, <1>2 DEF With
<1>4. /\ DOMAIN keys' = DOMAIN keys \cup {nextHandle}
      /\ keys'[nextHandle] = key
      /\ \A h \in DOMAIN keys : keys'[h] = keys[h]
  BY <1>1, <1>2 DEF With
<1> HIDE DEF key
<1>5. key \in HotKey /\ key.identifier = nextIdentifier
  BY <1>2 DEF key, HotKey
<1>6. KeyTypeOK'
  BY <1>1, <1>2, <1>4, <1>5 DEF KeyInv, KeyTypeOK
<1>7. KeysAreOld'
  BY <1>1, <1>2, <1>3, <1>4 DEF KeyInv, KeysAreOld
<1>8. KeysArePaired'
  BY <1>2, <1>3, <1>4, <1>5 DEF KeyInv, KeysArePaired
<1>9. carbon' = {keys'[h] : h \in DOMAIN keys'}
  BY <1>1, <1>4 DEF KeyInv
<1>10. PressesFindTheirKey'
  <2> SUFFICES ASSUME NEW n \in 1 .. Len(presses)
               PROVE  /\ presses[n].identifier < nextIdentifier'
                      /\ presses[n].identifier \in DOMAIN handles' =>
                           presses[n] =
                             keys'[handles'[presses[n].identifier]]
    BY <1>1 DEF PressesFindTheirKey
  <2>1. /\ presses[n].identifier \in Nat
        /\ presses[n].identifier < nextIdentifier
        /\ presses[n].identifier \in DOMAIN handles =>
             presses[n] = keys[handles[presses[n].identifier]]
    BY PressesAreTyped DEF KeyInv, PressesFindTheirKey
  <2>2. \A i \in DOMAIN handles : handles[i] \in DOMAIN keys
    BY DEF KeyInv, KeysArePaired
  <2>3. QED
    BY <1>1, <1>2, <1>3, <1>4, <2>1, <2>2
<1>11. QED
  BY <1>1, <1>3, <1>6, <1>7, <1>8, <1>9, <1>10 DEF KeyInv

LEMMA ReleaseKeepsKeys ==
  ASSUME KeyInv, NEW h \in DOMAIN keys, ReleaseKey(h)
  PROVE  KeyInv'
<1> DEFINE i == keys[h].identifier
<1>1. /\ handles' = Without(handles, i)
      /\ keys' = Without(keys, h)
      /\ carbon' = {k \in carbon : k.identifier # i}
      /\ handler' = (DOMAIN handles' # {})
      /\ UNCHANGED <<nextIdentifier, nextHandle, presses, report>>
  BY DEF ReleaseKey, HandlerFor
<1>2. i \in DOMAIN handles /\ handles[i] = h
  BY DEF KeyInv, KeysArePaired
<1>3. /\ DOMAIN handles' = DOMAIN handles \ {i}
      /\ \A j \in DOMAIN handles' : handles'[j] = handles[j]
  BY <1>1 DEF Without, Restrict
<1>4. /\ DOMAIN keys' = DOMAIN keys \ {h}
      /\ \A g \in DOMAIN keys' : keys'[g] = keys[g]
  BY <1>1 DEF Without, Restrict
<1>5. \A g \in DOMAIN keys : g # h <=> keys[g].identifier # i
  BY DEF KeyInv, KeysArePaired
<1> HIDE DEF i
<1>6. KeyTypeOK'
  BY <1>1, <1>4 DEF KeyInv, KeyTypeOK
<1>7. KeysAreOld'
  BY <1>1, <1>3, <1>4 DEF KeyInv, KeysAreOld
<1>8. KeysArePaired'
  BY <1>2, <1>3, <1>4, <1>5 DEF KeyInv, KeysArePaired
<1>9. carbon' = {keys'[g] : g \in DOMAIN keys'}
  BY <1>1, <1>4, <1>5 DEF KeyInv
<1>10. PressesFindTheirKey'
  BY <1>1, <1>2, <1>3, <1>4, <1>8
  DEF KeyInv, PressesFindTheirKey, KeysArePaired
<1>11. QED
  BY <1>1, <1>6, <1>7, <1>8, <1>9, <1>10 DEF KeyInv

LEMMA PressKeepsKeys ==
  ASSUME KeyInv, NEW key \in carbon, UserPresses(key)
  PROVE  KeyInv'
<1>1. /\ presses' = Append(presses, key)
      /\ UNCHANGED <<handler, handles, nextIdentifier, keys, nextHandle,
                     carbon, report>>
  BY DEF UserPresses
<1>2. /\ key \in HotKey /\ presses \in Seq(HotKey)
      /\ key.identifier \in DOMAIN handles
      /\ key.identifier < nextIdentifier
      /\ key = keys[handles[key.identifier]]
  BY DEF KeyInv, KeyTypeOK, KeysAreOld, KeysArePaired
<1>3. /\ Len(presses') = Len(presses) + 1
      /\ presses'[Len(presses) + 1] = key
      /\ \A n \in 1 .. Len(presses) : presses'[n] = presses[n]
      /\ presses' \in Seq(HotKey) /\ Len(presses) \in Nat
  BY <1>1, <1>2
<1>4. PressesFindTheirKey'
  BY <1>1, <1>2, <1>3 DEF KeyInv, PressesFindTheirKey
<1>5. QED
  BY <1>1, <1>3, <1>4
  DEF KeyInv, KeyTypeOK, KeysAreOld, KeysArePaired

LEMMA DispatchKeepsKeys ==
  ASSUME KeyInv, DispatchPress
  PROVE  KeyInv'
<1>1. /\ presses # <<>> /\ presses' = Tail(presses)
      /\ UNCHANGED <<handler, handles, nextIdentifier, keys, nextHandle,
                     carbon>>
  BY DEF DispatchPress
<1>2. presses \in Seq(HotKey) /\ Len(presses) \in Nat /\ Len(presses) >= 1
  BY <1>1 DEF KeyInv, KeyTypeOK
<1>3. /\ Len(presses') = Len(presses) - 1
      /\ \A n \in 1 .. Len(presses') : presses'[n] = presses[n + 1]
      /\ presses' \in Seq(HotKey)
      /\ Head(presses) = presses[1]
  BY <1>1, <1>2
<1>4. PressesFindTheirKey'
  BY <1>1, <1>2, <1>3 DEF KeyInv, PressesFindTheirKey
<1>5. report'.bound = report'.pressed
  <2>1. CASE handler /\ Head(presses).identifier \in DOMAIN handles
    <3>1. /\ handles[Head(presses).identifier] \in DOMAIN keys
          /\ Head(presses) = keys[handles[Head(presses).identifier]]
      BY <1>2, <1>3, <2>1 DEF KeyInv, PressesFindTheirKey, KeysArePaired
    <3>2. QED
      BY <2>1, <3>1 DEF DispatchPress, ChordOf
  <2>2. CASE ~(handler /\ Head(presses).identifier \in DOMAIN handles)
    BY <2>2 DEF DispatchPress, NoReport
  <2>3. QED
    BY <2>1, <2>2
<1>6. QED
  BY <1>1, <1>3, <1>4, <1>5
  DEF KeyInv, KeyTypeOK, KeysAreOld, KeysArePaired

LEMMA KeyStep == KeyInv /\ [GrantsNext]_grantsVars => KeyInv'
<1> SUFFICES ASSUME KeyInv, [GrantsNext]_grantsVars
             PROVE  KeyInv'
  OBVIOUS
<1>1. ASSUME UNCHANGED keyVars
      PROVE  KeyInv'
  BY <1>1 DEF keyVars, KeyInv, KeyTypeOK, KeysAreOld, KeysArePaired,
              PressesFindTheirKey
<1>2. CASE RegistrationFails
  <2>1. /\ UNCHANGED <<handles, keys, nextHandle, carbon, presses, report>>
        /\ nextIdentifier' \in {nextIdentifier, nextIdentifier + 1}
        /\ handler' = handler
    BY <1>2 DEF RegistrationFails, HandlerFor, KeyInv, KeyTypeOK
  <2>2. nextIdentifier \in Nat
    BY DEF KeyInv, KeyTypeOK
  <2>3. KeysAreOld'
    BY <2>1, <2>2 DEF KeyInv, KeysAreOld
  <2>4. PressesFindTheirKey'
    BY <2>1, <2>2, PressesAreTyped DEF KeyInv, PressesFindTheirKey
  <2>5. QED
    BY <2>1, <2>2, <2>3, <2>4 DEF KeyInv, KeyTypeOK, KeysArePaired
<1>3. QED
  BY <1>1, <1>2, RegisterKeepsKeys, ReleaseKeepsKeys, PressKeepsKeys,
     DispatchKeepsKeys
  DEF GrantsNext, grantsVars, CreateLease, SetDesired, ActivationChanges,
      ActivationNoticed, ReleaseLease

-----------------------------------------------------------------------------
(* The event records.                                                        *)

\* The encoder's table and the decoder's, written down apart, agree on the
\* version that introduced a type.
LEMMA VersionsAgree ==
  ASSUME NEW type \in Sessions!EventType
  PROVE  /\ Sessions!Since(type) \in Sessions!Version
         /\ Sessions!RequiresVersion(type) = Sessions!Since(type)
         /\ type \in Sessions!ApplicationScoped \cup Sessions!ReplyRequired
              => Sessions!Since(type) >= 4
BY
DEF Sessions!EventType, Sessions!Since, Sessions!RequiresVersion,
    Sessions!Version, Sessions!MinVersion, Sessions!CurrentVersion,
    Sessions!ApplicationScoped, Sessions!ReplyRequired

LEMMA EnvelopesAreAccepted ==
  ASSUME NEW type \in Sessions!EventType, NEW version,
         Sessions!Supported(type, version)
  PROVE  Sessions!AcceptsEnvelope(Sessions!Envelope(version, type))
<1>1. /\ version \in Sessions!Version /\ version \in Int
      /\ version >= Sessions!Since(type) /\ Sessions!Since(type) \in Int
      /\ Sessions!RequiresVersion(type) = Sessions!Since(type)
      /\ type \in Sessions!ApplicationScoped \cup Sessions!ReplyRequired
           => Sessions!Since(type) >= 4
  BY VersionsAgree
  DEF Sessions!Supported, Sessions!Version, Sessions!MinVersion,
      Sessions!CurrentVersion
<1>2. /\ Sessions!IsApplicationScoped(type)
           <=> type \in Sessions!ApplicationScoped
      /\ Sessions!RequiresReply(type) <=> type \in Sessions!ReplyRequired
  BY
  DEF Sessions!IsApplicationScoped, Sessions!ApplicationScoped,
      Sessions!RequiresReply, Sessions!ReplyRequired
<1>3. QED
  BY <1>1, <1>2
  DEF Sessions!AcceptsEnvelope, Sessions!Envelope, Sessions!MinVersion

LEMMA SameConcatenation ==
  ASSUME NEW S, NEW s \in Seq(S), NEW t \in Seq(S), NEW u \in Seq(S),
         Len(u) = Len(s) + Len(t),
         \A k \in 1 .. Len(u) :
           u[k] = IF k <= Len(s) THEN s[k] ELSE t[k - Len(s)]
  PROVE  s \o t = u
BY ConcatProperties, SeqEqual

LEMMA PayloadShapes ==
  /\ 0 .. 1 = {0, 1} /\ 0 .. 2 = {0, 1, 2}
  /\ \A b : Sessions!Times(3, b) = <<b, b, b>>
  /\ \A a, b, z : <<a, b>> \o Sessions!Times(8, z)
                    = <<a, b, z, z, z, z, z, z, z, z>>
  /\ \A f, b, i, j, c, k : Sessions!Times(4, f) \o <<b, i, j, c, k>>
                              = <<f, f, f, f, b, i, j, c, k>>
<1>1. 0 .. 1 = {0, 1} /\ 0 .. 2 = {0, 1, 2}
  OBVIOUS
<1>2. \A b : Sessions!Times(3, b) = <<b, b, b>>
  BY DEF Sessions!Times
<1>3. ASSUME NEW a, NEW b, NEW z
      PROVE  <<a, b>> \o Sessions!Times(8, z)
               = <<a, b, z, z, z, z, z, z, z, z>>
  <2> DEFINE S == {a, b, z}
             s == <<a, b>>
             t == <<z, z, z, z, z, z, z, z>>
             u == <<a, b, z, z, z, z, z, z, z, z>>
  <2>1. Sessions!Times(8, z) = t
    BY DEF Sessions!Times
  <2>2. s \in Seq(S) /\ t \in Seq(S) /\ Len(s) = 2 /\ Len(t) = 8
    OBVIOUS
  <2>3. /\ u \in Seq(S) /\ Len(u) = 10
        /\ \A k \in 1 .. 10 : u[k] = IF k <= 2 THEN s[k] ELSE t[k - 2]
    OBVIOUS
  <2> HIDE DEF S, s, t, u
  <2>4. /\ Len(u) = Len(s) + Len(t)
        /\ \A k \in 1 .. Len(u) :
             u[k] = IF k <= Len(s) THEN s[k] ELSE t[k - Len(s)]
    BY <2>2, <2>3
  <2>5. s \o t = u
    BY <2>2, <2>3, <2>4, SameConcatenation, Zenon
  <2>6. QED
    BY <2>1, <2>5 DEF s, u
<1>4. ASSUME NEW f, NEW b, NEW i, NEW j, NEW c, NEW m
      PROVE  Sessions!Times(4, f) \o <<b, i, j, c, m>>
               = <<f, f, f, f, b, i, j, c, m>>
  <2> DEFINE S == {f, b, i, j, c, m}
             s == <<f, f, f, f>>
             t == <<b, i, j, c, m>>
             u == <<f, f, f, f, b, i, j, c, m>>
  <2>1. Sessions!Times(4, f) = s
    BY DEF Sessions!Times
  <2>2. s \in Seq(S) /\ t \in Seq(S) /\ Len(s) = 4 /\ Len(t) = 5
    OBVIOUS
  <2>3. /\ u \in Seq(S) /\ Len(u) = 9
        /\ \A k \in 1 .. 9 : u[k] = IF k <= 4 THEN s[k] ELSE t[k - 4]
    OBVIOUS
  <2> HIDE DEF S, s, t, u
  <2>4. /\ Len(u) = Len(s) + Len(t)
        /\ \A k \in 1 .. Len(u) :
             u[k] = IF k <= Len(s) THEN s[k] ELSE t[k - Len(s)]
    BY <2>2, <2>3
  <2>5. s \o t = u
    BY <2>2, <2>3, <2>4, SameConcatenation, Zenon
  <2>6. QED
    BY <2>1, <2>5 DEF t, u
<1>5. QED
  BY <1>1, <1>2, <1>3, <1>4

LEMMA PayloadsAreAccepted ==
  ASSUME NEW type \in Sessions!EventType,
         NEW payload \in Sessions!Payloads(type)
  PROVE  payload \in Sessions!Accepted(type)
<1>1. CASE payload \in Sessions!ApplicationAndViewPayloads(type)
  BY <1>1, PayloadShapes
  DEF Sessions!EventType, Sessions!ApplicationAndViewPayloads,
      Sessions!Accepted, Sessions!AcceptedOfWindow, Sessions!AcceptedOfInput,
      Sessions!AcceptedOfApplication, Sessions!AcceptedOfViewAndService,
      Sessions!AcceptedOfNotification
<1>2. CASE payload \in Sessions!WindowAndStatePayloads(type)
  <2>1. CASE type \in {"windowScreenChanged", "scrollWheel"}
    <3>1. CASE type = "windowScreenChanged"
      <4>1. payload \in Sessions!AcceptedOfWindow(type)
        BY <1>2, <3>1, PayloadShapes
        DEF Sessions!WindowAndStatePayloads, Sessions!AcceptedOfWindow
      <4>2. QED
        BY <4>1 DEF Sessions!Accepted
    <3>2. CASE type = "scrollWheel"
      <4> DEFINE Bits == Sessions!OneOf({0, 1, 2, 4, 8, 16, 32})
                 rest == <<Sessions!Boolean, Bits, Bits, Sessions!Boolean,
                           Sessions!AnyInt>>
                 read == <<Sessions!Finite, Sessions!Finite, Sessions!Finite,
                           Sessions!Finite, Sessions!Boolean, Bits, Bits,
                           Sessions!Boolean, Sessions!AnyInt>>
      <4>1. payload = Sessions!Times(4, Sessions!Finite) \o rest
        BY <1>2, <3>2 DEF Sessions!WindowAndStatePayloads
      <4>2. Sessions!AcceptedOfInput(type) = {read}
        BY <3>2 DEF Sessions!AcceptedOfInput
      <4> HIDE DEF Bits
      <4>3. Sessions!Times(4, Sessions!Finite) \o rest = read
        BY PayloadShapes
      <4> HIDE DEF rest, read
      <4>4. QED
        BY <4>1, <4>2, <4>3 DEF Sessions!Accepted
    <3>3. QED
      BY <2>1, <3>1, <3>2
  <2>2. CASE type \notin {"windowScreenChanged", "scrollWheel"}
    BY <1>2, <2>2
    DEF Sessions!EventType, Sessions!WindowAndStatePayloads,
        Sessions!Accepted, Sessions!AcceptedOfWindow,
        Sessions!AcceptedOfInput, Sessions!AcceptedOfApplication
  <2>3. QED
    BY <2>1, <2>2
<1>3. QED
  BY <1>1, <1>2 DEF Sessions!Payloads

\* The decoder takes every payload the encoder writes of a supported type.
LEMMA TablesAgree ==
  ASSUME NEW type \in Sessions!EventType, NEW version,
         Sessions!Supported(type, version)
  PROVE  \A payload \in Sessions!Payloads(type) :
           Sessions!Decodes(version, type, payload)
<1> SUFFICES ASSUME NEW payload \in Sessions!Payloads(type)
             PROVE  Sessions!Decodes(version, type, payload)
  OBVIOUS
<1>1. payload \in Sessions!Accepted(type)
  BY PayloadsAreAccepted
<1>2. \A k \in 1 .. Len(payload) : Sessions!FieldFits(payload[k], payload[k])
  BY DEF Sessions!FieldFits
<1>3. QED
  BY <1>1, <1>2, EnvelopesAreAccepted DEF Sessions!Decodes

-----------------------------------------------------------------------------
(* Event sessions.                                                           *)

SessionRecord ==
  [type : Sessions!EventType, version : Sessions!Version, value : Int]

ActiveType == "applicationActiveChanged"
AppearanceType == "applicationAppearanceChanged"
PreferencesType == "applicationAccessibilityDisplayPreferencesChanged"

\* An application whose cache holds old has v there after the records rs.
Learning(old, rs, type, v) ==
  \/ old = v /\ \A n \in 1 .. Len(rs) : rs[n].type # type
  \/ \E n \in 1 .. Len(rs) :
       /\ rs[n].type = type /\ rs[n].value = v
       /\ \A later \in n + 1 .. Len(rs) : rs[later].type # type

Attached == session # Sessions!NoSession /\ session.port = open

SupportedRecords(rs) ==
  \A n \in 1 .. Len(rs) : Sessions!Supported(rs[n].type, rs[n].version)

SessionsTypeOK ==
  /\ session # Sessions!NoSession =>
       poster /\ session.port # Sessions!None
         /\ session.version \in Sessions!Version
  /\ nextPort \in Nat \ {0}
  /\ real \in [active : {0, 1}, appearance : Sessions!Appearance,
               preferences : {0, 1}]
  /\ cache \in [active : Int, appearance : Int, preferences : Int]
  /\ last \in [Sessions!Facet -> Int] /\ sent \in [Sessions!Facet -> Int]
  /\ channel \in Seq(SessionRecord) /\ SupportedRecords(channel)

\* Every observer that runs is one the session's version supports, and
\* compares with what this session was sent.
ObserversOK ==
  Attached =>
    \A f \in Sessions!Facet : last[f] # Sessions!Off =>
      /\ last[f] = sent[f]
      /\ Sessions!Supported(Sessions!TypeOfFacet[f], session.version)

\* Whatever its version reports is on its way to the application, or known.
InformedOK ==
  Attached =>
    /\ session.version >= 4 =>
         Learning(cache.active, channel, ActiveType, real.active)
    /\ session.version >= 7 =>
         /\ last["appearance"] = Sessions!IsDark(real.appearance)
         /\ Learning(cache.appearance, channel, AppearanceType,
                     last["appearance"])
    /\ session.version >= 14 =>
         /\ last["preferences"] # Sessions!Off
         /\ ~announced => last["preferences"] = real.preferences
         /\ Learning(cache.preferences, channel, PreferencesType,
                     last["preferences"])

SessionsInv == SessionsTypeOK /\ ObserversOK /\ InformedOK

LEMMA FacetTypes ==
  /\ Sessions!TypeOfFacet["appearance"] = AppearanceType
  /\ Sessions!TypeOfFacet["preferences"] = PreferencesType
  /\ ActiveType \in Sessions!EventType
  /\ \A f \in Sessions!Facet :
       /\ Sessions!TypeOfFacet[f] \in Sessions!EventType
       /\ Sessions!TypeOfFacet[f] # ActiveType
       /\ f # "appearance" => Sessions!TypeOfFacet[f] # AppearanceType
       /\ f # "preferences" => Sessions!TypeOfFacet[f] # PreferencesType
BY
DEF Sessions!TypeOfFacet, Sessions!Facet, ActiveType, AppearanceType,
    PreferencesType, Sessions!EventType

LEMMA SupportedFrom ==
  ASSUME NEW v \in Sessions!Version
  PROVE  /\ Sessions!Supported(ActiveType, v) <=> v >= 4
         /\ Sessions!Supported(AppearanceType, v) <=> v >= 7
         /\ Sessions!Supported(PreferencesType, v) <=> v >= 14
         /\ Sessions!Supported(Sessions!TypeOfFacet["power"], v) <=> v >= 15
         /\ Sessions!Supported(Sessions!TypeOfFacet["memory"], v) <=> v >= 15
BY
DEF Sessions!Supported, Sessions!Since, Sessions!TypeOfFacet, ActiveType,
    AppearanceType, PreferencesType

LEMMA LearningAfter ==
  ASSUME NEW S, NEW rs \in Seq(S), NEW r \in S, NEW old, NEW type, NEW v,
         IF r.type = type THEN r.value = v ELSE Learning(old, rs, type, v)
  PROVE  Learning(old, Append(rs, r), type, v)
<1>1. CASE r.type = type
  <2>1. /\ Len(rs) + 1 \in 1 .. Len(Append(rs, r))
        /\ \A later \in (Len(rs) + 1) + 1 .. Len(Append(rs, r)) : FALSE
    BY AppendFacts
  <2>2. QED
    BY <1>1, <2>1, AppendFacts DEF Learning
<1>2. CASE r.type # type
  BY <1>2, AppendFacts DEF Learning
<1>3. QED
  BY <1>1, <1>2

LEMMA LearningDelivered ==
  ASSUME NEW S, NEW rs \in Seq(S), rs # <<>>, NEW old, NEW type, NEW v,
         Learning(old, rs, type, v),
         NEW new, IF Head(rs).type = type THEN new = Head(rs).value
                  ELSE new = old
  PROVE  Learning(new, Tail(rs), type, v)
<1>1. CASE old = v /\ \A n \in 1 .. Len(rs) : rs[n].type # type
  BY <1>1, TailFacts DEF Learning
<1>2. ASSUME NEW n \in 1 .. Len(rs), rs[n].type = type, rs[n].value = v,
             \A later \in n + 1 .. Len(rs) : rs[later].type # type
      PROVE  Learning(new, Tail(rs), type, v)
  <2>1. CASE n = 1
    <3>1. new = v
      BY <1>2, <2>1, TailFacts
    <3>2. \A later \in 1 .. Len(Tail(rs)) : Tail(rs)[later].type # type
      BY <1>2, <2>1, TailFacts
    <3>3. QED
      BY <3>1, <3>2 DEF Learning
  <2>2. CASE n # 1
    <3>1. n - 1 \in 1 .. Len(Tail(rs)) /\ Tail(rs)[n - 1] = rs[n]
      BY <2>2, TailFacts
    <3>2. \A later \in (n - 1) + 1 .. Len(Tail(rs)) :
            Tail(rs)[later].type # type
      BY <1>2, TailFacts
    <3>3. QED
      BY <1>2, <3>1, <3>2 DEF Learning
  <2>3. QED
    BY <2>1, <2>2
<1>3. QED
  BY <1>1, <1>2 DEF Learning

\* A post to the attached application: it learns the value, and nothing else.
LEMMA PostsRecord ==
  ASSUME SessionsTypeOK, NEW type \in Sessions!EventType, NEW v \in Int,
         Sessions!Post(type, v)
  PROVE  /\ channel' \in Seq(SessionRecord) /\ SupportedRecords(channel')
         /\ \A other, old, w :
              other # type /\ Learning(old, channel, other, w)
                => Learning(old, channel', other, w)
         /\ Sessions!Reaches(type) =>
              \A old : Learning(old, channel', type, v)
         /\ ~Sessions!Reaches(type) => channel' = channel
<1> DEFINE r == Sessions!Record(type, session.version, v)
<1>1. CASE Sessions!Reaches(type)
  <2>1. /\ session.version \in Sessions!Version
        /\ Sessions!Supported(type, session.version)
    BY <1>1 DEF Sessions!Reaches, Sessions!Supported
  <2>2. /\ r \in SessionRecord /\ r.type = type /\ r.value = v
        /\ Sessions!Supported(r.type, r.version)
    BY <2>1 DEF Sessions!Record, SessionRecord
  <2>3. channel' = Append(channel, r) /\ channel \in Seq(SessionRecord)
    BY <1>1 DEF Sessions!Post, SessionsTypeOK
  <2> HIDE DEF r
  <2>4. SupportedRecords(Append(channel, r))
    BY <2>2, <2>3, AppendFacts DEF SupportedRecords, SessionsTypeOK
  <2>5. QED
    BY <1>1, <2>2, <2>3, <2>4, AppendFacts, LearningAfter
<1>2. CASE ~Sessions!Reaches(type)
  BY <1>2 DEF Sessions!Post, SessionsTypeOK
<1>3. QED
  BY <1>1, <1>2

\* An observer of the attached application sees v.
LEMMA Observes ==
  ASSUME SessionsInv, NEW f \in Sessions!Facet, NEW v \in Nat,
         Sessions!Observe(f, v), UNCHANGED <<poster, session, open>>
  PROVE  /\ last' \in [Sessions!Facet -> Int]
         /\ sent' \in [Sessions!Facet -> Int]
         /\ channel' \in Seq(SessionRecord) /\ SupportedRecords(channel')
         /\ Attached =>
              /\ ObserversOK'
              /\ \A g \in Sessions!Facet \ {f} : last'[g] = last[g]
              /\ last[f] # Sessions!Off => last'[f] = v
              /\ \A type, old, w :
                   /\ type # Sessions!TypeOfFacet[f]
                   /\ Learning(old, channel, type, w)
                   => Learning(old, channel', type, w)
              /\ \A old :
                   /\ last[f] # Sessions!Off
                   /\ Learning(old, channel, Sessions!TypeOfFacet[f], last[f])
                   => Learning(old, channel', Sessions!TypeOfFacet[f], v)
<1> DEFINE type == Sessions!TypeOfFacet[f]
<1>1. type \in Sessions!EventType /\ v \in Int /\ v # Sessions!Off
  BY FacetTypes DEF Sessions!Off
<1>2. SessionsTypeOK /\ ObserversOK /\ last \in [Sessions!Facet -> Int]
      /\ sent \in [Sessions!Facet -> Int]
  BY DEF SessionsInv, SessionsTypeOK
<1>3. Attached' = Attached
  BY DEF Attached
<1>4. CASE last[f] \notin {Sessions!Off, v}
  <2>1. /\ last' = [last EXCEPT ![f] = v]
        /\ Sessions!Post(type, v)
        /\ sent' = IF Sessions!Reaches(type) THEN [sent EXCEPT ![f] = v]
                   ELSE sent
    BY <1>4 DEF Sessions!Observe
  <2>2. Attached => Sessions!Reaches(type)
    BY <1>2, <1>4 DEF ObserversOK, SessionsTypeOK, Attached, Sessions!Reaches
  <2>3. Attached => sent' = [sent EXCEPT ![f] = v]
    BY <2>1, <2>2
  <2>4. Attached => ObserversOK'
    BY <1>2, <1>3, <1>4, <2>1, <2>3 DEF ObserversOK
  <2> HIDE DEF type
  <2>5. /\ channel' \in Seq(SessionRecord) /\ SupportedRecords(channel')
        /\ \A other, old, w :
             other # type /\ Learning(old, channel, other, w)
               => Learning(old, channel', other, w)
        /\ Sessions!Reaches(type) =>
             \A old : Learning(old, channel', type, v)
    BY <1>1, <1>2, <2>1, PostsRecord
  <2>6. last' \in [Sessions!Facet -> Int] /\ last'[f] = v
        /\ \A g \in Sessions!Facet \ {f} : last'[g] = last[g]
    BY <1>1, <1>2, <2>1
  <2>7. sent' \in [Sessions!Facet -> Int]
    BY <1>1, <1>2, <2>1
  <2>8. QED
    BY <2>2, <2>4, <2>5, <2>6, <2>7 DEF type
<1>5. CASE last[f] \in {Sessions!Off, v}
  <2>1. UNCHANGED <<last, channel, sent>>
    BY <1>5 DEF Sessions!Observe
  <2>2. ObserversOK'
    BY <1>2, <1>3, <2>1 DEF ObserversOK
  <2>3. QED
    BY <1>2, <1>5, <2>1, <2>2 DEF SessionsTypeOK
<1>6. QED
  BY <1>4, <1>5

\* The snapshot of a new session tells all that its version supports.
LEMMA SnapshotTells ==
  ASSUME SessionsTypeOK, NEW version \in Sessions!Version
  PROVE  LET rs == Sessions!Snapshot(version) IN
         /\ rs \in Seq(SessionRecord) /\ SupportedRecords(rs)
         /\ version >= 4 => \A old : Learning(old, rs, ActiveType, real.active)
         /\ version >= 7 =>
              \A old : Learning(old, rs, AppearanceType,
                               Sessions!IsDark(real.appearance))
         /\ version >= 14 =>
              \A old : Learning(old, rs, PreferencesType, real.preferences)
<1> DEFINE record(type, v) ==
             IF Sessions!Supported(type, version)
             THEN <<Sessions!Record(type, version, v)>> ELSE <<>>
           one == record(ActiveType, real.active)
           dark == Sessions!IsDark(real.appearance)
           two == one \o record(AppearanceType, dark)
           three == two \o record(PreferencesType, real.preferences)
<1>1. Sessions!Snapshot(version) = three
  BY
  DEF Sessions!Snapshot, Sessions!TypeOfFacet, ActiveType, AppearanceType,
      PreferencesType
<1>2. /\ real.active \in Int /\ dark \in Int /\ real.preferences \in Int
      /\ ActiveType \in Sessions!EventType
      /\ AppearanceType \in Sessions!EventType
      /\ PreferencesType \in Sessions!EventType
  BY FacetTypes
  DEF SessionsTypeOK, Sessions!IsDark, Sessions!Facet
<1>3. ASSUME NEW rs \in Seq(SessionRecord), SupportedRecords(rs),
             NEW type \in Sessions!EventType, NEW v \in Int
      PROVE  LET more == rs \o record(type, v) IN
             /\ more \in Seq(SessionRecord) /\ SupportedRecords(more)
             /\ Sessions!Supported(type, version) =>
                  \A old : Learning(old, more, type, v)
             /\ \A other, old, w :
                  other # type /\ Learning(old, rs, other, w)
                    => Learning(old, more, other, w)
  <2> DEFINE r == Sessions!Record(type, version, v)
  <2>1. CASE Sessions!Supported(type, version)
    <3>1. /\ r \in SessionRecord /\ r.type = type /\ r.value = v
          /\ Sessions!Supported(r.type, r.version)
      BY <1>3, <2>1 DEF Sessions!Record, SessionRecord
    <3>2. rs \o record(type, v) = rs \o <<r>>
      BY <2>1
    <3> HIDE DEF r, record
    <3>3. rs \o record(type, v) = Append(rs, r)
      BY <1>3, <3>1, <3>2, ConcatFacts
    <3>4. SupportedRecords(Append(rs, r))
      BY <1>3, <3>1, AppendFacts DEF SupportedRecords
    <3>5. QED
      BY <1>3, <3>1, <3>3, <3>4, AppendFacts, LearningAfter
  <2>2. CASE ~Sessions!Supported(type, version)
    <3>1. rs \o record(type, v) = rs
      BY <1>3, <2>2
    <3>2. QED
      BY <1>3, <2>2, <3>1
  <2>3. QED
    BY <2>1, <2>2
<1>4. /\ <<>> \in Seq(SessionRecord) /\ SupportedRecords(<<>>)
      /\ one = <<>> \o one
  BY DEF SupportedRecords
<1>5. /\ Sessions!Supported(ActiveType, version) <=> version >= 4
      /\ Sessions!Supported(AppearanceType, version) <=> version >= 7
      /\ Sessions!Supported(PreferencesType, version) <=> version >= 14
  BY SupportedFrom
<1>6. /\ AppearanceType # ActiveType /\ PreferencesType # ActiveType
      /\ PreferencesType # AppearanceType
  BY DEF ActiveType, AppearanceType, PreferencesType
<1> HIDE DEF record
<1>7. /\ one \in Seq(SessionRecord) /\ SupportedRecords(one)
      /\ version >= 4 => \A old : Learning(old, one, ActiveType, real.active)
  BY <1>2, <1>3, <1>4, <1>5
<1>8. /\ two \in Seq(SessionRecord) /\ SupportedRecords(two)
      /\ version >= 4 => \A old : Learning(old, two, ActiveType, real.active)
      /\ version >= 7 => \A old : Learning(old, two, AppearanceType, dark)
  BY <1>2, <1>3, <1>5, <1>6, <1>7
<1>9. /\ three \in Seq(SessionRecord) /\ SupportedRecords(three)
      /\ version >= 4 =>
           \A old : Learning(old, three, ActiveType, real.active)
      /\ version >= 7 => \A old : Learning(old, three, AppearanceType, dark)
      /\ version >= 14 =>
           \A old : Learning(old, three, PreferencesType, real.preferences)
  BY <1>2, <1>3, <1>5, <1>6, <1>8
<1>10. QED
  BY <1>1, <1>9

LEMMA Attaches ==
  ASSUME SessionsInv, NEW min \in Int, NEW max \in Int,
         Sessions!Attach(min, max)
  PROVE  SessionsInv'
<1> DEFINE version == IF poster THEN Sessions!Negotiated(min, max)
                      ELSE Sessions!None
<1>1. /\ SessionsTypeOK /\ nextPort \in Nat \ {0} /\ nextPort' = nextPort + 1
      /\ UNCHANGED <<poster, real, announced, changes>>
  BY DEF SessionsInv, SessionsTypeOK, Sessions!Attach, Sessions!worldVars
<1>2. CASE version # Sessions!None
  <2>1. poster /\ version \in Sessions!Version /\ version \in Int
    BY <1>2
    DEF Sessions!Negotiated, Sessions!Highest, Sessions!Lowest,
        Sessions!Version, Sessions!MinVersion, Sessions!CurrentVersion
  <2>2. /\ session' = [port |-> nextPort, version |-> version]
        /\ last' = Sessions!Started(version) /\ open' = nextPort
        /\ cache' = Sessions!NothingSeen
        /\ channel' = Sessions!Snapshot(version)
        /\ sent' = Sessions!SentSnapshot(version)
    BY <1>2 DEF Sessions!Attach
  <2> HIDE DEF version
  <2>3. session'.port # Sessions!None /\ session'.version = version
    BY <1>1, <2>2 DEF Sessions!None
  <2>4. /\ real.active \in {0, 1} /\ real.preferences \in {0, 1}
        /\ Sessions!IsDark(real.appearance) \in {0, 1}
    BY <1>1 DEF SessionsTypeOK, Sessions!IsDark
  <2>5. /\ last' \in [Sessions!Facet -> Int]
        /\ sent' \in [Sessions!Facet -> Int]
    BY <2>2, <2>4
    DEF Sessions!Started, Sessions!SentSnapshot, Sessions!Facet,
        Sessions!Off, Sessions!Unknown
  <2>6. cache' \in [active : Int, appearance : Int, preferences : Int]
    BY <2>2 DEF Sessions!NothingSeen, Sessions!Unknown
  <2>7. SessionsTypeOK'
    BY <1>1, <2>1, <2>2, <2>3, <2>5, <2>6, SnapshotTells DEF SessionsTypeOK
  <2>8. \A f \in Sessions!Facet : last'[f] # Sessions!Off =>
          /\ last'[f] = sent'[f]
          /\ Sessions!Supported(Sessions!TypeOfFacet[f], version)
    <3>1. SUFFICES ASSUME NEW f \in Sessions!Facet, last'[f] # Sessions!Off
                   PROVE  /\ last'[f] = sent'[f]
                          /\ Sessions!Supported(Sessions!TypeOfFacet[f],
                                                version)
      OBVIOUS
    <3>2. CASE f = "appearance"
      BY <2>1, <2>2, <3>1, <3>2, FacetTypes, SupportedFrom
      DEF Sessions!Started, Sessions!SentSnapshot
    <3>3. CASE f = "preferences"
      BY <2>1, <2>2, <3>1, <3>3, FacetTypes, SupportedFrom
      DEF Sessions!Started, Sessions!SentSnapshot
    <3>4. CASE f \in {"power", "memory"}
      BY <2>1, <2>2, <3>1, <3>4, SupportedFrom
      DEF Sessions!Started, Sessions!SentSnapshot
    <3>5. QED
      BY <3>2, <3>3, <3>4 DEF Sessions!Facet
  <2>9. ObserversOK'
    BY <2>3, <2>8 DEF ObserversOK
  <2>10. InformedOK'
    <3>1. /\ version >= 7 =>
               last'["appearance"] = Sessions!IsDark(real.appearance)
          /\ version >= 14 => last'["preferences"] = real.preferences
      BY <2>2 DEF Sessions!Started
    <3>2. QED
      BY <1>1, <2>1, <2>2, <2>3, <2>4, <3>1, SnapshotTells
      DEF InformedOK, Sessions!Off
  <2>11. QED
    BY <2>7, <2>9, <2>10 DEF SessionsInv
<1>3. CASE version = Sessions!None
  <2>1. /\ session' = Sessions!NoSession /\ last' = Sessions!AllOff
        /\ UNCHANGED <<open, cache, channel, sent>>
    BY <1>3 DEF Sessions!Attach
  <2>2. last' \in [Sessions!Facet -> Int]
    BY <2>1 DEF Sessions!AllOff, Sessions!Off
  <2>3. ~Attached'
    BY <2>1 DEF Attached
  <2>4. QED
    BY <1>1, <2>1, <2>2, <2>3
    DEF SessionsInv, SessionsTypeOK, ObserversOK, InformedOK
<1>4. QED
  BY <1>2, <1>3

LEMMA Handles ==
  ASSUME SessionsInv, Sessions!HandleRawEvent
  PROVE  SessionsInv'
<1> DEFINE r == Head(channel)
<1>1. /\ channel # <<>> /\ channel' = Tail(channel)
      /\ UNCHANGED <<poster, session, open, nextPort, real, announced, last,
                     sent>>
      /\ SessionsTypeOK /\ channel \in Seq(SessionRecord)
      /\ SupportedRecords(channel)
      /\ cache \in [active : Int, appearance : Int, preferences : Int]
  BY
  DEF SessionsInv, SessionsTypeOK, Sessions!HandleRawEvent,
      Sessions!nativeVars, Sessions!worldVars
<1>2. /\ r \in SessionRecord /\ r.type \in Sessions!EventType
      /\ Sessions!Supported(r.type, r.version) /\ r.value \in Int
      /\ channel' \in Seq(SessionRecord) /\ SupportedRecords(channel')
  <2>1. /\ Len(channel) \in Nat \ {0} /\ r = channel[1] /\ r \in SessionRecord
        /\ Tail(channel) \in Seq(SessionRecord)
        /\ Len(Tail(channel)) = Len(channel) - 1
        /\ \A n \in 1 .. Len(channel) - 1 : Tail(channel)[n] = channel[n + 1]
    BY <1>1, TailFacts
  <2>2. r.type \in Sessions!EventType /\ r.value \in Int
    BY <2>1 DEF SessionRecord
  <2>3. Sessions!Supported(r.type, r.version)
    BY <1>1, <2>1 DEF SupportedRecords
  <2>4. SupportedRecords(Tail(channel))
    BY <1>1, <2>1 DEF SupportedRecords
  <2>5. QED
    BY <1>1, <2>1, <2>2, <2>3, <2>4
<1>3. Sessions!Decoded(r)
  BY <1>2, TablesAgree DEF Sessions!Decoded
<1>4. cache' =
        IF r.type = ActiveType THEN [cache EXCEPT !.active = r.value]
        ELSE IF r.type = AppearanceType
             THEN [cache EXCEPT !.appearance = r.value]
        ELSE IF r.type = PreferencesType
             THEN [cache EXCEPT !.preferences = r.value]
        ELSE cache
  BY <1>3
  DEF Sessions!HandleRawEvent, Sessions!TypeOfFacet, ActiveType,
      AppearanceType, PreferencesType
<1>5. /\ AppearanceType # ActiveType /\ PreferencesType # ActiveType
      /\ PreferencesType # AppearanceType
  BY DEF ActiveType, AppearanceType, PreferencesType
<1> HIDE DEF r
<1>6. /\ cache' \in [active : Int, appearance : Int, preferences : Int]
      /\ cache'.active = IF r.type = ActiveType THEN r.value
                         ELSE cache.active
      /\ cache'.appearance = IF r.type = AppearanceType THEN r.value
                             ELSE cache.appearance
      /\ cache'.preferences = IF r.type = PreferencesType THEN r.value
                              ELSE cache.preferences
  BY <1>1, <1>2, <1>4, <1>5
<1>7. \A old, new, type, v :
        /\ Learning(old, channel, type, v)
        /\ new = IF r.type = type THEN r.value ELSE old
        => Learning(new, channel', type, v)
  BY <1>1, LearningDelivered DEF r
<1>8. SessionsTypeOK'
  BY <1>1, <1>2, <1>6 DEF SessionsTypeOK
<1>9. ObserversOK' /\ InformedOK'
  BY <1>1, <1>6, <1>7 DEF SessionsInv, ObserversOK, InformedOK, Attached
<1>10. QED
  BY <1>8, <1>9 DEF SessionsInv

LEMMA SessionsStep ==
  SessionsInv /\ [Sessions!Next]_sVars => SessionsInv'
<1> SUFFICES ASSUME SessionsInv, [Sessions!Next]_sVars
             PROVE  SessionsInv'
  OBVIOUS
<1> USE DEF SessionsInv
<1>1. CASE Sessions!InstallEventPoster
  BY <1>1
  DEF Sessions!InstallEventPoster, Sessions!dartVars, Sessions!worldVars,
      SessionsTypeOK, ObserversOK, InformedOK, Attached
<1>2. CASE Sessions!DisableEventPoster
  BY <1>2
  DEF Sessions!DisableEventPoster, Sessions!dartVars, Sessions!worldVars,
      SessionsTypeOK, ObserversOK, InformedOK, Attached
<1>3. CASE Sessions!ShutdownBridge
  BY <1>3
  DEF Sessions!ShutdownBridge, Sessions!dartVars, Sessions!worldVars,
      Sessions!AllOff, Sessions!Off,
      SessionsTypeOK, ObserversOK, InformedOK, Attached
<1>4. ASSUME NEW min \in Sessions!Version,
             NEW max \in 1 .. Sessions!CurrentVersion + 1,
             Sessions!Attach(min, max)
      PROVE  SessionsInv'
  <2>1. min \in Int /\ max \in Int
    BY DEF Sessions!Version, Sessions!MinVersion, Sessions!CurrentVersion
  <2>2. QED
    BY <1>4, <2>1, Attaches
<1>5. CASE Sessions!Terminate
  <2>1. ~Attached'
    BY <1>5
    DEF Sessions!Terminate, Sessions!nativeVars, SessionsTypeOK, Attached
  <2>2. <<>> \in Seq(SessionRecord) /\ SupportedRecords(<<>>)
    BY DEF SupportedRecords
  <2>3. QED
    BY <1>5, <2>1, <2>2
    DEF Sessions!Terminate, Sessions!nativeVars, Sessions!worldVars,
        SessionsTypeOK, ObserversOK, InformedOK
<1>6. CASE Sessions!ActiveChanges
  <2>1. /\ Sessions!Post(ActiveType, 1 - real.active)
        /\ real' = [real EXCEPT !.active = 1 - @]
        /\ UNCHANGED <<poster, session, last, open, nextPort, cache,
                       announced, sent>>
    BY <1>6
    DEF Sessions!ActiveChanges, Sessions!nativeVars, Sessions!dartVars,
        ActiveType
  <2>2. /\ real' \in [active : {0, 1}, appearance : Sessions!Appearance,
                      preferences : {0, 1}]
        /\ real'.active = 1 - real.active /\ real'.active \in Int
        /\ real'.appearance = real.appearance
        /\ real'.preferences = real.preferences
    <3>1. real.active \in {0, 1} /\ 1 - real.active \in {0, 1}
      BY DEF SessionsTypeOK
    <3>2. real' = [real EXCEPT !.active = 1 - real.active]
      BY <2>1
    <3>3. real \in [active : {0, 1}, appearance : Sessions!Appearance,
                    preferences : {0, 1}]
      BY DEF SessionsTypeOK
    <3>4. /\ real'.active = 1 - real.active
          /\ real'.appearance = real.appearance
          /\ real'.preferences = real.preferences
      BY <3>2, <3>3
    <3>5. real' \in [active : {0, 1}, appearance : Sessions!Appearance,
                     preferences : {0, 1}]
      BY <3>1, <3>2, <3>3
    <3>6. QED
      BY <3>1, <3>4, <3>5
  <2>3. ActiveType \in Sessions!EventType /\ AppearanceType # ActiveType
        /\ PreferencesType # ActiveType
    BY DEF ActiveType, AppearanceType, PreferencesType, Sessions!EventType
  <2>4. /\ channel' \in Seq(SessionRecord) /\ SupportedRecords(channel')
        /\ \A other, old, w :
             other # ActiveType /\ Learning(old, channel, other, w)
               => Learning(old, channel', other, w)
        /\ Sessions!Reaches(ActiveType) =>
             \A old : Learning(old, channel', ActiveType, real'.active)
    BY <2>1, <2>2, <2>3, PostsRecord
  <2>5. Attached /\ session.version >= 4 => Sessions!Reaches(ActiveType)
    BY SupportedFrom DEF SessionsTypeOK, Attached, Sessions!Reaches
  <2>6. SessionsTypeOK'
    BY <2>1, <2>2, <2>4 DEF SessionsTypeOK
  <2>7. ObserversOK' /\ InformedOK'
    BY <2>1, <2>2, <2>3, <2>4, <2>5 DEF ObserversOK, InformedOK, Attached
  <2>8. QED
    BY <2>6, <2>7
<1>7. ASSUME NEW a \in Sessions!Appearance, Sessions!AppearanceChanges(a)
      PROVE  SessionsInv'
  <2> DEFINE v == Sessions!IsDark(a)
  <2>1. /\ Sessions!Observe("appearance", v) /\ v \in Nat
        /\ real' = [real EXCEPT !.appearance = a]
        /\ UNCHANGED <<poster, session, open, nextPort, cache, announced>>
        /\ "appearance" \in Sessions!Facet
        /\ "preferences" \in Sessions!Facet \ {"appearance"}
    BY <1>7
    DEF Sessions!AppearanceChanges, Sessions!dartVars, Sessions!IsDark,
        Sessions!Facet
  <2>2. /\ real' \in [active : {0, 1}, appearance : Sessions!Appearance,
                      preferences : {0, 1}]
        /\ real'.active = real.active /\ real'.appearance = a
        /\ real'.preferences = real.preferences
    BY <2>1 DEF SessionsTypeOK
  <2>3. Sessions!IsDark(real.appearance) # Sessions!Off
    BY DEF Sessions!IsDark, Sessions!Off
  <2>4. AppearanceType # ActiveType /\ PreferencesType # AppearanceType
        /\ Sessions!TypeOfFacet["appearance"] = AppearanceType
    BY FacetTypes DEF ActiveType, AppearanceType, PreferencesType
  <2>5. v = Sessions!IsDark(real'.appearance)
    BY <2>2
  <2> HIDE DEF v
  <2>6. /\ last' \in [Sessions!Facet -> Int]
        /\ sent' \in [Sessions!Facet -> Int]
        /\ channel' \in Seq(SessionRecord) /\ SupportedRecords(channel')
        /\ Attached =>
             /\ ObserversOK'
             /\ last'["preferences"] = last["preferences"]
             /\ last["appearance"] # Sessions!Off => last'["appearance"] = v
             /\ \A type, old, w :
                  type # AppearanceType /\ Learning(old, channel, type, w)
                    => Learning(old, channel', type, w)
             /\ \A old :
                  /\ last["appearance"] # Sessions!Off
                  /\ Learning(old, channel, AppearanceType, last["appearance"])
                  => Learning(old, channel', AppearanceType, v)
    BY <2>1, <2>4, Observes
  <2>7. SessionsTypeOK'
    BY <2>1, <2>2, <2>6 DEF SessionsTypeOK
  <2>8. Attached' = Attached
    BY <2>1 DEF Attached
  <2>9. ObserversOK'
    BY <2>6, <2>8 DEF ObserversOK
  <2>10. InformedOK'
    BY <2>1, <2>2, <2>3, <2>4, <2>5, <2>6, <2>8 DEF InformedOK
  <2>11. QED
    BY <2>7, <2>9, <2>10
<1>8. CASE Sessions!PreferencesChange
  <2>1. /\ real' = [real EXCEPT !.preferences = 1 - @] /\ announced' = TRUE
        /\ UNCHANGED <<poster, session, last, open, nextPort, cache, channel,
                       sent>>
    BY <1>8
    DEF Sessions!PreferencesChange, Sessions!nativeVars, Sessions!dartVars
  <2>2. /\ real' \in [active : {0, 1}, appearance : Sessions!Appearance,
                      preferences : {0, 1}]
        /\ real'.active = real.active
        /\ real'.appearance = real.appearance
    BY <2>1 DEF SessionsTypeOK
  <2>3. QED
    BY <2>1, <2>2 DEF SessionsTypeOK, ObserversOK, InformedOK, Attached
<1>9. CASE Sessions!PreferencesNotified
  <2> DEFINE v == real.preferences
  <2>1. /\ Sessions!Observe("preferences", v) /\ v \in Nat
        /\ v # Sessions!Off
        /\ UNCHANGED <<poster, session, open, nextPort, cache, real>>
        /\ "preferences" \in Sessions!Facet
        /\ "appearance" \in Sessions!Facet \ {"preferences"}
    BY <1>9
    DEF Sessions!PreferencesNotified, Sessions!dartVars, SessionsTypeOK,
        Sessions!Facet, Sessions!Off
  <2>2. PreferencesType # ActiveType /\ PreferencesType # AppearanceType
        /\ Sessions!TypeOfFacet["preferences"] = PreferencesType
    BY FacetTypes DEF ActiveType, AppearanceType, PreferencesType
  <2> HIDE DEF v
  <2>3. /\ last' \in [Sessions!Facet -> Int]
        /\ sent' \in [Sessions!Facet -> Int]
        /\ channel' \in Seq(SessionRecord) /\ SupportedRecords(channel')
        /\ Attached =>
             /\ ObserversOK'
             /\ last'["appearance"] = last["appearance"]
             /\ last["preferences"] # Sessions!Off => last'["preferences"] = v
             /\ \A type, old, w :
                  type # PreferencesType /\ Learning(old, channel, type, w)
                    => Learning(old, channel', type, w)
             /\ \A old :
                  /\ last["preferences"] # Sessions!Off
                  /\ Learning(old, channel, PreferencesType,
                             last["preferences"])
                  => Learning(old, channel', PreferencesType, v)
    BY <2>1, <2>2, Observes
  <2>4. SessionsTypeOK'
    BY <2>1, <2>3 DEF SessionsTypeOK
  <2>5. Attached' = Attached
    BY <2>1 DEF Attached
  <2>6. ObserversOK'
    BY <2>3, <2>5 DEF ObserversOK
  <2>7. v = real'.preferences
    BY <2>1 DEF v
  <2>8. InformedOK'
    BY <2>1, <2>2, <2>3, <2>5, <2>7 DEF InformedOK
  <2>9. QED
    BY <2>4, <2>6, <2>8
<1>10. ASSUME NEW f \in {"power", "memory"}, NEW v \in Nat,
              Sessions!Observe(f, v),
              UNCHANGED <<poster, session, open, nextPort, cache, real,
                          announced>>
       PROVE  SessionsInv'
  <2>1. /\ f \in Sessions!Facet
        /\ "appearance" \in Sessions!Facet \ {f}
        /\ "preferences" \in Sessions!Facet \ {f}
    BY DEF Sessions!Facet
  <2>2. /\ Sessions!TypeOfFacet[f] # ActiveType
        /\ Sessions!TypeOfFacet[f] # AppearanceType
        /\ Sessions!TypeOfFacet[f] # PreferencesType
    BY <2>1, FacetTypes
  <2>3. /\ last' \in [Sessions!Facet -> Int]
        /\ sent' \in [Sessions!Facet -> Int]
        /\ channel' \in Seq(SessionRecord) /\ SupportedRecords(channel')
        /\ Attached =>
             /\ ObserversOK'
             /\ \A g \in Sessions!Facet \ {f} : last'[g] = last[g]
             /\ \A type, old, w :
                  /\ type # Sessions!TypeOfFacet[f]
                  /\ Learning(old, channel, type, w)
                  => Learning(old, channel', type, w)
    BY <1>10, <2>1, Observes
  <2>4. SessionsTypeOK'
    BY <1>10, <2>3 DEF SessionsTypeOK
  <2>5. Attached' = Attached
    BY <1>10 DEF Attached
  <2>6. ObserversOK'
    BY <2>3, <2>5 DEF ObserversOK
  <2>7. InformedOK'
    BY <1>10, <2>1, <2>2, <2>3, <2>5 DEF InformedOK
  <2>8. QED
    BY <2>4, <2>6, <2>7
<1>11. ASSUME NEW state \in {0, 1}, Sessions!PowerChanges(state)
       PROVE  SessionsInv'
  BY <1>10, <1>11 DEF Sessions!PowerChanges, Sessions!dartVars
<1>12. ASSUME NEW flags \in SUBSET {"warn", "critical"},
              Sessions!MemoryPressureChanges(flags)
       PROVE  SessionsInv'
  <2> DEFINE v == IF "critical" \in flags THEN 2
                  ELSE IF "warn" \in flags THEN 1 ELSE 0
  <2>1. /\ Sessions!Observe("memory", v) /\ v \in Nat
        /\ UNCHANGED <<poster, session, open, nextPort, cache, real,
                       announced>>
    BY <1>12 DEF Sessions!MemoryPressureChanges, Sessions!dartVars
  <2> HIDE DEF v
  <2>2. QED
    BY <1>10, <2>1
<1>13. ASSUME NEW type \in Sessions!OtherType, Sessions!PostOther(type)
       PROVE  SessionsInv'
  <2>1. /\ Sessions!Post(type, Sessions!None) /\ Sessions!None \in Int
        /\ UNCHANGED <<poster, session, last, open, nextPort, cache, real,
                       announced, sent>>
    BY <1>13
    DEF Sessions!PostOther, Sessions!nativeVars, Sessions!dartVars,
        Sessions!worldVars, Sessions!None
  <2>2. /\ type \in Sessions!EventType /\ type # ActiveType
        /\ type # AppearanceType /\ type # PreferencesType
    BY FacetTypes DEF Sessions!OtherType, ActiveType, Sessions!Facet
  <2>3. /\ channel' \in Seq(SessionRecord) /\ SupportedRecords(channel')
        /\ \A other, old, w :
             other # type /\ Learning(old, channel, other, w)
               => Learning(old, channel', other, w)
    BY <2>1, <2>2, PostsRecord
  <2>4. SessionsTypeOK'
    BY <2>1, <2>3 DEF SessionsTypeOK
  <2>5. ObserversOK' /\ InformedOK'
    BY <2>1, <2>2, <2>3 DEF ObserversOK, InformedOK, Attached
  <2>6. QED
    BY <2>4, <2>5
<1>14. CASE Sessions!HandleRawEvent
  BY <1>14, Handles
<1>15. CASE UNCHANGED sVars
  BY <1>15 DEF sVars, SessionsTypeOK, ObserversOK, InformedOK, Attached
<1>16. QED
  BY <1>1, <1>2, <1>3, <1>4, <1>5, <1>6, <1>7, <1>8, <1>9, <1>11, <1>12,
     <1>13, <1>14, <1>15
  DEF Sessions!Next

LEMMA SessionsInitially == Sessions!Init => SessionsInv
<1> SUFFICES ASSUME Sessions!Init PROVE SessionsInv
  OBVIOUS
<1>1. /\ <<>> \in Seq(SessionRecord) /\ SupportedRecords(<<>>)
  BY DEF SupportedRecords
<1>2. ~Attached
  BY DEF Sessions!Init, Attached
<1>3. /\ last \in [Sessions!Facet -> Int] /\ sent \in [Sessions!Facet -> Int]
      /\ cache \in [active : Int, appearance : Int, preferences : Int]
      /\ real \in [active : {0, 1}, appearance : Sessions!Appearance,
                   preferences : {0, 1}]
  BY
  DEF Sessions!Init, Sessions!AllOff, Sessions!NothingSent,
      Sessions!NothingSeen, Sessions!Off, Sessions!Unknown,
      Sessions!Appearance
<1>4. QED
  BY <1>1, <1>2, <1>3
  DEF Sessions!Init, SessionsInv, SessionsTypeOK, ObserversOK, InformedOK

\* The records of a session decode, in whatever version it speaks.
LEMMA SessionsDecode == SessionsInv => RecordsDecode
<1> SUFFICES ASSUME SessionsInv, NEW n \in DOMAIN channel
             PROVE  Sessions!Decoded(channel[n])
  BY DEF RecordsDecode, Sessions!RecordsDecode
<1>1. /\ channel \in Seq(SessionRecord) /\ n \in 1 .. Len(channel)
      /\ SupportedRecords(channel)
  BY DEF SessionsInv, SessionsTypeOK
<1>2. /\ channel[n].type \in Sessions!EventType
      /\ Sessions!Supported(channel[n].type, channel[n].version)
  <2>1. channel[n] \in SessionRecord
    BY <1>1
  <2>2. QED
    BY <1>1, <2>1 DEF SupportedRecords, SessionRecord
<1>3. QED
  BY <1>2, TablesAgree DEF Sessions!Decoded

LEMMA SessionsAreCurrent == SessionsInv => ObservedStateIsCurrent
<1> SUFFICES ASSUME SessionsInv, Attached
             PROVE  /\ channel = <<>> =>
                         /\ session.version >= 4 =>
                              cache.active = real.active
                         /\ session.version >= 7 =>
                              cache.appearance
                                = Sessions!IsDark(real.appearance)
                         /\ session.version >= 14 /\ ~announced =>
                              cache.preferences = real.preferences
                    /\ \A f \in Sessions!Facet :
                         last[f] # Sessions!Off => last[f] = sent[f]
  BY DEF ObservedStateIsCurrent, Sessions!ObservedStateIsCurrent, Attached
<1>1. ASSUME channel = <<>>, NEW old, NEW type, NEW v,
             Learning(old, channel, type, v)
      PROVE  old = v
  BY <1>1 DEF Learning
<1>2. QED
  BY <1>1 DEF SessionsInv, ObserversOK, InformedOK

-----------------------------------------------------------------------------
(* The composition.                                                          *)

CallbacksInv ==
  /\ SessionsInv /\ FullscreenInv /\ PresentationInv
  /\ LeaseInv /\ KeyInv /\ DropsInv

LEMMA CallbacksInitially ==
  Init => CallbacksInv
<1> SUFFICES ASSUME Init PROVE CallbacksInv
  OBVIOUS
<1>1. FullscreenInv
  <2>1. /\ mode = "off" /\ seen = "off" /\ changing = FALSE
        /\ frame \in Windowed /\ windowed = frame
        /\ lastState = Fullscreen!None /\ stateEvents = <<>>
    BY DEF Init, Fullscreen!Init
  <2>2. stateEvents \in Seq(WindowRecord) /\ Len(stateEvents) = 0
    BY <2>1
  <2>3. Ends(seen, stateEvents, mode) /\ Safe(seen, stateEvents)
    BY <2>1, <2>2 DEF Ends, Safe, Fullscreen!Seeing
  <2>4. QED
    BY <2>1, <2>2, <2>3 DEF FullscreenInv, Fullscreen!Mode, Fullscreen!Frame
<1>2. PresentationInv
  <2>1. /\ onScreen = FALSE /\ visible = FALSE /\ portOpen = TRUE
        /\ registered = TRUE /\ lastVisible = "none" /\ events = <<>>
        /\ animations = {} /\ generation = 0 /\ nextOp = 1
        /\ pending = Presentation!NoOp
    BY DEF Init, Presentation!Init
  <2>2. events \in Seq(PresentationRecord) /\ Len(events) = 0
    BY <2>1
  <2>3. BeliefOK
    <3>1. visible = (lastVisible = "yes")
      BY <2>1
    <3>2. \A n \in 1 .. Len(events) : ~Presentation!IsNews(events[n])
      BY <2>2
    <3>3. QED
      BY <3>1, <3>2, Zenon DEF BeliefOK, Presentation!Believing
  <2>4. onScreen \in BOOLEAN /\ visible \in BOOLEAN /\ portOpen \in BOOLEAN
    BY <2>1
  <2>5. PresentationTypeOK
    BY <2>1, <2>2, <2>4 DEF PresentationTypeOK
  <2>6. PostedOK /\ AnimationsOK /\ ClosingOK
    BY <2>1 DEF PostedOK, AnimationsOK, ClosingOK
  <2>7. QED
    BY <2>3, <2>5, <2>6 DEF PresentationInv
<1>3. DropsInv
  <2>1. DropsTypeOK
    BY DEF Init, Drops!Init, DropsTypeOK, IsDrag, Drops!NoDrag, Drops!None
  <2>2. SessionsOK
    BY DEF Init, Drops!Init, SessionsOK, NoOffer
  <2>3. OfferOK
    BY DEF Init, Drops!Init, OfferOK, Drops!NoDrop
  <2>4. QED
    BY <2>1, <2>2, <2>3 DEF DropsInv
<1>4. QED
  BY <1>1, <1>2, <1>3, SessionsInitially, LeaseInitially, KeysInitially
  DEF CallbacksInv, Init

allVars == <<subject, sVars, fVars, pVars, grantsVars, dVars>>

\* A step of the composition is a step of each part, or leaves it alone.
LEMMA StepOfParts ==
  [Next]_allVars =>
    /\ [Sessions!Next]_sVars
    /\ [Fullscreen!Next]_fVars
    /\ [Presentation!Next]_pVars
    /\ [GrantsNext]_grantsVars
    /\ [Drops!Next]_dVars
BY DEF Next, allVars

\* Whatever the user, the system and the application do, every part keeps its
\* invariant.
THEOREM CallbacksInvariant == Spec => []CallbacksInv
<1>1. Init => CallbacksInv
  BY CallbacksInitially
<1>2. CallbacksInv /\ [Next]_allVars => CallbacksInv'
  BY StepOfParts, SessionsStep, FullscreenStep, PresentationStep, LeaseStep,
     KeyStep, DropsStep, CallbacksAssumption
  DEF CallbacksInv
<1>3. QED
  BY <1>1, <1>2, PTL DEF Spec, allVars

\* The tables of encoder and decoder agree: a Dart application of any protocol
\* version decodes every record it is sent.
THEOREM RecordsAlwaysDecode == Spec => []RecordsDecode
BY SessionsDecode, CallbacksInvariant, PTL DEF CallbacksInv

\* When its records are handled, an attached application knows the state its
\* version reports, after any number of attaches, shutdowns and changes.
THEOREM ObservedStateIsAlwaysCurrent == Spec => []ObservedStateIsCurrent
BY SessionsAreCurrent, CallbacksInvariant, PTL DEF CallbacksInv

\* Dart's isFullscreen is the window's mode whenever nothing is under way,
\* with any number of requests, failures and moves.
THEOREM AlwaysObservesFullscreen == Spec => []FullscreenObserved
<1>1. FullscreenInv => FullscreenObserved
  <2> SUFFICES ASSUME FullscreenInv, stateEvents = <<>>
               PROVE  seen = mode
    BY DEF FullscreenObserved, Fullscreen!FullscreenObserved, Fullscreen!AtRest
  <2>1. Len(stateEvents) = 0
    OBVIOUS
  <2>2. QED
    BY <2>1 DEF FullscreenInv, Ends, Fullscreen!Seeing
<1>2. QED
  BY <1>1, CallbacksInvariant, PTL DEF CallbacksInv

\* A frame of a delegate callback reaches Dart as a windowed frame only if it
\* is one, whatever frames the window takes in between.
THEOREM CallbackFramesAreAlwaysSafe == Spec => []CallbackFramesAreSafe
<1>1. FullscreenInv => CallbackFramesAreSafe
  BY
  DEF FullscreenInv, Safe, CallbackFramesAreSafe,
      Fullscreen!CallbackFramesAreSafe
<1>2. QED
  BY <1>1, CallbacksInvariant, PTL DEF CallbacksInv

\* Dart's isVisible becomes the window's visibility, unless a frame change
\* cut an animation short.
THEOREM AlwaysObservesVisibility == Spec => []VisibilityObserved
<1>1. PresentationInv => VisibilityObserved
  BY
  DEF PresentationInv, PresentationTypeOK, BeliefOK, PostedOK, UnderWay,
      VisibilityObserved, Presentation!VisibilityObserved
<1>2. QED
  BY <1>1, CallbacksInvariant, PTL DEF CallbacksInv

\* A close operation that is pending while the port is open is in Dart's
\* hands or on its way there.
THEOREM CloseIsAlwaysAnswerable == Spec => []CloseIsAnswerable
<1>1. PresentationInv => CloseIsAnswerable
  BY
  DEF PresentationInv, ClosingOK, Asked, CloseIsAnswerable,
      Presentation!CloseIsAnswerable
<1>2. QED
  BY <1>1, CallbacksInvariant, PTL DEF CallbacksInv

\* No completion of an earlier hide takes down a window shown since, however
\* many animations are under way.
THEOREM StaleHideIsAlwaysHarmless == Spec => StaleHideIsHarmless
<1> DEFINE Harmless == onScreen /\ ~onScreen'
                                  => wish' # "shown" \/ miniaturized'
<1>1. PresentationInv /\ [Presentation!Next]_pVars => Harmless
  <2> SUFFICES ASSUME PresentationInv, [Presentation!Next]_pVars,
                      onScreen, ~onScreen', ~miniaturized', wish' = "shown"
               PROVE  FALSE
    OBVIOUS
  <2>1. ASSUME NEW a \in animations, Presentation!AnimationCompletes(a)
        PROVE  FALSE
    <3>1. Presentation!Current(a) /\ a.kind = "hide" /\ wish' = wish
      BY <2>1 DEF Presentation!AnimationCompletes
    <3>2. QED
      BY <3>1 DEF PresentationInv, AnimationsOK
  <2>2. ~Presentation!Miniaturize
    BY DEF Presentation!Miniaturize
  <2>3. UNCHANGED onScreen \/ wish' # "shown" \/ onScreen'
        \/ Presentation!Miniaturize
        \/ \E a \in animations : Presentation!AnimationCompletes(a)
    BY
    DEF Presentation!Next, Presentation!Show, Presentation!Present,
        Presentation!Hide, Presentation!SetFrame, Presentation!Deminiaturize,
        Presentation!UserClose, Presentation!AskDart, Presentation!Close,
        Presentation!RequestClose, Presentation!CloseProgrammatically,
        Presentation!SetDeferral, Presentation!Reply, Presentation!Deliver,
        Presentation!Release, Presentation!ClosePort, Presentation!nativeVars,
        pVars
  <2>4. QED
    BY <2>1, <2>2, <2>3
<1>2. PresentationInv /\ [Next]_allVars => [Harmless]_Presentation!vars
  BY <1>1, StepOfParts
<1>3. QED
  BY <1>2, CallbacksInvariant, PTL
  DEF Spec, allVars, CallbacksInv, StaleHideIsHarmless,
      Presentation!StaleHideIsHarmless

\* The reference the process holds is the one its owner records, plus those a
\* refused release left behind, and follows request and activity.
THEOREM LeaseAlwaysFollows == Spec => []LeaseFollowsRequest
<1>1. LeaseInv => LeaseFollowsRequest
  BY DEF LeaseInv
<1>2. QED
  BY <1>1, CallbacksInvariant, PTL DEF CallbacksInv

\* Carbon, the identifier map and the owners agree on the hot keys, and a press
\* reaches the key it was made for or none.
THEOREM HotKeysAlwaysExact == Spec => []HotKeysAreExact
BY KeyInvIsExact, CallbacksInvariant, PTL DEF CallbacksInv

\* The view that receives a drop is the view the drop was last offered to,
\* alive and with a policy for it, for any tree of views.
THEOREM DropAlwaysFollowsOffer == Spec => []DropFollowsOffer
<1>1. DropsInv => DropFollowsOffer
  BY
  DEF DropsInv, SessionsOK, Deliverable, OfferOK, NoOffer, DropFollowsOffer,
      Drops!DropFollowsOffer
<1>2. QED
  BY <1>1, CallbacksInvariant, PTL DEF CallbacksInv
================================================================================
