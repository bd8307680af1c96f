------------------------------ MODULE HostProofs ------------------------------
(***************************************************************************)
(* Proofs about MessagePump, for any threads, message budget, number of    *)
(* restarts and depth of nested run loops, and about HostLifecycle, whose  *)
(* hosts run that pump.                                                    *)
(*                                                                         *)
(* The inductive invariant PumpInv says who holds a reference to a source, *)
(* that only the innermost turn can be about to signal and then signals    *)
(* the installed source, that a stopped pump is empty, and that what waits *)
(* is newer than what was handled.  HostInv says at each stage of a host   *)
(* what of Engine and pump runs and which failures its exit code tells.    *)
(***************************************************************************)
EXTENDS HostLifecycle, FiniteSetTheorems, SequenceTheorems, TLAPS

\* Threads between the unlock and the signal, which hold a reference each.
Holders(s) == {p \in Producer : producer[p].pc = "signal"
                  /\ producer[p].src = s}

\* References of the installed pump and of a turn about to signal again.
Installed(s) == IF source = s THEN OwnedRefs ELSE 0

Resignals(s) ==
  IF frames # <<>> /\ Top.pc = "signal" /\ Top.src = s THEN 1 ELSE 0

RefsExact ==
  \A s \in Source :
    refs[s] = Cardinality(Holders(s)) + Installed(s) + Resignals(s)

Control ==
  /\ running <=> source # NoSource
  /\ source <= starts
  /\ ~running => pending = <<>>
  /\ \A p \in Producer : producer[p].pc = "signal" =>
       producer[p].src \in 1 .. starts

\* Outer turns are inside a handler.
Nesting ==
  /\ \A d \in 1 .. Depth - 1 : frames[d].pc = "handling"
  /\ frames # <<>> /\ Top.pc = "signal" => running /\ Top.src = source

Ordered ==
  /\ \A j, k \in 1 .. Len(pending) : j < k => pending[j] < pending[k]
  /\ \A j \in 1 .. Len(pending) : last < pending[j] /\ pending[j] <= accepted
  /\ last <= accepted

PumpInv ==
  /\ TypeOK
  /\ Control
  /\ Nesting
  /\ RefsExact
  /\ NoLostWakeup
  /\ Ordered

-----------------------------------------------------------------------------
(* The stack of turns.                                                     *)

LEMMA Pushed ==
  ASSUME frames \in Seq(Frame), NEW f \in Frame, frames' = Append(frames, f)
  PROVE  /\ frames' \in Seq(Frame) /\ frames' # <<>>
         /\ Depth' = Depth + 1 /\ Top' = f
         /\ \A d \in 1 .. Depth : frames'[d] = frames[d]
BY AppendProperties DEF Depth, Top

LEMMA Replaced ==
  ASSUME frames \in Seq(Frame), frames # <<>>, NEW f \in Frame,
         frames' = WithTop(f)
  PROVE  /\ frames' \in Seq(Frame) /\ frames' # <<>>
         /\ Depth' = Depth /\ Top' = f
         /\ \A d \in 1 .. Depth - 1 : frames'[d] = frames[d]
<1>1. Depth \in 1 .. Len(frames) /\ Len(frames) \in Nat
  BY EmptySeq, LenProperties DEF Depth
<1>2. /\ frames' \in Seq(Frame) /\ Len(frames') = Len(frames)
      /\ \A j \in 1 .. Len(frames) :
           frames'[j] = IF j = Depth THEN f ELSE frames[j]
  BY <1>1, ExceptSeq DEF WithTop, Depth
<1> QED
  BY <1>1, <1>2, EmptySeq DEF Depth, Top

LEMMA Popped ==
  ASSUME frames \in Seq(Frame), frames # <<>>, frames' = WithoutTop
  PROVE  /\ frames' \in Seq(Frame)
         /\ Depth' = Depth - 1
         /\ \A d \in 1 .. Depth - 1 : frames'[d] = frames[d]
<1>1. Len(frames) \in Nat \ {0}
  BY EmptySeq, LenProperties
<1>2. \A j \in 1 .. Len(frames) - 1 : frames[j] \in Frame
  BY <1>1, ElementOfSeq
<1> DEFINE n == Len(frames) - 1
<1>3. n \in Int /\ Depth = n + 1 /\ n >= 0
  BY <1>1 DEF Depth
<1>4. frames' = SubSeq(frames, 1, n)
  BY DEF WithoutTop, Depth
<1>5. \A j \in 1 .. n : frames[j] \in Frame
  BY <1>2
<1> HIDE DEF n
<1>6. /\ SubSeq(frames, 1, n) \in Seq(Frame)
      /\ Len(SubSeq(frames, 1, n)) = IF 1 <= n THEN n - 1 + 1 ELSE 0
      /\ \A j \in 1 .. n - 1 + 1 : SubSeq(frames, 1, n)[j] = frames[1 + j - 1]
  BY <1>3, <1>5, SubSeqProperties
<1>7. Len(frames') = n /\ \A j \in 1 .. n : frames'[j] = frames[j]
  BY <1>3, <1>4, <1>6
<1> QED
  BY <1>3, <1>4, <1>6, <1>7 DEF Depth

LEMMA TopTyped ==
  ASSUME frames \in Seq(Frame), frames # <<>>
  PROVE  Top \in Frame /\ Depth \in Nat \ {0} /\ Top = frames[Depth]
BY EmptySeq, ElementOfSeq, LenProperties DEF Top, Depth

LEMMA DepthZero ==
  ASSUME frames \in Seq(Frame)
  PROVE  Depth \in Nat /\ (frames = <<>> <=> Depth = 0)
BY EmptySeq, LenProperties DEF Depth

-----------------------------------------------------------------------------
(* The threads that hold a reference.                                      *)

LEMMA HoldersFinite ==
  ASSUME NEW s
  PROVE  IsFiniteSet(Holders(s)) /\ Cardinality(Holders(s)) \in Nat
<1>1. Holders(s) \in SUBSET Producer
  BY DEF Holders
<1>2. IsFiniteSet(Holders(s))
  BY <1>1, FS_Subset, PumpAssumption
<1> QED
  BY <1>2, FS_CardinalityType

LEMMA HolderAdded ==
  ASSUME TypeOK, NEW p \in Producer, producer[p].pc = "rest", NEW o \in Source,
         producer' = [producer EXCEPT ![p] = [pc |-> "signal", src |-> o]],
         NEW s \in Source
  PROVE  Cardinality(Holders(s))' =
           Cardinality(Holders(s)) + (IF s = o THEN 1 ELSE 0)
<1>1. CASE s = o
  <2>1. Holders(s)' = Holders(s) \cup {p} /\ p \notin Holders(s)
    BY <1>1 DEF Holders, TypeOK
  <2> QED
    BY <1>1, <2>1, HoldersFinite, FS_AddElement
<1>2. CASE s # o
  <2>1. Holders(s)' = Holders(s)
    BY <1>2 DEF Holders, TypeOK
  <2> QED
    BY <1>2, <2>1, HoldersFinite
<1> QED
  BY <1>1, <1>2

LEMMA HolderRemoved ==
  ASSUME TypeOK, NEW p \in Producer, producer[p].pc = "signal",
         producer' = [producer EXCEPT ![p] = AtRest],
         NEW s \in Source
  PROVE  Cardinality(Holders(s))' =
           Cardinality(Holders(s)) - (IF s = producer[p].src THEN 1 ELSE 0)
<1>1. CASE s = producer[p].src
  <2>1. Holders(s)' = Holders(s) \ {p} /\ p \in Holders(s)
    BY <1>1 DEF Holders, TypeOK, AtRest
  <2> QED
    BY <1>1, <2>1, HoldersFinite, FS_RemoveElement
<1>2. CASE s # producer[p].src
  <2>1. Holders(s)' = Holders(s)
    BY <1>2 DEF Holders, TypeOK, AtRest
  <2> QED
    BY <1>2, <2>1, HoldersFinite
<1> QED
  BY <1>1, <1>2

LEMMA HoldersKept ==
  ASSUME producer' = producer, NEW s
  PROVE  Cardinality(Holders(s))' = Cardinality(Holders(s))
BY DEF Holders

LEMMA HoldersFinitePrimed ==
  ASSUME NEW s
  PROVE  Cardinality(Holders(s))' \in Nat
<1>1. Holders(s)' \in SUBSET Producer
  BY DEF Holders
<1>2. IsFiniteSet(Holders(s)')
  BY <1>1, FS_Subset, PumpAssumption
<1> QED
  BY <1>2, FS_CardinalityType

\* A count of references that is exact is not negative.
LEMMA RefsTyped ==
  ASSUME TypeOK, NEW o \in Source, NEW e, refs' = [refs EXCEPT ![o] = e],
         RefsExact'
  PROVE  refs' \in [Source -> Nat]
<1>1. ASSUME NEW s \in Source  PROVE refs'[s] \in Nat
  <2>1. Cardinality(Holders(s))' \in Nat
    BY HoldersFinitePrimed
  <2>2. Installed(s)' \in Nat /\ Resignals(s)' \in Nat
    BY DEF Installed, Resignals, OwnedRefs
  <2> QED
    BY <2>1, <2>2 DEF RefsExact
<1> QED
  BY <1>1 DEF TypeOK

-----------------------------------------------------------------------------
(* One lemma for each action.                                              *)

LEMMA InitEstablishes == Init => PumpInv
<1> SUFFICES ASSUME Init  PROVE PumpInv
  OBVIOUS
<1> USE DEF Init
<1>1. TypeOK
  <2>1. pending \in Seq(Message) /\ frames \in Seq(Frame)
    BY EmptySeq
  <2>2. producer \in [Producer -> [pc : {"rest", "signal"},
                                   src : Source \cup {NoSource}]]
    BY DEF AtRest
  <2>3. running \in BOOLEAN /\ source \in Source \cup {NoSource}
    OBVIOUS
  <2>4. signaled \in [Source -> BOOLEAN] /\ refs \in [Source -> Nat]
    OBVIOUS
  <2>5. /\ starts \in 0 .. MaxStarts /\ accepted \in 0 .. MaxMessages
        /\ handled \in Nat /\ dropped \in Nat /\ last \in 0 .. MaxMessages
    BY PumpAssumption
  <2> QED
    BY <2>1, <2>2, <2>3, <2>4, <2>5 DEF TypeOK
<1>2. Control /\ NoLostWakeup /\ Ordered
  BY DEF Control, NoLostWakeup, Ordered, AtRest, NoSource
<1>3. Nesting
  BY DEF Nesting, Depth
<1>4. RefsExact
  <2> SUFFICES ASSUME NEW s \in Source
               PROVE  refs[s] = Cardinality(Holders(s)) + Installed(s)
                            + Resignals(s)
    BY DEF RefsExact
  <2>1. Holders(s) = {}
    BY DEF Holders, AtRest
  <2>2. Installed(s) = 0 /\ Resignals(s) = 0
    BY DEF Installed, Resignals, Source, NoSource
  <2> QED
    BY <2>1, <2>2, FS_EmptySet
<1> QED
  BY <1>1, <1>2, <1>3, <1>4 DEF PumpInv

LEMMA StartKeeps == ASSUME PumpInv, Start  PROVE PumpInv'
<1> USE DEF Start
<1>0. /\ TypeOK /\ Control /\ Nesting /\ RefsExact /\ Ordered
      /\ starts + 1 \in Source /\ source = NoSource /\ pending = <<>>
      /\ \A s \in Source : Resignals(s) = 0
  BY PumpAssumption DEF PumpInv, TypeOK, Control, Source, NoSource, Resignals,
     MainThreadFree
<1>1. RefsExact'
  <2> SUFFICES ASSUME NEW s \in Source
               PROVE  refs'[s] = Cardinality(Holders(s))' + Installed(s)'
                            + Resignals(s)'
    BY DEF RefsExact
  <2>1. Resignals(s)' = 0
    BY <1>0 DEF Resignals, Top, Depth
  <2>2. CASE s = starts + 1
    <3>1. Holders(s)' = {}
      BY <1>0, <2>2 DEF Holders, Control, TypeOK
    <3>2. Cardinality(Holders(s))' = 0
      BY <3>1, FS_EmptySet
    <3> QED
      BY <1>0, <2>1, <2>2, <3>2 DEF Installed, TypeOK, OwnedRefs
  <2>3. CASE s # starts + 1
    <3>1. refs'[s] = refs[s] /\ Installed(s) = 0 /\ Installed(s)' = 0
      BY <1>0, <2>3 DEF Installed, TypeOK, Source, NoSource
    <3>2. Cardinality(Holders(s))' = Cardinality(Holders(s))
      BY HoldersKept
    <3> QED
      BY <1>0, <2>1, <3>1, <3>2 DEF RefsExact
  <2> QED
    BY <2>2, <2>3
<1>2. refs' \in [Source -> Nat]
  BY <1>0, <1>1, RefsTyped
<1>3. TypeOK'
  BY <1>0, <1>2, PumpAssumption DEF TypeOK, Source
<1>4. Control'
  BY <1>0 DEF Control, TypeOK, Source, NoSource
<1>5. Nesting'
  BY <1>0 DEF Nesting, Top, Depth, MainThreadFree
<1>6. NoLostWakeup' /\ Ordered'
  BY <1>0 DEF NoLostWakeup, Ordered
<1> QED
  BY <1>1, <1>3, <1>4, <1>5, <1>6 DEF PumpInv

LEMMA StopKeeps == ASSUME PumpInv, Stop  PROVE PumpInv'
<1> USE DEF Stop
<1>0. /\ TypeOK /\ Control /\ Nesting /\ RefsExact /\ Ordered
      /\ source \in Source
      /\ \A s \in Source : Resignals(s) = 0
  BY DEF PumpInv, TypeOK, Control, Source, NoSource, Resignals, MainThreadFree
<1>1. RefsExact'
  <2> SUFFICES ASSUME NEW s \in Source
               PROVE  refs'[s] = Cardinality(Holders(s))' + Installed(s)'
                            + Resignals(s)'
    BY DEF RefsExact
  <2>1. Resignals(s)' = 0 /\ Installed(s)' = 0
    BY <1>0 DEF Resignals, Top, Depth, Installed, Source, NoSource
  <2>2. refs'[s] = refs[s] - Installed(s)
    BY <1>0 DEF TypeOK, Installed, OwnedRefs
  <2>3. Cardinality(Holders(s))' = Cardinality(Holders(s))
    BY HoldersKept
  <2>4. refs[s] \in Nat /\ Cardinality(Holders(s)) \in Nat
           /\ Installed(s) \in Nat
    BY <1>0, HoldersFinite DEF TypeOK, Installed, OwnedRefs
  <2> QED
    BY <1>0, <2>1, <2>2, <2>3, <2>4 DEF RefsExact
<1>2. refs' \in [Source -> Nat]
  BY <1>0, <1>1, RefsTyped
<1>3. Len(pending) \in Nat
  BY <1>0, LenProperties DEF TypeOK
<1>4. TypeOK'
  <2>1. pending' \in Seq(Message)
    BY EmptySeq
  <2>2. running' \in BOOLEAN /\ source' \in Source \cup {NoSource}
    OBVIOUS
  <2>3. dropped' \in Nat
    BY <1>0, <1>3 DEF TypeOK
  <2> QED
    BY <1>0, <1>2, <2>1, <2>2, <2>3 DEF TypeOK
<1>5. Control'
  BY <1>0 DEF Control, TypeOK, NoSource
<1>6. Nesting'
  BY <1>0 DEF Nesting, Top, Depth, MainThreadFree
<1>7. NoLostWakeup' /\ Ordered'
  BY <1>0 DEF NoLostWakeup, Ordered
<1> QED
  BY <1>1, <1>4, <1>5, <1>6, <1>7 DEF PumpInv

LEMMA EnqueueKeeps ==
  ASSUME PumpInv, NEW p \in Producer, Enqueue(p)  PROVE PumpInv'
<1> USE DEF Enqueue
<1>0. /\ TypeOK /\ Control /\ Nesting /\ RefsExact /\ Ordered
      /\ source \in Source /\ source \in 1 .. starts
      /\ accepted + 1 \in Message
  <2>1. TypeOK /\ Control /\ Nesting /\ RefsExact /\ Ordered
    BY DEF PumpInv
  <2>2. source \in Source
    BY <2>1 DEF TypeOK, Control
  <2>3. accepted + 1 \in Message
    BY <2>1, PumpAssumption DEF TypeOK, Message
  <2>4. source \in 1 .. starts
    BY <2>1, <2>2, PumpAssumption DEF TypeOK, Control, Source
  <2> QED
    BY <2>1, <2>2, <2>3, <2>4
<1>1. RefsExact'
  <2> SUFFICES ASSUME NEW s \in Source
               PROVE  refs'[s] = Cardinality(Holders(s))' + Installed(s)'
                            + Resignals(s)'
    BY DEF RefsExact
  <2>1. Resignals(s)' = Resignals(s) /\ Installed(s)' = Installed(s)
    BY DEF Resignals, Top, Depth, Installed
  <2>2. refs'[s] = refs[s] + (IF s = source THEN 1 ELSE 0)
    BY <1>0 DEF TypeOK
  <2>3. Cardinality(Holders(s))' =
          Cardinality(Holders(s)) + (IF s = source THEN 1 ELSE 0)
    BY <1>0, HolderAdded
  <2>4. /\ Cardinality(Holders(s)) \in Nat
        /\ Installed(s) \in Nat /\ Resignals(s) \in Nat
    BY HoldersFinite DEF Installed, Resignals, OwnedRefs
  <2> QED
    BY <1>0, <2>1, <2>2, <2>3, <2>4 DEF RefsExact
<1>2. refs' \in [Source -> Nat]
  BY <1>0, <1>1, RefsTyped
<1>3. /\ pending' \in Seq(Message)
      /\ Len(pending') = Len(pending) + 1 /\ Len(pending) \in Nat
      /\ \A j \in 1 .. Len(pending) : pending'[j] = pending[j]
                                       /\ pending[j] \in Message
      /\ pending'[Len(pending) + 1] = accepted + 1
  BY <1>0, AppendProperties, LenProperties, ElementOfSeq DEF TypeOK
<1>4. TypeOK'
  BY <1>0, <1>2, <1>3 DEF TypeOK, Message
<1>5. Control'
  BY <1>0 DEF Control, TypeOK
<1>6. Nesting'
  BY <1>0 DEF Nesting, Top, Depth
<1>7. NoLostWakeup'
  BY <1>0 DEF NoLostWakeup, TypeOK
<1>8. Ordered'
  <2>1. accepted \in Nat /\ last \in Nat
    BY <1>0 DEF TypeOK
  <2>2. \A j \in 1 .. Len(pending) : pending[j] \in Nat
    BY <1>3 DEF Message
  <2> QED
    BY <1>0, <1>3, <2>1, <2>2 DEF Ordered
<1> QED
  BY <1>1, <1>4, <1>5, <1>6, <1>7, <1>8 DEF PumpInv

LEMMA SignalAndWakeKeeps ==
  ASSUME PumpInv, NEW p \in Producer, SignalAndWake(p)  PROVE PumpInv'
<1> USE DEF SignalAndWake
<1>0. /\ TypeOK /\ Control /\ Nesting /\ RefsExact /\ Ordered /\ NoLostWakeup
      /\ producer[p].src \in Source
  <2>1. /\ TypeOK /\ Control /\ Nesting /\ RefsExact /\ Ordered
        /\ NoLostWakeup
    BY DEF PumpInv
  <2>2. producer[p].src \in 1 .. starts /\ starts \in 0 .. MaxStarts
    BY <2>1 DEF TypeOK, Control
  <2> QED
    BY <2>1, <2>2, PumpAssumption DEF Source
<1>1. RefsExact'
  <2> SUFFICES ASSUME NEW s \in Source
               PROVE  refs'[s] = Cardinality(Holders(s))' + Installed(s)'
                            + Resignals(s)'
    BY DEF RefsExact
  <2>1. Resignals(s)' = Resignals(s) /\ Installed(s)' = Installed(s)
    BY DEF Resignals, Top, Depth, Installed
  <2>2. refs'[s] = refs[s] - (IF s = producer[p].src THEN 1 ELSE 0)
    BY <1>0 DEF TypeOK
  <2>3. Cardinality(Holders(s))' =
          Cardinality(Holders(s)) - (IF s = producer[p].src THEN 1 ELSE 0)
    BY <1>0, HolderRemoved
  <2>4. /\ Cardinality(Holders(s)) \in Nat
        /\ Installed(s) \in Nat /\ Resignals(s) \in Nat
    BY HoldersFinite DEF Installed, Resignals, OwnedRefs
  <2> QED
    BY <1>0, <2>1, <2>2, <2>3, <2>4 DEF RefsExact
<1>2. refs' \in [Source -> Nat]
  BY <1>0, <1>1, RefsTyped
<1>3. TypeOK'
  BY <1>0, <1>2 DEF TypeOK, AtRest
<1>4. Control'
  BY <1>0 DEF Control, TypeOK, AtRest
<1>5. Nesting'
  BY <1>0 DEF Nesting, Top, Depth
<1>6. NoLostWakeup'
  BY <1>0 DEF NoLostWakeup, TypeOK, Control, Source, NoSource, AtRest
<1>7. Ordered'
  BY <1>0 DEF Ordered
<1> QED
  BY <1>1, <1>3, <1>4, <1>5, <1>6, <1>7 DEF PumpInv

\* The turn under the one that ends is inside its handler.
LEMMA PoppedTop ==
  ASSUME frames \in Seq(Frame), frames # <<>>, Nesting, frames' = WithoutTop
  PROVE  /\ frames' \in Seq(Frame)
         /\ \A d \in 1 .. Depth' : frames'[d].pc = "handling"
         /\ frames' # <<>> => Top'.pc = "handling"
         /\ Nesting'
<1>1. /\ frames' \in Seq(Frame) /\ Depth' = Depth - 1 /\ Depth \in Nat \ {0}
      /\ \A d \in 1 .. Depth - 1 : frames'[d] = frames[d]
  BY Popped, TopTyped
<1>2. \A d \in 1 .. Depth' : frames'[d].pc = "handling"
  BY <1>1 DEF Nesting
<1>3. frames' # <<>> => Depth' \in 1 .. Depth'
  BY <1>1, EmptySeq DEF Depth
<1>4. frames' # <<>> => Top'.pc = "handling"
  BY <1>2, <1>3 DEF Top
<1> QED
  BY <1>1, <1>2, <1>4 DEF Nesting

\* A turn that changes its state keeps the turns under it.
LEMMA ReplacedNesting ==
  ASSUME frames \in Seq(Frame), frames # <<>>, Nesting, NEW f \in Frame,
         frames' = WithTop(f),
         f.pc = "signal" => running' /\ f.src = source'
  PROVE  Nesting'
<1>1. /\ frames' # <<>> /\ Depth' = Depth /\ Top' = f
      /\ \A d \in 1 .. Depth - 1 : frames'[d] = frames[d]
  BY Replaced
<1> QED
  BY <1>1 DEF Nesting

LEMMA RefsUntouched ==
  ASSUME TypeOK, RefsExact, UNCHANGED <<refs, source, producer>>,
         \A s \in Source : Resignals(s)' = Resignals(s)
  PROVE  RefsExact'
<1> SUFFICES ASSUME NEW s \in Source
             PROVE  refs'[s] = Cardinality(Holders(s))' + Installed(s)'
                            + Resignals(s)'
  BY DEF RefsExact
<1>1. Cardinality(Holders(s))' = Cardinality(Holders(s))
  BY HoldersKept
<1>2. Installed(s)' = Installed(s)
  BY DEF Installed
<1> QED
  BY <1>1, <1>2 DEF RefsExact

LEMMA PerformSourceKeeps == ASSUME PumpInv, PerformSource  PROVE PumpInv'
<1> USE DEF PerformSource
<1>0. /\ TypeOK /\ Control /\ Nesting /\ RefsExact /\ Ordered
      /\ frames \in Seq(Frame)
  BY DEF PumpInv, TypeOK
<1> DEFINE f == [pc |-> "loop", handled |-> 0, src |-> NoSource]
<1>1. f \in Frame
  BY DEF Frame
<1>2. /\ frames' \in Seq(Frame) /\ frames' # <<>> /\ Depth' = Depth + 1
      /\ Top' = f /\ \A d \in 1 .. Depth : frames'[d] = frames[d]
  BY <1>0, <1>1, Pushed
<1>3. RefsExact'
  <2>1. \A s \in Source : Resignals(s) = 0 /\ Resignals(s)' = 0
    BY <1>2 DEF Resignals, MainThreadFree
  <2> QED
    BY <1>0, <2>1, RefsUntouched
<1>4. signaled' \in [Source -> BOOLEAN]
  BY <1>0 DEF TypeOK
<1>5. TypeOK'
  BY <1>0, <1>2, <1>4 DEF TypeOK
<1>6. Control' /\ Ordered'
  BY <1>0 DEF Control, Ordered
<1>7. Nesting'
  <2>1. Depth \in Nat /\ (Depth # 0 => frames # <<>>)
    BY <1>0, DepthZero
  <2>2. \A d \in 1 .. Depth : frames[d].pc = "handling"
    BY <1>0, <2>1 DEF Nesting, MainThreadFree, Top
  <2> QED
    BY <1>2, <2>1, <2>2 DEF Nesting
<1>8. NoLostWakeup'
  BY <1>2 DEF NoLostWakeup
<1> QED
  BY <1>3, <1>5, <1>6, <1>7, <1>8 DEF PumpInv

LEMMA TakeMessageKeeps == ASSUME PumpInv, TakeMessage  PROVE PumpInv'
<1> USE DEF TakeMessage
<1>0. /\ TypeOK /\ Control /\ Nesting /\ RefsExact /\ Ordered
      /\ frames \in Seq(Frame) /\ frames # <<>> /\ Top \in Frame
      /\ pending \in Seq(Message)
  BY TopTyped DEF PumpInv, TypeOK
<1>1. PICK next \in {"handling", "tail"} :
        frames' = WithTop([Top EXCEPT !.pc = next])
  OBVIOUS
<1> DEFINE f == [Top EXCEPT !.pc = next]
<1>2. f \in Frame /\ f.pc = next
  BY <1>0 DEF Frame
<1>3. frames' \in Seq(Frame) /\ frames' # <<>> /\ Top' = f
  BY <1>0, <1>1, <1>2, Replaced
<1>4. RefsExact'
  <2>1. \A s \in Source : Resignals(s) = 0 /\ Resignals(s)' = 0
    BY <1>2, <1>3 DEF Resignals
  <2> QED
    BY <1>0, <2>1, RefsUntouched
<1>5. Nesting'
  BY <1>0, <1>1, <1>2, ReplacedNesting
<1>6. NoLostWakeup'
  BY <1>3 DEF NoLostWakeup
<1>7. CASE pending # <<>> /\ pending' = Tail(pending)
               /\ last' = Head(pending) /\ running
  <2>1. /\ Tail(pending) \in Seq(Message) /\ Head(pending) \in Message
        /\ Len(Tail(pending)) = Len(pending) - 1
        /\ \A j \in 1 .. Len(Tail(pending)) : Tail(pending)[j] = pending[j + 1]
        /\ Len(pending) \in Nat \ {0} /\ Head(pending) = pending[1]
    BY <1>0, <1>7, HeadTailProperties, EmptySeq
  <2>2. last' \in 0 .. MaxMessages
    <3>1. last' \in 1 .. MaxMessages
      BY <1>7, <2>1 DEF Message
    <3> QED
      BY <3>1, PumpAssumption
  <2>3. TypeOK'
    BY <1>0, <1>3, <1>7, <2>1, <2>2 DEF TypeOK
  <2>4. Control'
    BY <1>0, <1>7 DEF Control
  <2>5. Ordered'
    <3> DEFINE rest == Tail(pending)
    <3>1. pending' = rest /\ last' = pending[1] /\ accepted' = accepted
      BY <1>7, <2>1
    <3>2. Len(rest) = Len(pending) - 1
              /\ \A j \in 1 .. Len(rest) : rest[j] = pending[j + 1]
      BY <2>1
    <3>3. ASSUME NEW j \in 1 .. Len(pending)  PROVE pending[j] \in Nat
      <4>1. pending[j] \in Message
        BY <1>0, ElementOfSeq
      <4> QED
        BY <4>1 DEF Message
    <3> HIDE DEF rest
    <3>4. \A j, k \in 1 .. Len(rest) : j < k => rest[j] < rest[k]
      BY <1>0, <2>1, <3>2 DEF Ordered
    <3>5. \A j \in 1 .. Len(rest) : pending[1] < rest[j] /\ rest[j] <= accepted
      BY <1>0, <2>1, <3>2 DEF Ordered
    <3>6. pending[1] <= accepted
      BY <1>0, <2>1 DEF Ordered
    <3> QED
      BY <3>1, <3>4, <3>5, <3>6 DEF Ordered
  <2> QED
    BY <1>4, <1>5, <1>6, <2>3, <2>4, <2>5 DEF PumpInv
<1>8. CASE UNCHANGED <<pending, last>>
  <2>1. TypeOK'
    BY <1>0, <1>3, <1>8 DEF TypeOK
  <2>2. Control' /\ Ordered'
    BY <1>0, <1>8 DEF Control, Ordered
  <2> QED
    BY <1>4, <1>5, <1>6, <2>1, <2>2 DEF PumpInv
<1> QED
  BY <1>7, <1>8

LEMMA HandlerReturnsKeeps == ASSUME PumpInv, HandlerReturns  PROVE PumpInv'
<1> USE DEF HandlerReturns
<1>0. /\ TypeOK /\ Control /\ Nesting /\ RefsExact /\ Ordered
      /\ frames \in Seq(Frame) /\ frames # <<>> /\ Top \in Frame
  BY TopTyped DEF PumpInv, TypeOK
<1>1. PICK next \in {"loop", "tail"} :
        frames' = WithTop([Top EXCEPT !.pc = next, !.handled = @ + 1])
  OBVIOUS
<1> DEFINE f == [Top EXCEPT !.pc = next, !.handled = Top.handled + 1]
<1>2. f \in Frame /\ f.pc = next
  <2>1. Top.handled + 1 \in Nat /\ Top.src \in Source \cup {NoSource}
    BY <1>0 DEF Frame
  <2>2. PICK g \in Frame : g = [Top EXCEPT !.pc = next]
    BY <1>0 DEF Frame
  <2>3. g.pc = next /\ f = [g EXCEPT !.handled = Top.handled + 1]
    BY <1>0, <2>2 DEF Frame
  <2> HIDE DEF f
  <2> QED
    BY <2>1, <2>2, <2>3 DEF Frame
<1>3. frames' \in Seq(Frame) /\ frames' # <<>> /\ Top' = f
  BY <1>0, <1>1, <1>2, Replaced
<1>4. RefsExact'
  <2>1. \A s \in Source : Resignals(s) = 0 /\ Resignals(s)' = 0
    BY <1>2, <1>3 DEF Resignals
  <2> QED
    BY <1>0, <2>1, RefsUntouched
<1>5. Nesting'
  BY <1>0, <1>1, <1>2, ReplacedNesting
<1>6. NoLostWakeup'
  BY <1>3 DEF NoLostWakeup
<1>7. TypeOK' /\ Control' /\ Ordered'
  BY <1>0, <1>3 DEF TypeOK, Control, Ordered
<1> QED
  BY <1>4, <1>5, <1>6, <1>7 DEF PumpInv

LEMMA EndTurnKeeps == ASSUME PumpInv, EndTurn  PROVE PumpInv'
<1> USE DEF EndTurn
<1>0. /\ TypeOK /\ Control /\ Nesting /\ RefsExact /\ Ordered
      /\ frames \in Seq(Frame) /\ frames # <<>> /\ Top \in Frame
      /\ \A s \in Source : Resignals(s) = 0
  BY TopTyped DEF PumpInv, TypeOK, Resignals
<1>1. handled' \in Nat
  BY <1>0 DEF TypeOK, Frame
<1>2. Control' /\ Ordered'
  BY <1>0 DEF Control, Ordered
<1>3. CASE running /\ pending # <<>>
  <2> DEFINE f == [Top EXCEPT !.pc = "signal", !.src = source]
  <2>1. source \in Source
    BY <1>0, <1>3 DEF TypeOK, Control
  <2>2. f \in Frame /\ f.pc = "signal" /\ f.src = source
    BY <1>0, <2>1 DEF Frame
  <2>3. frames' = WithTop(f) /\ refs' = [refs EXCEPT ![source] = @ + 1]
    BY <1>3
  <2> HIDE DEF f
  <2>4. frames' \in Seq(Frame) /\ frames' # <<>> /\ Top' = f
    BY <1>0, <2>2, <2>3, Replaced
  <2>5. Nesting'
    BY <1>0, <1>3, <2>2, <2>3, ReplacedNesting
  <2>6. RefsExact'
    <3> SUFFICES ASSUME NEW s \in Source
                 PROVE  refs'[s] = Cardinality(Holders(s))' + Installed(s)'
                            + Resignals(s)'
      BY DEF RefsExact
    <3>1. Resignals(s)' = IF s = source THEN 1 ELSE 0
      BY <2>2, <2>4 DEF Resignals
    <3>2. refs'[s] = refs[s] + (IF s = source THEN 1 ELSE 0)
      BY <1>0, <2>1, <2>3 DEF TypeOK
    <3>3. /\ Cardinality(Holders(s))' = Cardinality(Holders(s))
          /\ Cardinality(Holders(s)) \in Nat
      BY HoldersKept, HoldersFinite
    <3>4. Installed(s)' = Installed(s) /\ Installed(s) \in Nat
      BY DEF Installed, OwnedRefs
    <3> QED
      BY <1>0, <3>1, <3>2, <3>3, <3>4 DEF RefsExact
  <2>7. refs' \in [Source -> Nat]
    BY <1>0, <2>1, <2>3, <2>6, RefsTyped
  <2>8. TypeOK'
    BY <1>0, <1>1, <2>4, <2>7 DEF TypeOK
  <2>9. NoLostWakeup'
    BY <2>4 DEF NoLostWakeup
  <2> QED
    BY <1>2, <2>5, <2>6, <2>8, <2>9 DEF PumpInv
<1>4. CASE ~(running /\ pending # <<>>)
  <2>1. frames' = WithoutTop /\ UNCHANGED refs
    BY <1>4
  <2>2. /\ frames' \in Seq(Frame) /\ Nesting'
        /\ frames' # <<>> => Top'.pc = "handling"
    BY <1>0, <2>1, PoppedTop
  <2>3. RefsExact'
    <3>1. \A s \in Source : Resignals(s)' = 0
      BY <2>2 DEF Resignals
    <3> QED
      BY <1>0, <2>1, <3>1, RefsUntouched
  <2>4. TypeOK'
    BY <1>0, <1>1, <2>1, <2>2 DEF TypeOK
  <2>5. NoLostWakeup'
    BY <1>4 DEF NoLostWakeup
  <2> QED
    BY <1>2, <2>2, <2>3, <2>4, <2>5 DEF PumpInv
<1> QED
  BY <1>3, <1>4

LEMMA ResignalKeeps == ASSUME PumpInv, Resignal  PROVE PumpInv'
<1> USE DEF Resignal
<1>0. /\ TypeOK /\ Control /\ Nesting /\ RefsExact /\ Ordered
      /\ frames \in Seq(Frame) /\ frames # <<>>
      /\ Top.src = source /\ running
  BY DEF PumpInv, TypeOK, Nesting
<1>1. source \in Source
  BY <1>0 DEF TypeOK, Control
<1>2. /\ frames' \in Seq(Frame) /\ Nesting'
      /\ frames' # <<>> => Top'.pc = "handling"
  BY <1>0, PoppedTop
<1>3. RefsExact'
  <2> SUFFICES ASSUME NEW s \in Source
               PROVE  refs'[s] = Cardinality(Holders(s))' + Installed(s)'
                            + Resignals(s)'
    BY DEF RefsExact
  <2>1. Resignals(s)' = 0 /\ Resignals(s) = IF s = source THEN 1 ELSE 0
    BY <1>0, <1>2 DEF Resignals
  <2>2. refs'[s] = refs[s] - (IF s = source THEN 1 ELSE 0)
    BY <1>0, <1>1 DEF TypeOK
  <2>3. /\ Cardinality(Holders(s))' = Cardinality(Holders(s))
        /\ Cardinality(Holders(s)) \in Nat
    BY HoldersKept, HoldersFinite
  <2>4. Installed(s)' = Installed(s) /\ Installed(s) \in Nat
    BY DEF Installed, OwnedRefs
  <2> QED
    BY <1>0, <2>1, <2>2, <2>3, <2>4 DEF RefsExact
<1>4. refs' \in [Source -> Nat]
  BY <1>0, <1>1, <1>3, RefsTyped
<1>5. signaled' \in [Source -> BOOLEAN] /\ signaled'[source]
  BY <1>0, <1>1 DEF TypeOK
<1>6. TypeOK'
  BY <1>0, <1>2, <1>4, <1>5 DEF TypeOK
<1>7. Control' /\ Ordered'
  BY <1>0 DEF Control, Ordered
<1>8. NoLostWakeup'
  BY <1>5 DEF NoLostWakeup
<1> QED
  BY <1>2, <1>3, <1>6, <1>7, <1>8 DEF PumpInv

LEMMA StutterKeeps == ASSUME PumpInv, UNCHANGED pumpVars  PROVE PumpInv'
<1> USE DEF pumpVars
<1>1. /\ TypeOK /\ Control /\ Nesting /\ RefsExact /\ NoLostWakeup /\ Ordered
  BY DEF PumpInv
<1>2. RefsExact'
  <2>1. \A s \in Source : Resignals(s)' = Resignals(s)
    BY DEF Resignals, Top, Depth
  <2> QED
    BY <1>1, <2>1, RefsUntouched
<1>3. TypeOK' /\ Control' /\ NoLostWakeup' /\ Ordered'
  BY <1>1 DEF TypeOK, Control, NoLostWakeup, Ordered
<1>4. Nesting'
  BY <1>1 DEF Nesting, Top, Depth
<1> QED
  BY <1>2, <1>3, <1>4 DEF PumpInv

LEMMA NextKeeps == PumpInv /\ [Next]_pumpVars => PumpInv'
BY StartKeeps, StopKeeps, EnqueueKeeps, SignalAndWakeKeeps, PerformSourceKeeps,
   TakeMessageKeeps, HandlerReturnsKeeps, EndTurnKeeps, ResignalKeeps,
   StutterKeeps DEF Next, DrainStep

-----------------------------------------------------------------------------
(* Theorems.                                                               *)

\* The inductive invariant of the pump.
THEOREM PumpInvariant == Spec => []PumpInv
BY InitEstablishes, NextKeeps, PTL DEF Spec

\* Every variable of the pump holds a value of its type; in particular no
\* reference is given back twice.
THEOREM PumpTypeCorrect == Spec => []TypeOK
<1>1. PumpInv => TypeOK
  BY DEF PumpInv
<1> QED
  BY <1>1, PumpInvariant, PTL

\* A waiting message always has a signal or a turn to come, for any threads,
\* budget and nesting.
THEOREM WakeupsAreNotLost == Spec => []NoLostWakeup
<1>1. PumpInv => NoLostWakeup
  BY DEF PumpInv
<1> QED
  BY <1>1, PumpInvariant, PTL

\* Who is about to signal a source holds a reference to it.
THEOREM SignalsReachLiveSources == Spec => []SignalsLiveSource
<1>1. PumpInv => SignalsLiveSource
  <2> SUFFICES ASSUME PumpInv  PROVE SignalsLiveSource
    OBVIOUS
  <2>1. TypeOK /\ Control /\ Nesting /\ RefsExact
    BY DEF PumpInv
  <2>2. ASSUME NEW s \in Source
        PROVE  /\ Cardinality(Holders(s)) \in Nat
               /\ Installed(s) \in Nat /\ Resignals(s) \in Nat
               /\ Holders(s) # {} => Cardinality(Holders(s)) > 0
    BY HoldersFinite, FS_EmptySet DEF Installed, Resignals, OwnedRefs
  <2>3. ASSUME NEW p \in Producer, producer[p].pc = "signal"
        PROVE  refs[producer[p].src] > 0
    <3>1. producer[p].src \in 1 .. starts /\ starts \in 0 .. MaxStarts
      BY <2>1, <2>3 DEF Control, TypeOK
    <3>2. producer[p].src \in Source
      BY <3>1, PumpAssumption DEF Source
    <3>3. p \in Holders(producer[p].src)
      BY <2>3 DEF Holders
    <3>4. Holders(producer[p].src) # {}
      BY <3>3
    <3> HIDE DEF Holders
    <3> QED
      BY <2>1, <2>2, <3>2, <3>4 DEF RefsExact
  <2>4. ASSUME NEW d \in 1 .. Depth, frames[d].pc = "signal"
        PROVE  refs[frames[d].src] > 0
    <3>1. frames \in Seq(Frame) /\ Depth \in Nat
      BY <2>1, DepthZero DEF TypeOK
    <3>2. d = Depth /\ frames # <<>>
      BY <2>1, <2>4, <3>1, DepthZero DEF Nesting
    <3>3. Top.pc = "signal" /\ Top.src = source /\ running
              /\ frames[d].src = source
      BY <2>1, <2>4, <3>2 DEF Nesting, Top
    <3>4. source \in Source
      BY <2>1, <3>3 DEF Control, TypeOK
    <3>5. Resignals(source) = 1
      BY <3>2, <3>3 DEF Resignals
    <3>6. refs[source] = Cardinality(Holders(source)) + Installed(source) + 1
      BY <2>1, <3>4, <3>5 DEF RefsExact
    <3> QED
      BY <2>2, <3>3, <3>4, <3>6
  <2> QED
    BY <2>3, <2>4 DEF SignalsLiveSource
<1> QED
  BY <1>1, PumpInvariant, PTL

\* Messages are handled in the order the queue accepted them.
THEOREM OrderIsKept == Spec => HandledInOrder
<1>1. PumpInv /\ [Next]_pumpVars => [last' # last => last' > last]_pumpVars
  <2> SUFFICES ASSUME PumpInv, Next, last' # last  PROVE last' > last
    BY DEF pumpVars
  <2>1. TakeMessage
    BY DEF Next, DrainStep, Start, Stop, Enqueue, SignalAndWake, PerformSource,
       HandlerReturns, EndTurn, Resignal
  <2>2. pending \in Seq(Message) /\ pending # <<>> /\ last' = Head(pending)
    BY <2>1 DEF TakeMessage, PumpInv, TypeOK
  <2>3. Head(pending) = pending[1] /\ 1 \in 1 .. Len(pending)
    BY <2>2, EmptySeq
  <2>4. last < pending[1] /\ pending[1] \in Message /\ last \in 0 .. MaxMessages
    BY <2>2, <2>3, ElementOfSeq DEF PumpInv, Ordered, TypeOK
  <2> QED
    BY <2>2, <2>3, <2>4, PumpAssumption DEF Message
<1> QED
  BY <1>1, PumpInvariant, PTL DEF Spec, HandledInOrder

-----------------------------------------------------------------------------
(* The hosts run the pump.                                                 *)

\* A step of a host is a step of its pump or leaves it alone.
LEMMA HostStepsPump == HostNext => [Next]_pumpVars
<1> USE DEF earlyUnchanged, launchUnchanged, loopUnchanged, endUnchanged,
            commandUnchanged
<1>1. BeforeLoop => UNCHANGED pumpVars
  BY DEF BeforeLoop, PreflightFails, Preflight, ReadArguments, ArgumentsRead,
         ChecksFail, RunApplication
<1>2. Launch => Start \/ UNCHANGED pumpVars
  BY DEF Launch, PumpDoesNotStart, PumpStarts, EngineFails, EngineStarts,
         MainSucceeds, MainFails
<1>3. \A p \in Producer : EngineSchedules(p) => Enqueue(p)
  BY DEF EngineSchedules
<1>4. \A p \in Producer : SchedulingEnds(p) => SignalAndWake(p)
  BY DEF SchedulingEnds
<1>5. PumpTurn \/ MessageHandled => DrainStep
  BY DEF PumpTurn, MessageHandled, DrainStep
<1>6. SetExitCode \/ RequestTermination \/ RunTerminateBlock \/ UserQuits
        => UNCHANGED pumpVars
  BY DEF SetExitCode, RequestTermination, RunTerminateBlock, UserQuits
<1>7. WillTerminate => Stop \/ UNCHANGED pumpVars
  BY DEF WillTerminate, JudgeExit, StopPump, ShutdownHost, Complete
<1>8. Command => UNCHANGED pumpVars
  BY DEF Command, CommandRefuses, CommandInitializes, CommandLoadFails,
         CommandEnters, CommandInvokes, CommandLeaves
<1> QED
  BY <1>1, <1>2, <1>3, <1>4, <1>5, <1>6, <1>7, <1>8 DEF HostNext, Next

\* Whatever a host does, its pump is a pump: what holds of MessagePump holds
\* in every host.
THEOREM HostImplementsPump == HostSpec => Spec
<1>1. HostInit => Init
  BY DEF HostInit
<1>2. [HostNext]_vars => [Next]_pumpVars
  BY HostStepsPump DEF vars
<1> QED
  BY <1>1, <1>2, PTL DEF HostSpec, Spec

\* In every host, from the start to the exit: messages wait only while
\* somebody brings the main thread to them, no released source is signalled
\* and messages are handled in the order they were accepted.
THEOREM HostsKeepMessages ==
  HostSpec => []NoLostWakeup /\ []SignalsLiveSource /\ HandledInOrder
BY HostImplementsPump, WakeupsAreNotLost, SignalsReachLiveSources, OrderIsKept,
   PTL

-----------------------------------------------------------------------------
(* The stages of a host.                                                   *)

BeforeEngine == {"preflight", "arguments", "checks", "launching", "starting"}
Looping == {"main", "running", "failed"}
Judged == {"stopping", "shutdown", "complete"}
CommandStage == {"loading", "invoking", "leaving"}
Stage == BeforeEngine \cup Looping \cup Judged \cup CommandStage \cup
           {"terminating", "exited"}

\* A command passes through the stages of its own.
StageOK ==
  /\ stage \in Stage
  /\ flavor \in AppKitHosts \cup {"command"}
  /\ flavor = "command" =>
       stage \in {"preflight", "checks", "exited"} \cup CommandStage
  /\ flavor # "command" => stage \notin CommandStage

\* Stages that a termination passes through, under Dart code or not.
Closing == {"terminating", "stopping", "shutdown"}

\* Which stages run the Engine, and the pump.
EngineOK ==
  /\ stage \in BeforeEngine => engine = "off"
  /\ stage \in {"main", "running"} \cup CommandStage => engine = "on"
  /\ stage \in {"failed", "complete", "exited"} => engine # "on"
  /\ stage = "failed" => ~Started
  /\ stage = "main" => Started
  /\ Started /\ stage \in Closing => engine = "on"
  /\ entered => stage \in {"main", "invoking", "complete", "exited"}
                          \cup Closing
  /\ entered /\ stage \in Closing => Started
  /\ stage \in BeforeEngine \cup CommandStage => frames = <<>>
  /\ running => stage \in {"starting", "terminating", "stopping"} \cup Looping
  /\ engine = "down" /\ running => ~Started

\* The delegate's exit code, or the command's, tells the failures so far.
CodesOK ==
  /\ stage \in BeforeEngine \cup {"loading", "invoking"} =>
       faults = {} /\ delegateCode = Success
  /\ stage \in Looping \cup {"terminating"} =>
       /\ faults \subseteq {"startup", "message"}
       /\ fatal <=> "message" \in faults
       /\ delegateCode = IF "startup" \in faults THEN SoftwareStatus
                                                 ELSE Success
  /\ stage \in Judged =>
       /\ faults \subseteq {"startup", "message", "leak"}
       /\ delegateCode = IF faults # {} THEN SoftwareStatus ELSE Success
  /\ stage = "leaving" =>
       \/ faults = {} /\ delegateCode = Success
       \/ faults = {"startup"} /\ delegateCode = SoftwareStatus
       \/ faults = {"dart"} /\ delegateCode = DartErrorStatus
  /\ stage \in BeforeEngine => ~fatal
  /\ flavor = "command" => requestedCode = Success
  /\ StatusTellsFailure

HostInv == StageOK /\ EngineOK /\ CodesOK

LEMMA HostInitially == HostInit => HostInv
BY HostAssumption
DEF HostInit, Init, HostInv, StageOK, EngineOK, CodesOK, StatusTellsFailure,
    Started, Stage, BeforeEngine, Looping, Judged, Closing, CommandStage

\* What a process that leaves before its application runs exits with.
LEMMA EarlyExit ==
  ASSUME NEW fault \in {"usage", "input", "startup"}, faults' = {fault},
         status' = CASE fault = "usage" -> UsageStatus
                     [] fault = "input" -> InputStatus
                     [] fault = "startup" -> SoftwareStatus
  PROVE  StatusTellsFailure'
BY DEF StatusTellsFailure, DueStatus

LEMMA BeforeLoopKeeps ==
  ASSUME HostInv, BeforeLoop
  PROVE  HostInv'
<1> USE DEF HostInv, StageOK, EngineOK, CodesOK, Started, Stage, BeforeEngine,
            Looping, Judged, Closing, CommandStage, earlyUnchanged, pumpVars
<1>1. CASE PreflightFails
  <2>1. StatusTellsFailure'
    BY <1>1, EarlyExit DEF PreflightFails, ExitsAfter, Exits
  <2> QED BY <1>1, <2>1 DEF PreflightFails, ExitsAfter, Exits, Runtimes
<1>2. CASE Preflight
  BY <1>2 DEF Preflight, Arguments, StatusTellsFailure
<1>3. CASE ReadArguments
  BY <1>3 DEF ReadArguments, StatusTellsFailure
<1>4. CASE ArgumentsRead
  <2>1. CASE parse.at = "accepted"
    BY <1>4, <2>1 DEF ArgumentsRead, StatusTellsFailure
  <2>2. CASE parse.at # "accepted"
    <3>1. StatusTellsFailure'
      BY <1>4, <2>2, EarlyExit DEF ArgumentsRead, ExitsAfter, Exits
    <3> QED BY <1>4, <2>2, <3>1 DEF ArgumentsRead, ExitsAfter, Exits
  <2> QED BY <2>1, <2>2
<1>5. CASE ChecksFail
  <2>1. StatusTellsFailure'
    BY <1>5, EarlyExit DEF ChecksFail, ExitsAfter, Exits
  <2> QED BY <1>5, <2>1 DEF ChecksFail, ExitsAfter, Exits, AppKitHosts, Runtimes
<1>6. CASE RunApplication
  BY <1>6 DEF RunApplication, AppKitHosts, Runtimes, StatusTellsFailure
<1> QED BY <1>1, <1>2, <1>3, <1>4, <1>5, <1>6 DEF BeforeLoop

LEMMA LaunchKeeps ==
  ASSUME HostInv, Launch
  PROVE  HostInv'
<1> USE DEF HostInv, StageOK, EngineOK, CodesOK, Started, Stage, BeforeEngine,
            Looping, Judged, Closing, CommandStage, launchUnchanged, pumpVars,
            StatusTellsFailure
<1>1. CASE PumpDoesNotStart
  BY <1>1 DEF PumpDoesNotStart, StartFails
<1>2. CASE PumpStarts
  BY <1>2 DEF PumpStarts, Start
<1>3. CASE EngineFails
  BY <1>3 DEF EngineFails, StartFails
<1>4. CASE EngineStarts
  BY <1>4 DEF EngineStarts
<1>5. CASE MainSucceeds
  BY <1>5 DEF MainSucceeds
<1>6. CASE MainFails
  BY <1>6 DEF MainFails, StartFails
<1> QED BY <1>1, <1>2, <1>3, <1>4, <1>5, <1>6 DEF Launch

LEMMA LoopKeeps ==
  ASSUME HostInv,
         \/ \E p \in Producer : EngineSchedules(p) \/ SchedulingEnds(p)
         \/ PumpTurn \/ MessageHandled
         \/ SetExitCode \/ RequestTermination
         \/ RunTerminateBlock \/ UserQuits
  PROVE  HostInv'
<1> USE DEF HostInv, StageOK, EngineOK, CodesOK, Started, Stage, BeforeEngine,
            Looping, Judged, Closing, CommandStage, pumpVars, LoopRuns
<1>1. ASSUME UNCHANGED hostVars, UNCHANGED running,
             LoopRuns \/ UNCHANGED frames
      PROVE  HostInv'
  BY <1>1 DEF hostVars, StatusTellsFailure, DueStatus
<1>2. ASSUME NEW p \in Producer, EngineSchedules(p) \/ SchedulingEnds(p)
      PROVE  HostInv'
  BY <1>1, <1>2 DEF EngineSchedules, SchedulingEnds, Enqueue, SignalAndWake
<1>3. CASE PumpTurn
  BY <1>1, <1>3 DEF PumpTurn, PerformSource, TakeMessage, EndTurn, Resignal
<1>4. CASE MessageHandled
  <2>1. /\ stage \in Looping
        /\ UNCHANGED <<flavor, stage, engine, entered, delegateCode, running,
                       requestedCode>>
    BY <1>4 DEF MessageHandled, HandlerReturns, loopUnchanged
  <2>2. \/ UNCHANGED <<fatal, faults>>
        \/ HandleMessageError
    BY <1>4 DEF MessageHandled
  <2>3. \/ (fatal' <=> fatal) /\ faults' = faults
        \/ fatal' /\ faults' = faults \cup {"message"}
    <3>1. CASE UNCHANGED <<fatal, faults>>
      BY <3>1
    <3>2. CASE HandleMessageError /\ installed
      BY <3>2 DEF HandleMessageError
    <3>3. CASE HandleMessageError /\ ~installed
      BY <3>3 DEF HandleMessageError
    <3> QED BY <2>2, <3>1, <3>2, <3>3
  <2> QED BY <2>1, <2>3 DEF StatusTellsFailure
<1>5. CASE SetExitCode
  BY <1>5 DEF SetExitCode, DartRuns, loopUnchanged, StatusTellsFailure,
     Runtimes
<1>6. CASE RequestTermination
  BY <1>6 DEF RequestTermination, DartRuns, loopUnchanged, StatusTellsFailure
<1>7. CASE RunTerminateBlock
  BY <1>7 DEF RunTerminateBlock, ShouldTerminate, launchUnchanged,
     StatusTellsFailure
<1>8. CASE UserQuits
  BY <1>8 DEF UserQuits, ShouldTerminate, launchUnchanged,
     StatusTellsFailure
<1> QED BY <1>2, <1>3, <1>4, <1>5, <1>6, <1>7, <1>8

LEMMA WillTerminateKeeps ==
  ASSUME HostInv, WillTerminate
  PROVE  HostInv'
<1> USE DEF HostInv, StageOK, EngineOK, CodesOK, Started, Stage, BeforeEngine,
            Looping, Judged, Closing, CommandStage, endUnchanged, pumpVars
<1>1. CASE JudgeExit
  BY <1>1 DEF JudgeExit, StatusTellsFailure
<1>2. CASE StopPump
  BY <1>2 DEF StopPump, Stop, StatusTellsFailure
<1>3. CASE ShutdownHost
  BY <1>3 DEF ShutdownHost, StatusTellsFailure
<1>4. CASE Complete
  <2>1. /\ stage = "complete" /\ flavor \in AppKitHosts /\ flavor' = flavor
        /\ faults' = faults /\ requestedCode' = requestedCode
        /\ faults \subseteq {"startup", "message", "leak"}
        /\ delegateCode = IF faults # {} THEN SoftwareStatus ELSE Success
    BY <1>4 DEF Complete
  <2>2. flavor # "runner" =>
          status' = IF faults # {} THEN SoftwareStatus ELSE requestedCode
    <3>1. flavor # "runner" => status' = EffectiveExitCode
      BY <1>4, <2>1 DEF Complete, Exits, AppKitHosts
    <3>2. SoftwareStatus # Success
      BY DEF SoftwareStatus, Success
    <3> QED BY <2>1, <3>1, <3>2 DEF EffectiveExitCode
  <2>3. StatusTellsFailure'
    BY <2>1, <2>2 DEF StatusTellsFailure, DueStatus
  <2> QED BY <1>4, <2>3 DEF Complete, Exits
<1> QED BY <1>1, <1>2, <1>3, <1>4 DEF WillTerminate

LEMMA CommandKeeps ==
  ASSUME HostInv, Command
  PROVE  HostInv'
<1> USE DEF HostInv, StageOK, EngineOK, CodesOK, Started, Stage, BeforeEngine,
            Looping, Judged, Closing, CommandStage, commandUnchanged, pumpVars
<1>1. CASE CommandRefuses
  <2>1. StatusTellsFailure'
    BY <1>1, EarlyExit DEF CommandRefuses, ExitsAfter, Exits
  <2> QED BY <1>1, <2>1 DEF CommandRefuses, ExitsAfter, Exits
<1>2. CASE CommandInitializes
  BY <1>2 DEF CommandInitializes, StatusTellsFailure
<1>3. CASE CommandLoadFails
  BY <1>3 DEF CommandLoadFails, StatusTellsFailure
<1>4. CASE CommandEnters
  BY <1>4 DEF CommandEnters, StatusTellsFailure
<1>5. CASE CommandInvokes
  BY <1>5 DEF CommandInvokes, StatusTellsFailure
<1>6. CASE CommandLeaves
  <2>1. /\ faults' = faults /\ status' = delegateCode
        /\ requestedCode' = Success
        /\ \/ faults = {} /\ delegateCode = Success
           \/ faults = {"startup"} /\ delegateCode = SoftwareStatus
           \/ faults = {"dart"} /\ delegateCode = DartErrorStatus
    BY <1>6 DEF CommandLeaves, Exits, AppKitHosts, Runtimes
  <2>2. StatusTellsFailure'
    BY <2>1 DEF StatusTellsFailure, DueStatus
  <2> QED BY <1>6, <2>2 DEF CommandLeaves, Exits
<1> QED BY <1>1, <1>2, <1>3, <1>4, <1>5, <1>6 DEF Command

LEMMA HostStep == HostInv /\ [HostNext]_vars => HostInv'
<1> SUFFICES ASSUME HostInv, [HostNext]_vars PROVE HostInv'
  OBVIOUS
<1>1. CASE UNCHANGED vars
  BY <1>1 DEF vars, hostVars, pumpVars, HostInv, StageOK, EngineOK, CodesOK,
     Started, StatusTellsFailure, DueStatus
<1> QED
  BY <1>1, BeforeLoopKeeps, LaunchKeeps, LoopKeeps, WillTerminateKeeps,
     CommandKeeps
  DEF HostNext

\* At each stage of each host it is settled what runs and what the exit code
\* tells.
THEOREM HostInvariant == HostSpec => []HostInv
BY HostInitially, HostStep, PTL DEF HostSpec

\* In every host Dart code on the stack, in main or in a handler, has a running
\* Engine under it until the very end, wherever a termination comes; and the
\* Engine ends after the pump unless the start failed.
THEOREM EngineAlwaysOutlivesItsUse == HostSpec => []EngineOutlivesItsUse
<1>1. HostInv => EngineOutlivesItsUse
  <2> SUFFICES ASSUME HostInv PROVE EngineOutlivesItsUse
    OBVIOUS
  <2> USE DEF HostInv, StageOK, EngineOK, Stage, BeforeEngine, Looping, Judged,
              Closing, CommandStage, Ended
  <2>1. entered /\ ~Ended => engine = "on"
    OBVIOUS
  <2>2. ASSUME Started, ~Ended, NEW d \in 1 .. Depth
        PROVE  engine = "on"
    <3>1. frames # <<>>
      BY <2>2 DEF Depth
    <3> QED BY <2>2, <3>1
  <2>3. engine = "down" /\ running => ~Started
    OBVIOUS
  <2>4. stage = "exited" => engine # "on" /\ ~running
    OBVIOUS
  <2> QED BY <2>1, <2>2, <2>3, <2>4 DEF EngineOutlivesItsUse
<1> QED BY <1>1, HostInvariant, PTL

\* Whatever fails, in whatever order, and whatever result the application
\* records, the exit status tells the failure.
THEOREM StatusAlwaysTellsFailure == HostSpec => []StatusTellsFailure
<1>1. HostInv => StatusTellsFailure
  BY DEF HostInv, CodesOK
<1> QED BY <1>1, HostInvariant, PTL

-----------------------------------------------------------------------------
(* The command line of the Runner.                                         *)

Parse == [at : {"option", "value", "rest", "accepted", "missing", "refused"},
          option : Option \cup {NoOption},
          values : [Option -> Argument],
          arguments : Seq(Argument)]

\* What the parser holds after k options with their values.
Pairs(k) ==
  /\ \A i \in 1 .. k :
       /\ argv[2 * i - 1] \in Option
       /\ argv[2 * i] # Empty
       /\ parse.values[argv[2 * i - 1]] = argv[2 * i]
  /\ \A i, j \in 1 .. k : argv[2 * i - 1] = argv[2 * j - 1] => i = j
  /\ \A o \in Option : Seen(o) => \E i \in 1 .. k : argv[2 * i - 1] = o

\* Where the parser is in the line, and what it has refused or accepted.
ParseInv ==
  /\ argv \in Seq(Argument)
  /\ parse \in Parse
  /\ parse.at = "option" =>
       /\ \E k \in 0 .. 3 : Len(argv) = 2 * k /\ Pairs(k)
       /\ parse.arguments = <<>>
  /\ parse.at = "value" =>
       /\ \E k \in 0 .. 2 :
            /\ Len(argv) = 2 * k + 1 /\ Pairs(k)
            /\ parse.option = argv[2 * k + 1]
       /\ parse.option \in Option /\ ~Seen(parse.option)
       /\ parse.arguments = <<>>
  /\ parse.at = "rest" =>
       \E k \in 0 .. 3 :
         /\ Len(argv) >= 2 * k + 1 /\ Pairs(k)
         /\ argv[2 * k + 1] = Separator
         /\ parse.arguments = SubSeq(argv, 2 * k + 2, Len(argv))
  /\ ParsesTheUsage

\* The line of the usage message, position by position.
LEMMA FitsMeans ==
  ASSUME NEW line \in Seq(Argument), NEW order \in Order
  PROVE  Fits(line, order) <=>
           /\ \A i \in 1 .. 3 : 2 * i - 1 <= Len(line) =>
                                  line[2 * i - 1] = order[i]
           /\ \A i \in 1 .. 3 : 2 * i <= Len(line) => line[2 * i] # Empty
           /\ 7 <= Len(line) => line[7] = Separator
<1> DEFINE At(i) ==
      CASE i \in {1, 3, 5} -> line[i] = order[(i + 1) \div 2]
        [] i \in {2, 4, 6} -> line[i] # Empty
        [] i = 7 -> line[i] = Separator
        [] OTHER -> TRUE
<1>1. /\ At(1) <=> line[1] = order[1]
      /\ At(3) <=> line[3] = order[2]
      /\ At(5) <=> line[5] = order[3]
  <2>1. (1 + 1) \div 2 = 1 /\ (3 + 1) \div 2 = 2 /\ (5 + 1) \div 2 = 3
    OBVIOUS
  <2> QED BY <2>1
<1>2. /\ At(2) <=> line[2] # Empty
      /\ At(4) <=> line[4] # Empty
      /\ At(6) <=> line[6] # Empty
  OBVIOUS
<1>3. At(7) <=> line[7] = Separator
  OBVIOUS
<1>4. \A i \in Nat : i > 7 => At(i)
  OBVIOUS
<1>5. Fits(line, order) <=> \A i \in 1 .. Len(line) : At(i)
  BY DEF Fits
<1> HIDE DEF At
<1>6. Len(line) \in Nat
  OBVIOUS
<1>7. (\A i \in 1 .. Len(line) : At(i)) <=>
        \A i \in 1 .. 7 : i <= Len(line) => At(i)
  BY <1>4, <1>6
<1> QED BY <1>1, <1>2, <1>3, <1>5, <1>6, <1>7

\* Three options have been given when each has.
LEMMA AllSeen ==
  ASSUME NEW k \in 0 .. 3, Pairs(k), \A o \in Option : Seen(o)
  PROVE  k = 3
<1>1. CASE k = 0
  BY <1>1 DEF Pairs, Option
<1>2. CASE k = 1
  BY <1>2 DEF Pairs, Option
<1>3. CASE k = 2
  BY <1>3 DEF Pairs, Option
<1> QED BY <1>1, <1>2, <1>3

\* After three options each has been given.
LEMMA NoneLeft ==
  ASSUME parse \in Parse, Pairs(3), NEW o \in Option
  PROVE  Seen(o)
<1>1. \A i \in {1, 2, 3} :
        /\ argv[2 * i - 1] \in Option
        /\ parse.values[argv[2 * i - 1]] # Empty
  BY DEF Pairs
<1>2. \A i, j \in {1, 2, 3} : argv[2 * i - 1] = argv[2 * j - 1] => i = j
  BY DEF Pairs
<1>3. \E i \in {1, 2, 3} : argv[2 * i - 1] = o
  BY <1>1, <1>2 DEF Option
<1> QED BY <1>1, <1>3 DEF Seen

\* One argument more.
LEMMA OneMore ==
  ASSUME argv \in Seq(Argument), NEW a \in Argument, argv' = Append(argv, a)
  PROVE  /\ argv' \in Seq(Argument)
         /\ Len(argv) \in Nat /\ Len(argv') = Len(argv) + 1
         /\ argv'[Len(argv) + 1] = a
         /\ \A i \in 1 .. Len(argv) : argv'[i] = argv[i]
OBVIOUS

LEMMA ParseInitially == ParseInit => ParseInv
<1> SUFFICES ASSUME ParseInit PROVE ParseInv
  OBVIOUS
<1>1. argv = <<>> /\ parse = Unparsed
  BY DEF ParseInit
<1>2. <<>> \in Seq(Argument) /\ Len(<<>>) = 0
  OBVIOUS
<1>3. parse \in Parse
  BY <1>1, <1>2 DEF Unparsed, Parse, Argument
<1>4. 0 \in 0 .. 3 /\ Len(argv) = 2 * 0 /\ Pairs(0)
  BY <1>1, <1>2 DEF Unparsed, Pairs, Seen
<1> QED
  BY <1>1, <1>2, <1>3, <1>4 DEF ParseInv, ParsesTheUsage, Unparsed

\* The pairs read so far stay read while the values are kept.
LEMMA PairsKept ==
  ASSUME NEW k \in 0 .. 3, Pairs(k), 2 * k <= Len(argv), Len(argv) \in Nat,
         \A i \in 1 .. Len(argv) : argv'[i] = argv[i],
         parse'.values = parse.values
  PROVE  Pairs(k)'
<1>1. \A i \in 1 .. k : 2 * i - 1 \in 1 .. Len(argv) /\ 2 * i \in 1 .. Len(argv)
  OBVIOUS
<1>2. \A i \in 1 .. k : /\ argv'[2 * i - 1] = argv[2 * i - 1]
                        /\ argv'[2 * i] = argv[2 * i]
  BY <1>1
<1>3. \A i \in 1 .. k :
        /\ argv'[2 * i - 1] \in Option
        /\ argv'[2 * i] # Empty
        /\ parse'.values[argv'[2 * i - 1]] = argv'[2 * i]
  BY <1>2 DEF Pairs
<1>4. \A i, j \in 1 .. k : argv'[2 * i - 1] = argv'[2 * j - 1] => i = j
  BY <1>2 DEF Pairs
<1>5. \A o \in Option : Seen(o)' => \E i \in 1 .. k : argv'[2 * i - 1] = o
  <2>1. \A o \in Option : Seen(o) => \E i \in 1 .. k : argv[2 * i - 1] = o
    BY DEF Pairs
  <2> QED BY <1>2, <2>1 DEF Seen
<1> QED BY <1>3, <1>4, <1>5 DEF Pairs, Seen

LEMMA ParseOptionKeeps ==
  ASSUME ParseInv, parse.at = "option", NEW a \in Argument,
         argv' = Append(argv, a), parse' = ParseOption(a)
  PROVE  ParseInv'
<1>1. argv \in Seq(Argument) /\ parse \in Parse /\ parse.arguments = <<>>
  BY DEF ParseInv
<1>2. PICK k \in 0 .. 3 : Len(argv) = 2 * k /\ Pairs(k)
  BY DEF ParseInv
<1>3. /\ argv' \in Seq(Argument)
      /\ Len(argv) \in Nat /\ Len(argv') = 2 * k + 1
      /\ argv'[2 * k + 1] = a
      /\ \A i \in 1 .. Len(argv) : argv'[i] = argv[i]
  BY <1>1, <1>2, OneMore
<1>4. CASE a = Separator
  <2>1. /\ parse' \in Parse /\ parse'.at = "rest"
        /\ parse'.values = parse.values /\ parse'.arguments = <<>>
    BY <1>1, <1>4 DEF ParseOption, Parse
  <2>2. Pairs(k)'
    BY <1>2, <1>3, <2>1, PairsKept
  <2>3. SubSeq(argv', 2 * k + 2, Len(argv')) = <<>>
    BY <1>3, SubSeqEmpty
  <2>4. Len(argv') >= 2 * k + 1 /\ argv'[2 * k + 1] = Separator
    BY <1>3, <1>4
  <2>5. /\ parse'.at # "option" /\ parse'.at # "value"
        /\ ParsesTheUsage'
    BY <2>1 DEF ParsesTheUsage
  <2> QED
    BY <1>3, <2>1, <2>2, <2>3, <2>4, <2>5 DEF ParseInv
<1>5. CASE a \in Option /\ ~Seen(a)
  <2>1. /\ parse' \in Parse /\ parse'.at = "value" /\ parse'.option = a
        /\ parse'.values = parse.values /\ parse'.arguments = <<>>
    BY <1>1, <1>5 DEF ParseOption, Parse, Option, Separator
  <2>2. Pairs(k)'
    BY <1>2, <1>3, <2>1, PairsKept
  <2>3. k \in 0 .. 2
    BY <1>1, <1>2, <1>5, NoneLeft
  <2>4. ~Seen(a)'
    BY <1>5, <2>1 DEF Seen
  <2> QED
    BY <1>3, <1>5, <2>1, <2>2, <2>3, <2>4 DEF ParseInv, ParsesTheUsage, Seen
<1>6. CASE a # Separator /\ ~(a \in Option /\ ~Seen(a))
  <2>1. parse' \in Parse /\ parse'.at = "refused"
    BY <1>1, <1>6 DEF ParseOption, Refused, Parse
  <2>2. ASSUME NEW order \in Order, Fits(argv', order) PROVE FALSE
    <3>1. \A i \in 1 .. 3 : 2 * i - 1 <= Len(argv') =>
                              argv'[2 * i - 1] = order[i]
      BY <1>3, <2>2, FitsMeans
    <3>2. CASE k = 3
      <4>1. 7 <= Len(argv') => argv'[7] = Separator
        BY <1>3, <2>2, FitsMeans
      <4> QED BY <1>3, <1>6, <3>2, <4>1
    <3>3. CASE k \in 0 .. 2
      <4>1. a = order[k + 1] /\ order[k + 1] \in Option
        BY <1>3, <3>1, <3>3 DEF Order
      <4>2. PICK i \in 1 .. k : argv[2 * i - 1] = a
        BY <1>2, <1>6, <4>1 DEF Pairs
      <4>3. order[i] = a
        BY <1>2, <1>3, <3>1, <3>3, <4>2
      <4> QED BY <3>3, <4>1, <4>3 DEF Order
    <3> QED BY <1>2, <3>2, <3>3
  <2> QED BY <1>3, <2>1, <2>2 DEF ParseInv, ParsesTheUsage
<1> QED BY <1>4, <1>5, <1>6

LEMMA ParseValueKeeps ==
  ASSUME ParseInv, parse.at = "value", NEW a \in Argument,
         argv' = Append(argv, a), parse' = ParseValue(a)
  PROVE  ParseInv'
<1>1. /\ argv \in Seq(Argument) /\ parse \in Parse /\ parse.arguments = <<>>
      /\ parse.option \in Option /\ ~Seen(parse.option)
  BY DEF ParseInv
<1>2. PICK k \in 0 .. 2 : /\ Len(argv) = 2 * k + 1 /\ Pairs(k)
                          /\ parse.option = argv[2 * k + 1]
  BY DEF ParseInv
<1>3. /\ argv' \in Seq(Argument)
      /\ Len(argv) \in Nat /\ Len(argv') = 2 * k + 2
      /\ argv'[2 * k + 2] = a
      /\ \A i \in 1 .. Len(argv) : argv'[i] = argv[i]
  BY <1>1, <1>2, OneMore
<1>4. CASE a = Empty
  <2>1. parse' \in Parse /\ parse'.at = "refused"
    BY <1>1, <1>4 DEF ParseValue, Refused, Parse
  <2>2. ASSUME NEW order \in Order, Fits(argv', order) PROVE FALSE
    <3>1. \A i \in 1 .. 3 : 2 * i <= Len(argv') => argv'[2 * i] # Empty
      BY <1>3, <2>2, FitsMeans
    <3>2. k + 1 \in 1 .. 3 /\ 2 * (k + 1) = Len(argv')
      BY <1>3
    <3>3. argv'[2 * (k + 1)] = a
      BY <1>3
    <3> QED BY <1>3, <1>4, <3>1, <3>2, <3>3
  <2> QED BY <1>3, <2>1, <2>2 DEF ParseInv, ParsesTheUsage
<1>5. CASE a # Empty
  <2> DEFINE o == parse.option
  <2>1. /\ parse' \in Parse /\ parse'.at = "option" /\ parse'.arguments = <<>>
        /\ parse'.values = [parse.values EXCEPT ![o] = a]
    BY <1>1, <1>5 DEF ParseValue, Parse, Argument
  <2>2. \A q \in Option : parse'.values[q] = IF q = o THEN a
                                             ELSE parse.values[q]
    BY <1>1, <2>1 DEF Parse
  <2>3. \A i \in 1 .. k : /\ argv'[2 * i - 1] = argv[2 * i - 1]
                          /\ argv'[2 * i] = argv[2 * i]
                          /\ argv[2 * i - 1] \in Option
                          /\ argv[2 * i] # Empty
                          /\ parse.values[argv[2 * i - 1]] = argv[2 * i]
    BY <1>2, <1>3 DEF Pairs
  <2>4. \A i \in 1 .. k : argv[2 * i - 1] # o
    BY <1>1, <2>3 DEF Seen
  <2>5. argv'[2 * (k + 1) - 1] = o /\ argv'[2 * (k + 1)] = a
    BY <1>2, <1>3
  <2>6. \A i \in 1 .. k + 1 : i \in 1 .. k \/ i = k + 1
    OBVIOUS
  <2>7. (Pairs(k + 1))'
    <3>1. \A i \in 1 .. k + 1 :
            /\ argv'[2 * i - 1] \in Option
            /\ argv'[2 * i] # Empty
            /\ parse'.values[argv'[2 * i - 1]] = argv'[2 * i]
      <4>1. ASSUME NEW i \in 1 .. k
            PROVE  /\ argv'[2 * i - 1] \in Option
                   /\ argv'[2 * i] # Empty
                   /\ parse'.values[argv'[2 * i - 1]] = argv'[2 * i]
        BY <2>2, <2>3, <2>4
      <4>2. /\ argv'[2 * (k + 1) - 1] \in Option
            /\ argv'[2 * (k + 1)] # Empty
            /\ parse'.values[argv'[2 * (k + 1) - 1]] = argv'[2 * (k + 1)]
        BY <1>1, <1>5, <2>2, <2>5
      <4> QED BY <2>6, <4>1, <4>2
    <3>2. \A i, j \in 1 .. k + 1 :
            argv'[2 * i - 1] = argv'[2 * j - 1] => i = j
      <4>1. \A i, j \in 1 .. k : argv[2 * i - 1] = argv[2 * j - 1] => i = j
        BY <1>2 DEF Pairs
      <4>2. ASSUME NEW i \in 1 .. k + 1, NEW j \in 1 .. k + 1,
                   argv'[2 * i - 1] = argv'[2 * j - 1]
            PROVE  i = j
        <5>1. CASE i \in 1 .. k /\ j \in 1 .. k
          BY <2>3, <4>1, <4>2, <5>1
        <5>2. CASE i \in 1 .. k /\ j = k + 1
          BY <2>3, <2>4, <2>5, <4>2, <5>2
        <5>3. CASE i = k + 1 /\ j \in 1 .. k
          BY <2>3, <2>4, <2>5, <4>2, <5>3
        <5>4. CASE i = k + 1 /\ j = k + 1
          BY <5>4
        <5> QED BY <2>6, <5>1, <5>2, <5>3, <5>4
      <4> QED BY <4>2
    <3>3. ASSUME NEW q \in Option, parse'.values[q] # Empty
          PROVE  \E i \in 1 .. k + 1 : argv'[2 * i - 1] = q
      <4>1. CASE q = o
        <5>1. k + 1 \in 1 .. k + 1
          OBVIOUS
        <5> QED BY <2>5, <4>1, <5>1
      <4>2. CASE q # o
        <5>1. PICK i \in 1 .. k : argv[2 * i - 1] = q
          BY <1>2, <2>2, <3>3, <4>2 DEF Pairs, Seen
        <5>2. i \in 1 .. k + 1
          OBVIOUS
        <5>3. argv'[2 * i - 1] = argv[2 * i - 1]
          BY <2>3
        <5> QED BY <5>1, <5>2, <5>3
      <4> QED BY <4>1, <4>2
    <3> QED BY <3>1, <3>2, <3>3 DEF Pairs, Seen
  <2>8. k + 1 \in 0 .. 3 /\ Len(argv') = 2 * (k + 1)
    BY <1>3
  <2> QED BY <1>3, <2>1, <2>7, <2>8 DEF ParseInv, ParsesTheUsage
<1> QED BY <1>4, <1>5

LEMMA ParseRestKeeps ==
  ASSUME ParseInv, parse.at = "rest", NEW a \in Argument,
         argv' = Append(argv, a),
         parse' = [parse EXCEPT !.arguments = Append(@, a)]
  PROVE  ParseInv'
<1>1. argv \in Seq(Argument) /\ parse \in Parse
  BY DEF ParseInv
<1>2. PICK k \in 0 .. 3 :
        /\ Len(argv) >= 2 * k + 1 /\ Pairs(k)
        /\ argv[2 * k + 1] = Separator
        /\ parse.arguments = SubSeq(argv, 2 * k + 2, Len(argv))
  BY DEF ParseInv
<1>3. /\ argv' \in Seq(Argument)
      /\ Len(argv) \in Nat /\ Len(argv') = Len(argv) + 1
      /\ argv'[Len(argv) + 1] = a
      /\ \A i \in 1 .. Len(argv) : argv'[i] = argv[i]
  BY <1>1, OneMore
<1>4. /\ parse' \in Parse /\ parse'.at = "rest"
      /\ parse'.values = parse.values
      /\ parse'.arguments = Append(parse.arguments, a)
  <2>1. parse.arguments \in Seq(Argument)
    BY <1>1 DEF Parse
  <2>2. Append(parse.arguments, a) \in Seq(Argument)
    BY <2>1
  <2> HIDE DEF Argument
  <2> QED BY <1>1, <2>2 DEF Parse
<1>5. Pairs(k)'
  BY <1>2, <1>3, <1>4, PairsKept
<1>6. parse'.arguments = SubSeq(argv', 2 * k + 2, Len(argv'))
  <2> DEFINE m == 2 * k + 2
             n == Len(argv)
  <2>1. m \in Nat \ {0} /\ n \in Nat /\ m <= n + 1
    BY <1>2, <1>3
  <2>2. \A i \in m .. n : argv[i] \in Argument
    BY <1>1, <2>1
  <2>3. \A i \in m .. n + 1 : argv'[i] \in Argument
    BY <1>3, <2>1
  <2> HIDE DEF m
  <2>4. /\ SubSeq(argv, m, n) \in Seq(Argument)
        /\ Len(SubSeq(argv, m, n)) = IF m <= n THEN n - m + 1 ELSE 0
        /\ \A i \in 1 .. n - m + 1 : SubSeq(argv, m, n)[i] = argv[m + i - 1]
    BY <2>1, <2>2, SubSeqProperties
  <2>5. /\ SubSeq(argv', m, n + 1) \in Seq(Argument)
        /\ Len(SubSeq(argv', m, n + 1)) = n + 1 - m + 1
        /\ \A i \in 1 .. n + 1 - m + 1 :
              SubSeq(argv', m, n + 1)[i] = argv'[m + i - 1]
    BY <2>1, <2>3, SubSeqProperties
  <2> DEFINE s == SubSeq(argv, m, n)
             t == SubSeq(argv', m, n + 1)
  <2>6. Len(s) = n - m + 1
    BY <2>1, <2>4
  <2>7. \A i \in 1 .. n - m + 1 : t[i] = s[i]
    BY <1>3, <2>1, <2>4, <2>5
  <2>8. t[n - m + 2] = a
    BY <1>3, <2>1, <2>5
  <2>9. s \in Seq(Argument) /\ t \in Seq(Argument) /\ Len(t) = Len(s) + 1
    BY <2>1, <2>4, <2>5, <2>6
  <2> HIDE DEF s, t
  <2>10. t = Append(s, a)
    <3>1. /\ Append(s, a) \in Seq(Argument)
          /\ Len(Append(s, a)) = Len(s) + 1
          /\ \A i \in 1 .. Len(s) : Append(s, a)[i] = s[i]
          /\ Append(s, a)[Len(s) + 1] = a
      BY <2>9
    <3>2. \A i \in 1 .. Len(s) + 1 : t[i] = Append(s, a)[i]
      BY <2>1, <2>6, <2>7, <2>8, <3>1
    <3> QED BY <2>9, <3>1, <3>2, SeqEqual
  <2>11. parse.arguments = s /\ t = SubSeq(argv', 2 * k + 2, Len(argv'))
    BY <1>2, <1>3 DEF s, t, m
  <2> QED BY <1>4, <2>10, <2>11
<1>7. Len(argv') >= 2 * k + 1 /\ argv'[2 * k + 1] = Separator
  BY <1>2, <1>3
<1> QED BY <1>3, <1>4, <1>5, <1>6, <1>7 DEF ParseInv, ParsesTheUsage

LEMMA EndArgumentsKeeps ==
  ASSUME ParseInv, EndArguments
  PROVE  ParseInv'
<1>1. /\ argv \in Seq(Argument) /\ parse \in Parse /\ argv' = argv
      /\ Len(argv) \in Nat
  BY DEF ParseInv, EndArguments
<1>2. CASE parse.at # "value" /\ \A o \in Option : Seen(o)
  <2>1. /\ parse' \in Parse /\ parse'.at = "accepted"
        /\ parse'.values = parse.values /\ parse'.arguments = parse.arguments
    BY <1>1, <1>2 DEF EndArguments, Parse
  <2>2. /\ parse.at \in {"option", "rest"}
        /\ Pairs(3)
        /\ \/ Len(argv) = 6 /\ parse.arguments = <<>>
           \/ /\ Len(argv) >= 7 /\ argv[7] = Separator
              /\ parse.arguments = SubSeq(argv, 8, Len(argv))
    <3>1. CASE parse.at = "option"
      <4>1. PICK k \in 0 .. 3 : Len(argv) = 2 * k /\ Pairs(k)
        BY <3>1 DEF ParseInv
      <4>2. k = 3
        BY <1>2, <4>1, AllSeen
      <4> QED BY <3>1, <4>1, <4>2 DEF ParseInv
    <3>2. CASE parse.at = "rest"
      <4>1. PICK k \in 0 .. 3 :
              /\ Len(argv) >= 2 * k + 1 /\ Pairs(k)
              /\ argv[2 * k + 1] = Separator
              /\ parse.arguments = SubSeq(argv, 2 * k + 2, Len(argv))
        BY <3>2 DEF ParseInv
      <4>2. k = 3
        BY <1>2, <4>1, AllSeen
      <4> QED BY <3>2, <4>1, <4>2
    <3> QED BY <1>2, <3>1, <3>2 DEF EndArguments
  <2>3. parse.arguments = SubSeq(argv, 8, Len(argv))
    <3>1. CASE Len(argv) = 6 /\ parse.arguments = <<>>
      BY <3>1, SubSeqEmpty
    <3> QED BY <2>2, <3>1
  <2> DEFINE order == [i \in 1 .. 3 |-> argv[2 * i - 1]]
  <2>4. /\ \A i \in 1 .. 3 : /\ argv[2 * i - 1] \in Option
                             /\ argv[2 * i] # Empty
                             /\ parse.values[argv[2 * i - 1]] = argv[2 * i]
        /\ \A i, j \in 1 .. 3 : argv[2 * i - 1] = argv[2 * j - 1] => i = j
    BY <2>2 DEF Pairs
  <2>5. order \in Order
    BY <2>4 DEF Order
  <2>6. Fits(argv, order)
    <3>1. \A i \in 1 .. 3 : 2 * i - 1 <= Len(argv) =>
                              argv[2 * i - 1] = order[i]
      OBVIOUS
    <3>2. \A i \in 1 .. 3 : 2 * i <= Len(argv) => argv[2 * i] # Empty
      BY <2>4
    <3>3. 7 <= Len(argv) => argv[7] = Separator
      BY <1>1, <2>2
    <3> HIDE DEF order
    <3> QED BY <1>1, <2>5, <3>1, <3>2, <3>3, FitsMeans
  <2>7. \A i \in 1 .. 3 : parse.values[order[i]] = argv[2 * i]
    BY <2>4
  <2> HIDE DEF order
  <2>8. ParsesTheUsage'
    BY <1>1, <2>1, <2>2, <2>3, <2>5, <2>6, <2>7 DEF ParsesTheUsage, Fits
  <2> QED BY <1>1, <2>1, <2>8 DEF ParseInv
<1>3. CASE ~(parse.at # "value" /\ \A o \in Option : Seen(o))
  <2>1. parse' \in Parse /\ parse'.at = "missing"
    BY <1>1, <1>3 DEF EndArguments, Parse
  <2>2. ASSUME NEW order \in Order, Fits(argv, order)
        PROVE  Len(argv) < 6
    <3>1. CASE parse.at = "value"
      <4>1. PICK k \in 0 .. 2 : Len(argv) = 2 * k + 1
        BY <3>1 DEF ParseInv
      <4> QED BY <4>1
    <3>2. CASE parse.at = "option"
      <4>1. PICK k \in 0 .. 3 : Len(argv) = 2 * k /\ Pairs(k)
        BY <3>2 DEF ParseInv
      <4>2. k # 3
        BY <1>1, <1>3, <3>2, <4>1, NoneLeft
      <4> QED BY <4>1, <4>2
    <3>3. CASE parse.at = "rest"
      <4>1. PICK k \in 0 .. 3 : /\ Len(argv) >= 2 * k + 1 /\ Pairs(k)
                                /\ argv[2 * k + 1] = Separator
        BY <3>3 DEF ParseInv
      <4>2. k # 3
        BY <1>1, <1>3, <3>3, <4>1, NoneLeft
      <4>3. \A i \in 1 .. 3 : 2 * i - 1 <= Len(argv) =>
                                argv[2 * i - 1] = order[i]
        BY <1>1, <2>2, FitsMeans
      <4>4. k + 1 \in 1 .. 3 /\ 2 * (k + 1) - 1 = 2 * k + 1
        BY <4>2
      <4>5. order[k + 1] = Separator
        BY <4>1, <4>3, <4>4
      <4>6. order[k + 1] \in Option
        BY <4>4 DEF Order
      <4> QED BY <4>5, <4>6 DEF Option, Separator
    <3> QED BY <3>1, <3>2, <3>3 DEF EndArguments
  <2>3. ParsesTheUsage'
    BY <1>1, <2>1, <2>2 DEF ParsesTheUsage, Fits
  <2> QED BY <1>1, <2>1, <2>3 DEF ParseInv
<1> QED BY <1>2, <1>3

LEMMA ReadArgumentKeeps ==
  ASSUME ParseInv, ReadArgument
  PROVE  ParseInv'
<1>1. PICK a \in Argument :
        /\ argv' = Append(argv, a)
        /\ parse' = CASE parse.at = "option" -> ParseOption(a)
                      [] parse.at = "value" -> ParseValue(a)
                      [] parse.at = "rest" ->
                           [parse EXCEPT !.arguments = Append(@, a)]
  BY DEF ReadArgument, Uninterpreted, Argument
<1>2. CASE parse.at = "option"
  BY <1>1, <1>2, ParseOptionKeeps
<1>3. CASE parse.at = "value"
  BY <1>1, <1>3, ParseValueKeeps
<1>4. CASE parse.at = "rest"
  BY <1>1, <1>4, ParseRestKeeps
<1> QED BY <1>2, <1>3, <1>4 DEF ReadArgument

LEMMA ParseStep == ParseInv /\ [HostNext]_vars => ParseInv'
<1> SUFFICES ASSUME ParseInv, [HostNext]_vars PROVE ParseInv'
  OBVIOUS
<1>1. CASE UNCHANGED parseVars
  <2>1. argv' = argv /\ parse' = parse
    BY <1>1 DEF parseVars
  <2>2. \A k \in 0 .. 3 : Pairs(k)' <=> Pairs(k)
    BY <2>1 DEF Pairs, Seen
  <2>3. \A o : Seen(o)' <=> Seen(o)
    BY <2>1 DEF Seen
  <2>4. ParsesTheUsage'
    BY <2>1 DEF ParseInv, ParsesTheUsage, Fits
  <2>5. parse.at = "option" =>
          \E k \in 0 .. 3 : Len(argv) = 2 * k /\ Pairs(k)'
    BY <2>2 DEF ParseInv
  <2>6. parse.at = "value" =>
          \E k \in 0 .. 2 : /\ Len(argv) = 2 * k + 1 /\ Pairs(k)'
                           /\ parse.option = argv[2 * k + 1]
    BY <2>2 DEF ParseInv
  <2>7. parse.at = "rest" =>
          \E k \in 0 .. 3 :
            /\ Len(argv) >= 2 * k + 1 /\ Pairs(k)'
            /\ argv[2 * k + 1] = Separator
            /\ parse.arguments = SubSeq(argv, 2 * k + 2, Len(argv))
    BY <2>2 DEF ParseInv
  <2> QED
    BY <2>1, <2>3, <2>4, <2>5, <2>6, <2>7 DEF ParseInv
<1>2. CASE ReadArguments
  BY <1>2, ReadArgumentKeeps, EndArgumentsKeeps
  DEF ReadArguments, ParseRunnerArguments
<1>3. CASE ArgumentsRead
  <2>1. ParseInit => ParseInv
    BY ParseInitially
  <2>2. argv' = <<>> /\ parse' = Unparsed
    BY <1>3 DEF ArgumentsRead
  <2>3. Len(<<>>) = 0 /\ <<>> \in Seq(Argument)
    OBVIOUS
  <2>4. parse' \in Parse
    BY <2>2, <2>3 DEF Unparsed, Parse, Argument
  <2>5. 0 \in 0 .. 3 /\ Len(argv') = 2 * 0 /\ Pairs(0)'
    BY <2>2, <2>3 DEF Unparsed, Pairs, Seen
  <2> QED
    BY <2>2, <2>3, <2>4, <2>5 DEF ParseInv, ParsesTheUsage, Unparsed
<1>4. ReadArguments \/ ArgumentsRead \/ UNCHANGED parseVars
  <2> USE DEF earlyUnchanged, launchUnchanged, loopUnchanged, endUnchanged,
              commandUnchanged
  <2>1. BeforeLoop => ReadArguments \/ ArgumentsRead \/ UNCHANGED parseVars
    BY DEF BeforeLoop, PreflightFails, Preflight, ChecksFail, RunApplication
  <2>2. Launch => UNCHANGED parseVars
    BY DEF Launch, PumpDoesNotStart, PumpStarts, EngineFails, EngineStarts,
           MainSucceeds, MainFails
  <2>3. \A p \in Producer : EngineSchedules(p) \/ SchedulingEnds(p)
                              => UNCHANGED parseVars
    BY DEF EngineSchedules, SchedulingEnds
  <2>4. PumpTurn \/ MessageHandled => UNCHANGED parseVars
    BY DEF PumpTurn, MessageHandled
  <2>5. SetExitCode \/ RequestTermination \/ RunTerminateBlock \/ UserQuits
          => UNCHANGED parseVars
    BY DEF SetExitCode, RequestTermination, RunTerminateBlock, UserQuits
  <2>6. WillTerminate => UNCHANGED parseVars
    BY DEF WillTerminate, JudgeExit, StopPump, ShutdownHost, Complete
  <2>7. Command => UNCHANGED parseVars
    BY DEF Command, CommandRefuses, CommandInitializes, CommandLoadFails,
           CommandEnters, CommandInvokes, CommandLeaves
  <2> QED
    BY <2>1, <2>2, <2>3, <2>4, <2>5, <2>6, <2>7 DEF HostNext, vars
<1> QED BY <1>1, <1>2, <1>3, <1>4

\* The parser accepts the lines of the usage message and no other, with the
\* options in any order and any number of arguments for the application, and
\* refuses early only what cannot become one of them.
THEOREM AlwaysParsesTheUsage == HostSpec => []ParsesTheUsage
<1>1. HostInit => ParseInv
  BY ParseInitially DEF HostInit
<1>2. ParseInv => ParsesTheUsage
  BY DEF ParseInv
<1> QED BY <1>1, <1>2, ParseStep, PTL DEF HostSpec

=============================================================================
