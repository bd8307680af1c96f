----------------------------- MODULE BridgeProofs -----------------------------
(* The bridge, for every table size, generation limit and set of objects,    *)
(* kinds, threads and process results, and for any number of requests: the   *)
(* object registry keeps its table exact and implements the handle lease;    *)
(* however many threads race for however many handles, an object is torn     *)
(* down at most once, the shutdown sweep misses none, and no block outlives  *)
(* the incarnation it was queued in; AppKit never waits for an answer that   *)
(* cannot come, and an application that defers termination ends only with    *)
(* the consent of Dart.                                                      *)
EXTENDS ReleaseProtocol, TerminationProtocol, FiniteSetTheorems,
        SequenceTheorems, TLAPS

-----------------------------------------------------------------------------
(* The object registry.                                                      *)

(* The registry invariant holds initially. *)
LEMMA InitRegistryInv == RegistryInit => RegistryInv
<1> SUFFICES ASSUME RegistryInit PROVE RegistryInv
  OBVIOUS
<1> USE RegistryAssumption DEF RegistryInit
<1>1. TypeOK
  <2>1. freeIndices \in Seq(Index)
    OBVIOUS
  <2>2. 1 \in Generation /\ "window" \in ObjectKind /\ "free" \in SlotState
    BY DEF Generation, ObjectKind, SlotState
  <2>3. size \in 0 .. MaxSlots /\ liveCount \in Int
    OBVIOUS
  <2>6. cleared \in BOOLEAN
    OBVIOUS
  <2>4. object \in [Index -> Object \cup {Nil}]
    OBVIOUS
  <2>5. /\ kind \in [Index -> ObjectKind]
        /\ generation \in [Index -> Generation]
        /\ state \in [Index -> SlotState]
    BY <2>2
  <2> HIDE DEF RegistryInit
  <2> QED BY <2>1, <2>3, <2>4, <2>5, <2>6 DEF TypeOK
<1>2. FreshTail /\ ObjectMatchesState /\ RetiredOnlyWhenSpent
  BY DEF FreshTail, ObjectMatchesState, RetiredOnlyWhenSpent, Occupied
<1>3. Len(freeIndices) = 0 /\ size = 0
  OBVIOUS
<1>4. FreeListExact
  BY <1>3 DEF FreeListExact
<1> QED BY <1>1, <1>2, <1>4 DEF RegistryInv

(* Filling the most recently freed slot preserves the registry invariant. *)
LEMMA InsertReusedInv ==
  ASSUME RegistryInv, NEW t \in Thread, NEW o \in Object, NEW k \in Kind,
         InsertReused(t, o, k)
  PROVE  RegistryInv'
<1> DEFINE n == Len(freeIndices)
           i == freeIndices[n]
<1> USE RegistryAssumption
<1>1. /\ n \in Nat \ {0}
      /\ i \in Index
      /\ i <= size
      /\ state[i] = "free"
  BY DEF InsertReused, RegistryInv, TypeOK, FreeListExact
<1>2. /\ Len(freeIndices') = n - 1
      /\ \A j \in 1 .. (n - 1) : freeIndices'[j] = freeIndices[j]
      /\ freeIndices' \in Seq(Index)
  <2>1. freeIndices \in Seq(Index)
    BY DEF RegistryInv, TypeOK
  <2>2. freeIndices' = SubSeq(freeIndices, 1, n - 1)
    BY DEF InsertReused
  <2>3. \A j \in 1 .. (n - 1) : freeIndices[j] \in Index
    BY <1>1, <2>1
  <2> HIDE DEF n, i
  <2>4. /\ SubSeq(freeIndices, 1, n - 1) \in Seq(Index)
        /\ Len(SubSeq(freeIndices, 1, n - 1)) =
             IF 1 <= n - 1 THEN (n - 1) - 1 + 1 ELSE 0
        /\ \A j \in 1 .. (n - 1) - 1 + 1 :
             SubSeq(freeIndices, 1, n - 1)[j] = freeIndices[1 + j - 1]
    BY <1>1, <2>3, SubSeqProperties
  <2> QED BY <1>1, <2>2, <2>4
<1>3. TypeOK'
  BY <1>1, <1>2
     DEF InsertReused, FillSlot, RegistryInv, TypeOK, SlotState
<1>4. FreshTail'
  BY <1>1 DEF InsertReused, FillSlot, RegistryInv, TypeOK, FreshTail, Index
<1>5. ObjectMatchesState'
  BY <1>1
     DEF InsertReused, FillSlot, RegistryInv, TypeOK, ObjectMatchesState,
         Occupied
<1>6. FreeListExact'
  <2>1. \A j \in 1 .. (n - 1) : freeIndices[j] # i
    BY <1>1 DEF RegistryInv, FreeListExact
  <2>2. \A j \in 1 .. Len(freeIndices') :
          freeIndices'[j] <= size' /\ state'[freeIndices'[j]] = "free"
    BY <1>1, <1>2, <2>1
       DEF InsertReused, FillSlot, RegistryInv, TypeOK, FreeListExact
  <2>3. \A m \in 1 .. size' : state'[m] = "free" =>
          \E j \in 1 .. Len(freeIndices') : freeIndices'[j] = m
    <3> SUFFICES ASSUME NEW m \in 1 .. size', state'[m] = "free"
                 PROVE  \E j \in 1 .. Len(freeIndices') : freeIndices'[j] = m
      OBVIOUS
    <3>1. m # i /\ m \in 1 .. size /\ state[m] = "free"
      BY <1>1 DEF InsertReused, FillSlot, RegistryInv, TypeOK, Index
    <3>2. PICK j \in 1 .. n : freeIndices[j] = m
      BY <3>1 DEF RegistryInv, FreeListExact
    <3>3. j \in 1 .. (n - 1)
      BY <3>1, <3>2, <1>1
    <3> QED BY <3>2, <3>3, <1>1, <1>2
  <2>4. \A j, m \in 1 .. Len(freeIndices') :
          freeIndices'[j] = freeIndices'[m] => j = m
    BY <1>1, <1>2 DEF RegistryInv, FreeListExact
  <2> QED BY <2>2, <2>3, <2>4 DEF FreeListExact
<1>7. RetiredOnlyWhenSpent'
  BY <1>1
     DEF InsertReused, FillSlot, RegistryInv, TypeOK, RetiredOnlyWhenSpent
<1> QED BY <1>3, <1>4, <1>5, <1>6, <1>7 DEF RegistryInv

(* Filling a fresh slot at the end of the table preserves the invariant. *)
LEMMA InsertAppendedInv ==
  ASSUME RegistryInv, NEW t \in Thread, NEW o \in Object, NEW k \in Kind,
         InsertAppended(t, o, k)
  PROVE  RegistryInv'
<1> USE RegistryAssumption
<1>1. size + 1 \in Index
  BY DEF InsertAppended, Exhausted, RegistryInv, TypeOK, Index
<1>2. Len(freeIndices) = 0
  BY DEF InsertAppended
<1>3. TypeOK'
  BY <1>1
     DEF InsertAppended, FillSlot, RegistryInv, TypeOK, SlotState, Index
<1>4. FreshTail'
  BY <1>1 DEF InsertAppended, FillSlot, RegistryInv, TypeOK, FreshTail, Index
<1>5. ObjectMatchesState'
  BY <1>1
     DEF InsertAppended, FillSlot, RegistryInv, TypeOK, ObjectMatchesState,
         Occupied
<1>6. FreeListExact'
  <2>1. \A m \in 1 .. size : state[m] # "free"
    BY <1>2 DEF RegistryInv, FreeListExact
  <2> QED
    BY <1>1, <1>2, <2>1
       DEF InsertAppended, FillSlot, RegistryInv, TypeOK, FreeListExact, Index
<1>7. RetiredOnlyWhenSpent'
  BY <1>1
     DEF InsertAppended, FillSlot, RegistryInv, TypeOK, RetiredOnlyWhenSpent
<1> QED BY <1>3, <1>4, <1>5, <1>6, <1>7 DEF RegistryInv

(* Claiming a live handle preserves the registry invariant. *)
LEMMA BeginReleaseInv ==
  ASSUME RegistryInv, NEW h \in Handle, BeginRelease(h)
  PROVE  RegistryInv'
<1> USE RegistryAssumption
<1>1. h[1] \in Index /\ h[1] \in 1 .. size /\ state[h[1]] = "live"
  BY DEF BeginRelease, Validated, Handle
<1>2. TypeOK'
  BY <1>1 DEF BeginRelease, RegistryInv, TypeOK, SlotState
<1>3. FreshTail' /\ ObjectMatchesState' /\ RetiredOnlyWhenSpent'
  BY <1>1
     DEF BeginRelease, RegistryInv, TypeOK, FreshTail, ObjectMatchesState,
         RetiredOnlyWhenSpent, Occupied, Index
<1>4. FreeListExact'
  BY <1>1 DEF BeginRelease, RegistryInv, TypeOK, FreeListExact
<1> QED BY <1>2, <1>3, <1>4 DEF RegistryInv

(* Recycling or retiring a claimed slot preserves the registry invariant. *)
LEMMA CompleteReleaseInv ==
  ASSUME RegistryInv, NEW t \in Thread, NEW h \in Handle,
         CompleteRelease(t, h)
  PROVE  RegistryInv'
<1> DEFINE i == h[1]
<1> USE RegistryAssumption
<1>1. /\ i \in Index /\ i \in 1 .. size
      /\ state[i] = "releasePending"
      /\ object[i] # Nil
  BY DEF CompleteRelease, Validated, Handle
<1>2. CASE generation[i] >= MaxGeneration
  <2>1. /\ state' = [state EXCEPT ![i] = "retired"]
        /\ UNCHANGED <<generation, freeIndices, size, kind, cleared>>
        /\ object' = [object EXCEPT ![i] = Nil]
        /\ liveCount' = liveCount - 1
    BY <1>2 DEF CompleteRelease
  <2>2. generation[i] = MaxGeneration
    BY <1>1, <1>2 DEF RegistryInv, TypeOK, Generation
  <2>3. TypeOK'
    BY <1>1, <2>1 DEF RegistryInv, TypeOK, SlotState
  <2>4. FreshTail' /\ ObjectMatchesState' /\ RetiredOnlyWhenSpent'
    BY <1>1, <2>1, <2>2
       DEF RegistryInv, TypeOK, FreshTail, ObjectMatchesState,
           RetiredOnlyWhenSpent, Occupied, Index
  <2>5. FreeListExact'
    BY <1>1, <2>1 DEF RegistryInv, TypeOK, FreeListExact
  <2> QED BY <2>3, <2>4, <2>5 DEF RegistryInv
<1>3. CASE generation[i] < MaxGeneration
  <2> DEFINE n == Len(freeIndices)
  <2>1. /\ state' = [state EXCEPT ![i] = "free"]
        /\ generation' = [generation EXCEPT ![i] = @ + 1]
        /\ freeIndices' = Append(freeIndices, i)
        /\ UNCHANGED <<size, kind, cleared>>
        /\ object' = [object EXCEPT ![i] = Nil]
        /\ liveCount' = liveCount - 1
    BY <1>1, <1>3 DEF CompleteRelease, RegistryInv, TypeOK, Generation
  <2>2. TypeOK'
    BY <1>1, <1>3, <2>1 DEF RegistryInv, TypeOK, SlotState, Generation
  <2>3. FreshTail' /\ ObjectMatchesState' /\ RetiredOnlyWhenSpent'
    BY <1>1, <2>1
       DEF RegistryInv, TypeOK, FreshTail, ObjectMatchesState,
           RetiredOnlyWhenSpent, Occupied, Index
  <2>4. /\ n \in Nat
        /\ Len(freeIndices') = n + 1
        /\ freeIndices'[n + 1] = i
        /\ \A j \in 1 .. n : freeIndices'[j] = freeIndices[j]
    BY <1>1, <2>1 DEF RegistryInv, TypeOK
  <2>5. \A j \in 1 .. n : freeIndices[j] # i
    BY <1>1 DEF RegistryInv, FreeListExact
  <2>6. FreeListExact'
    <3>1. \A j \in 1 .. Len(freeIndices') :
            freeIndices'[j] <= size' /\ state'[freeIndices'[j]] = "free"
      BY <1>1, <2>1, <2>4, <2>5 DEF RegistryInv, TypeOK, FreeListExact
    <3>2. \A m \in 1 .. size' : state'[m] = "free" =>
            \E j \in 1 .. Len(freeIndices') : freeIndices'[j] = m
      <4> SUFFICES ASSUME NEW m \in 1 .. size', state'[m] = "free"
                   PROVE  \E j \in 1 .. (n + 1) : freeIndices'[j] = m
        BY <2>4
      <4>1. CASE m = i
        BY <4>1, <2>4
      <4>2. CASE m # i
        <5>1. m \in 1 .. size /\ state[m] = "free"
          BY <1>1, <2>1, <4>2 DEF RegistryInv, TypeOK, Index
        <5>2. PICK j \in 1 .. n : freeIndices[j] = m
          BY <5>1 DEF RegistryInv, FreeListExact
        <5> QED BY <5>2, <2>4
      <4> QED BY <4>1, <4>2
    <3>3. \A j, m \in 1 .. Len(freeIndices') :
            freeIndices'[j] = freeIndices'[m] => j = m
      BY <2>4, <2>5 DEF RegistryInv, FreeListExact
    <3> QED BY <3>1, <3>2, <3>3 DEF FreeListExact
  <2> QED BY <2>2, <2>3, <2>6 DEF RegistryInv
<1> QED BY <1>1, <1>2, <1>3 DEF RegistryInv, TypeOK, Generation

(* Dropping the table re-establishes the registry invariant. *)
LEMMA ClearInv == ASSUME Clear PROVE RegistryInv'
<1> USE RegistryAssumption DEF Clear
<1>1. TypeOK'
  BY DEF TypeOK, Index, Generation, ObjectKind, SlotState
<1>2. FreshTail' /\ ObjectMatchesState' /\ RetiredOnlyWhenSpent'
  BY DEF FreshTail, ObjectMatchesState, RetiredOnlyWhenSpent, Occupied
<1>3. Len(freeIndices') = 0 /\ size' = 0
  OBVIOUS
<1>4. FreeListExact'
  BY <1>3 DEF FreeListExact
<1> QED BY <1>1, <1>2, <1>4 DEF RegistryInv

(* The registry invariant is inductive. *)
LEMMA NextRegistryInv ==
  RegistryInv /\ [RegistryNext]_registryVars => RegistryInv'
<1> SUFFICES ASSUME RegistryInv, [RegistryNext]_registryVars
             PROVE  RegistryInv'
  OBVIOUS
<1>1. ASSUME NEW t \in Thread, NEW o \in Object, NEW k \in Kind,
             Insert(t, o, k)
      PROVE  RegistryInv'
  BY <1>1, InsertReusedInv, InsertAppendedInv DEF Insert
<1>2. ASSUME NEW h \in Handle, BeginRelease(h)
      PROVE  RegistryInv'
  BY <1>2, BeginReleaseInv
<1>3. ASSUME NEW t \in Thread, NEW h \in Handle, CompleteRelease(t, h)
      PROVE  RegistryInv'
  BY <1>3, CompleteReleaseInv
<1>4. CASE Clear
  BY <1>4, ClearInv
<1>5. CASE UNCHANGED registryVars
  BY <1>5
     DEF registryVars, slotVars, RegistryInv, TypeOK, FreshTail,
         ObjectMatchesState, FreeListExact, RetiredOnlyWhenSpent, Occupied
<1> QED BY <1>1, <1>2, <1>3, <1>4, <1>5 DEF RegistryNext

(* Every reachable registry satisfies the inductive invariant: well-typed    *)
(* fields, a free list that is exactly the recyclable slots, and an object   *)
(* in a slot exactly while its handle is live or claimed.                    *)
THEOREM RegistryInvariant == RegistrySpec => []RegistryInv
  BY InitRegistryInv, NextRegistryInv, PTL DEF RegistrySpec

(* Type correctness of the registry. *)
THEOREM RegistryTypeCorrect == RegistrySpec => []TypeOK
<1>1. RegistryInv => TypeOK
  BY DEF RegistryInv
<1> QED BY <1>1, RegistryInvariant, PTL

(* The free list never loses a recyclable slot nor lists one twice, so Insert *)
(* never hands one slot to two objects.                                       *)
THEOREM FreeListAlwaysExact == RegistrySpec => []FreeListExact
<1>1. RegistryInv => FreeListExact
  BY DEF RegistryInv
<1> QED BY <1>1, RegistryInvariant, PTL

(* Insert reports exhaustion only when no slot can be reused. *)
THEOREM ExhaustionAlwaysReal == RegistrySpec => []ExhaustionIsReal
<1>1. RegistryInv => ExhaustionIsReal
  <2> SUFFICES ASSUME RegistryInv, Exhausted, NEW i \in Index
               PROVE  Occupied(i) \/ state[i] = "retired"
    BY DEF ExhaustionIsReal
  <2>1. i \in 1 .. size /\ Len(freeIndices) = 0
    BY RegistryAssumption DEF Exhausted, RegistryInv, TypeOK, Index
  <2>2. state[i] # "free"
    BY <2>1 DEF RegistryInv, FreeListExact
  <2> QED BY <2>2 DEF RegistryInv, TypeOK, SlotState, Occupied
<1> QED BY <1>1, RegistryInvariant, PTL

-----------------------------------------------------------------------------
(* Lookup.                                                                 *)

(* After Clear the table stays empty: nothing is registered any more.         *)
ClearedIsEmpty == cleared => size = 0

LEMMA ClearedIsEmptyStep ==
  RegistryInv /\ ClearedIsEmpty /\ [RegistryNext]_registryVars
    => ClearedIsEmpty'
<1> SUFFICES ASSUME RegistryInv, ClearedIsEmpty, [RegistryNext]_registryVars
             PROVE  ClearedIsEmpty'
  OBVIOUS
<1> USE DEF ClearedIsEmpty
<1>1. ASSUME NEW t \in Thread, NEW o \in Object, NEW k \in Kind,
             ~cleared, Insert(t, o, k)
      PROVE  ClearedIsEmpty'
  BY <1>1 DEF Insert, InsertReused, InsertAppended, FillSlot
<1>2. ASSUME NEW h \in Handle, BeginRelease(h)
      PROVE  ClearedIsEmpty'
  BY <1>2 DEF BeginRelease
<1>3. ASSUME NEW t \in Thread, NEW h \in Handle, CompleteRelease(t, h)
      PROVE  ClearedIsEmpty'
  BY <1>3 DEF CompleteRelease
<1>4. CASE Clear
  BY <1>4 DEF Clear
<1>5. CASE UNCHANGED registryVars
  BY <1>5 DEF registryVars
<1> QED BY <1>1, <1>2, <1>3, <1>4, <1>5 DEF RegistryNext

(* The object a handle is leased to, told from its slot. *)
BoundTenant(h) ==
  IF LeaseStage(h) \in {"live", "claimed"} THEN object[h[1]] ELSE Nil

(* A lookup finds just that object: not the one of another handle that has   *)
(* recycled the slot, and none once the lease has ended.                     *)
LEMMA LookupFindsTenant ==
  ASSUME RegistryInv, ClearedIsEmpty, NEW h \in Handle
  PROVE  LeaseTenant(h) = BoundTenant(h)
<1> DEFINE i == h[1]
<1> USE RegistryAssumption
<1>1. /\ i \in Index /\ i \in Nat /\ i > 0 /\ h # InvalidHandle
      /\ generation[i] \in Nat /\ h[2] \in Nat
      /\ state[i] \in SlotState
  BY DEF RegistryInv, TypeOK, Handle, Index, Generation, InvalidHandle
<1>2. i > size => state[i] = "free"
  BY <1>1 DEF RegistryInv, FreshTail
<1>3. object[i] # Nil <=> state[i] \in {"live", "releasePending"}
  BY <1>1 DEF RegistryInv, ObjectMatchesState, Occupied
<1>4. Lookup(Main, h, kind[i])
        = IF Validated(h, "live") THEN object[i] ELSE Nil
  BY DEF Lookup, LookupStatus, ObjectKindMatches
<1>5. CASE cleared
  <2>1. LeaseStage(h) = "dead" /\ size = 0
    BY <1>5 DEF LeaseStage, ClearedIsEmpty
  <2>2. ~Validated(h, "live")
    BY <1>1, <2>1 DEF Validated
  <2> QED BY <1>4, <2>1, <2>2 DEF LeaseTenant, BoundTenant
<1>6. CASE ~cleared
  <2>1. i > size \/ i \in 1 .. size
    BY <1>1 DEF RegistryInv, TypeOK
  <2>2. Validated(h, "live") <=> generation[i] = h[2] /\ state[i] = "live"
    BY <1>1, <1>2, <1>3, <2>1 DEF Validated
  <2>3. LeaseStage(h) = "live" <=> generation[i] = h[2] /\ state[i] = "live"
    BY <1>1, <1>6 DEF LeaseStage
  <2> QED BY <1>4, <2>2, <2>3 DEF LeaseTenant, BoundTenant
<1> QED BY <1>5, <1>6

-----------------------------------------------------------------------------
(* The live count.                                                         *)

(* The strengthening needed for live_count_: it counts a finite set. *)
LEMMA OccupiedFinite ==
  /\ IsFiniteSet({i \in Index : Occupied(i)})
  /\ Cardinality({i \in Index : Occupied(i)}) \in Nat
<1>1. IsFiniteSet(Index)
  BY FS_Interval, RegistryAssumption DEF Index
<1>2. IsFiniteSet({i \in Index : Occupied(i)})
  BY <1>1, FS_Subset
<1> QED BY <1>2, FS_CardinalityType

(* Every operation moves live_count_ together with the occupied slots. *)
LEMMA LiveCountStep ==
  ASSUME RegistryInv, LiveCountExact, [RegistryNext]_registryVars
  PROVE  LiveCountExact'
<1> DEFINE S == {i \in Index : Occupied(i)}
<1> USE RegistryAssumption
<1>0. IsFiniteSet(S) /\ Cardinality(S) \in Nat /\ liveCount = Cardinality(S)
  BY OccupiedFinite DEF LiveCountExact
<1>1. ASSUME NEW t \in Thread, NEW o \in Object, NEW k \in Kind,
             Insert(t, o, k)
      PROVE  LiveCountExact'
  <2>1. PICK i \in Index : state[i] = "free" /\ FillSlot(i, o, k)
    <3>1. CASE InsertReused(t, o, k)
      BY <3>1 DEF InsertReused, RegistryInv, TypeOK, FreeListExact
    <3>2. CASE InsertAppended(t, o, k)
      BY <3>2
         DEF InsertAppended, Exhausted, RegistryInv, TypeOK, FreshTail, Index
    <3> QED BY <1>1, <3>1, <3>2 DEF Insert
  <2>2. i \notin S
    BY <2>1 DEF Occupied
  <2>3. S' = S \cup {i}
    BY <2>1 DEF FillSlot, RegistryInv, TypeOK, Occupied
  <2>4. Cardinality(S') = Cardinality(S) + 1
    BY <1>0, <2>2, <2>3, FS_AddElement
  <2> QED BY <1>0, <2>1, <2>4 DEF FillSlot, LiveCountExact
<1>2. ASSUME NEW h \in Handle, BeginRelease(h)
      PROVE  LiveCountExact'
  <2>1. S' = S
    BY <1>2
       DEF BeginRelease, Validated, RegistryInv, TypeOK, Occupied, Handle
  <2> QED BY <1>0, <1>2, <2>1 DEF BeginRelease, LiveCountExact
<1>3. ASSUME NEW t \in Thread, NEW h \in Handle, CompleteRelease(t, h)
      PROVE  LiveCountExact'
  <2> DEFINE i == h[1]
  <2>1. i \in Index /\ i \in S /\ liveCount' = liveCount - 1
    BY <1>3 DEF CompleteRelease, Validated, Occupied, Handle
  <2>2. state' = [state EXCEPT ![i] = "retired"]
        \/ state' = [state EXCEPT ![i] = "free"]
    BY <1>3 DEF CompleteRelease
  <2>3. S' = S \ {i}
    BY <2>1, <2>2 DEF RegistryInv, TypeOK, Occupied
  <2>4. Cardinality(S') = Cardinality(S) - 1
    <3>1. S' = S \ {i} /\ i \in S /\ IsFiniteSet(S)
      BY <1>0, <2>1, <2>3
    <3> HIDE DEF S
    <3> QED BY <3>1, FS_RemoveElement
  <2> QED BY <1>0, <2>1, <2>4 DEF LiveCountExact
<1>4. CASE Clear
  <2>1. S' = {}
    BY <1>4 DEF Clear, Occupied
  <2> QED BY <1>4, <2>1, FS_EmptySet DEF Clear, LiveCountExact
<1>5. CASE UNCHANGED registryVars
  BY <1>5 DEF registryVars, slotVars, LiveCountExact, Occupied
<1> QED BY <1>1, <1>2, <1>3, <1>4, <1>5 DEF RegistryNext

(* live_count_ always equals the number of occupied slots, so the leak count *)
(* reported at shutdown is the number of handles Dart still holds.           *)
THEOREM LiveCountAlwaysExact == RegistrySpec => []LiveCountExact
<1>1. RegistryInit => LiveCountExact
  <2> SUFFICES ASSUME RegistryInit PROVE LiveCountExact
    OBVIOUS
  <2>1. {i \in Index : Occupied(i)} = {}
    BY DEF RegistryInit, Occupied
  <2> QED BY <2>1, FS_EmptySet DEF RegistryInit, LiveCountExact
<1>2. RegistryInv /\ LiveCountExact /\ [RegistryNext]_registryVars
        => LiveCountExact'
  BY LiveCountStep
<1> QED BY <1>1, <1>2, RegistryInvariant, PTL DEF RegistrySpec

-----------------------------------------------------------------------------
(* The registry implements HandleLease.                                    *)

(* What lookups find agrees with the slots, in both states of a step. *)
LookupsAgree == \A h \in Handle : LeaseTenant(h) = BoundTenant(h)

LEMMA SameTenants ==
  ASSUME LookupsAgree, LookupsAgree'
  PROVE  /\ [h \in Handle |-> LeaseTenant(h)]
              = [h \in Handle |-> BoundTenant(h)]
         /\ [h \in Handle |-> LeaseTenant(h)]'
              = [h \in Handle |-> BoundTenant(h)]'
<1>1. \A h \in Handle : LeaseTenant(h) = BoundTenant(h)
  BY DEF LookupsAgree
<1>2. \A h \in Handle : LeaseTenant(h)' = BoundTenant(h)'
  BY DEF LookupsAgree
<1> QED BY <1>1, <1>2

(* A step that changes no handle's stage and no tenant is a stutter of       *)
(* HandleLease.                                                              *)
LEMMA SameLeases ==
  ASSUME LookupsAgree, LookupsAgree',
         \A h \in Handle : LeaseStage(h)' = LeaseStage(h)
                           /\ BoundTenant(h)' = BoundTenant(h)
  PROVE  UNCHANGED HL!leaseVars
<1>1. [h \in Handle |-> LeaseStage(h)]' = [h \in Handle |-> LeaseStage(h)]
  OBVIOUS
<1>2. [h \in Handle |-> BoundTenant(h)]' = [h \in Handle |-> BoundTenant(h)]
  OBVIOUS
<1> QED BY <1>1, <1>2, SameTenants DEF HL!leaseVars

(* Registering an object grants the lease of the handle Insert returns. *)
LEMMA InsertGrants ==
  ASSUME RegistryInv, LookupsAgree, LookupsAgree', ~cleared,
         NEW t \in Thread, NEW o \in Object, NEW k \in Kind, Insert(t, o, k)
  PROVE  HL!LeaseNext
<1> USE RegistryAssumption
<1>1. PICK i \in Index : state[i] = "free" /\ FillSlot(i, o, k)
  <2>1. CASE InsertReused(t, o, k)
    BY <2>1 DEF InsertReused, RegistryInv, TypeOK, FreeListExact
  <2>2. CASE InsertAppended(t, o, k)
    BY <2>2
       DEF InsertAppended, Exhausted, RegistryInv, TypeOK, FreshTail, Index
  <2> QED BY <2>1, <2>2 DEF Insert
<1>2. PICK h \in Handle : h[1] = i /\ h[2] = generation[i]
  <2>1. <<i, generation[i]>> \in Handle
    BY DEF RegistryInv, TypeOK, Handle
  <2> QED BY <2>1
<1>3. /\ object' = [object EXCEPT ![i] = o]
      /\ state' = [state EXCEPT ![i] = "live"]
      /\ UNCHANGED <<generation, cleared>>
  BY <1>1 DEF FillSlot
<1>4. LeaseStage(h) = "unissued"
  BY <1>1, <1>2 DEF LeaseStage, RegistryInv, TypeOK, Generation
<1>5. LeaseStage(h)' = "live" /\ BoundTenant(h)' = o
  BY <1>1, <1>2, <1>3
     DEF LeaseStage, BoundTenant, RegistryInv, TypeOK, Generation
<1>6. ASSUME NEW g \in Handle, g # h
      PROVE  LeaseStage(g)' = LeaseStage(g) /\ BoundTenant(g)' = BoundTenant(g)
  <2>1. CASE g[1] # i
    BY <2>1, <1>3 DEF LeaseStage, BoundTenant, RegistryInv, TypeOK, Handle
  <2>2. CASE g[1] = i
    <3>1. g[2] # generation[i] /\ g[2] \in Generation
      BY <1>2, <1>6, <2>2 DEF Handle
    <3> QED
      BY <3>1, <2>2, <1>3
         DEF LeaseStage, BoundTenant, RegistryInv, TypeOK, Generation
  <2> QED BY <2>1, <2>2
<1>7. [g \in Handle |-> LeaseStage(g)]'
        = [[g \in Handle |-> LeaseStage(g)] EXCEPT ![h] = "live"]
  BY <1>5, <1>6
<1>8. [g \in Handle |-> BoundTenant(g)]'
        = [[g \in Handle |-> BoundTenant(g)] EXCEPT ![h] = o]
  BY <1>5, <1>6
<1>9. HL!Grant(h, o)
  BY <1>4, <1>7, <1>8, SameTenants DEF HL!Grant
<1> QED BY <1>9 DEF HL!LeaseNext

(* Claiming a handle claims its lease, or changes nothing once cleared. *)
LEMMA BeginReleaseClaims ==
  ASSUME RegistryInv, LookupsAgree, LookupsAgree',
         NEW h \in Handle, BeginRelease(h)
  PROVE  HL!LeaseNext \/ UNCHANGED HL!leaseVars
<1> USE RegistryAssumption
<1>1. /\ h[1] \in Index /\ generation[h[1]] = h[2] /\ state[h[1]] = "live"
      /\ state' = [state EXCEPT ![h[1]] = "releasePending"]
      /\ UNCHANGED <<generation, cleared, object>>
  BY DEF BeginRelease, Validated, Handle
<1>2. CASE cleared
  <2>1. \A g \in Handle : LeaseStage(g)' = LeaseStage(g)
                          /\ BoundTenant(g)' = BoundTenant(g)
    BY <1>1, <1>2 DEF LeaseStage, BoundTenant
  <2> QED BY <2>1, SameLeases
<1>3. CASE ~cleared
  <2>1. LeaseStage(h) = "live" /\ BoundTenant(h) = object[h[1]]
    BY <1>1, <1>3
       DEF LeaseStage, BoundTenant, RegistryInv, TypeOK, Generation
  <2>2. LeaseStage(h)' = "claimed" /\ BoundTenant(h)' = object[h[1]]
    BY <1>1, <1>3
       DEF LeaseStage, BoundTenant, RegistryInv, TypeOK, Generation
  <2>3. ASSUME NEW g \in Handle, g # h
        PROVE  LeaseStage(g)' = LeaseStage(g)
               /\ BoundTenant(g)' = BoundTenant(g)
    <3>1. CASE g[1] # h[1]
      BY <3>1, <1>1
         DEF LeaseStage, BoundTenant, RegistryInv, TypeOK, Handle
    <3>2. CASE g[1] = h[1]
      <4>1. g[2] # generation[h[1]] /\ g[2] \in Generation
        BY <1>1, <2>3, <3>2 DEF Handle
      <4> QED
        BY <4>1, <3>2, <1>1
           DEF LeaseStage, BoundTenant, RegistryInv, TypeOK, Generation
    <3> QED BY <3>1, <3>2
  <2>4. [g \in Handle |-> LeaseStage(g)]'
          = [[g \in Handle |-> LeaseStage(g)] EXCEPT ![h] = "claimed"]
    BY <2>2, <2>3
  <2>5. [g \in Handle |-> BoundTenant(g)]' = [g \in Handle |-> BoundTenant(g)]
    BY <2>1, <2>2, <2>3
  <2>6. HL!Claim(h)
    BY <2>1, <2>4, <2>5, SameTenants DEF HL!Claim
  <2> QED BY <2>6 DEF HL!LeaseNext
<1> QED BY <1>2, <1>3

(* Completing a release returns the lease for good: the slot moves past its  *)
(* generation or is retired.                                                 *)
LEMMA CompleteReleaseReturns ==
  ASSUME RegistryInv, LookupsAgree, LookupsAgree',
         NEW t \in Thread, NEW h \in Handle,
         CompleteRelease(t, h)
  PROVE  HL!LeaseNext \/ UNCHANGED HL!leaseVars
<1> DEFINE i == h[1]
<1> USE RegistryAssumption
<1>1. /\ i \in Index /\ generation[i] = h[2] /\ state[i] = "releasePending"
      /\ object' = [object EXCEPT ![i] = Nil]
      /\ cleared' = cleared
      /\ h[2] \in Generation
  BY DEF CompleteRelease, Validated, Handle
<1>2. CASE cleared
  <2>1. \A g \in Handle : LeaseStage(g)' = LeaseStage(g)
                          /\ BoundTenant(g)' = BoundTenant(g)
    BY <1>1, <1>2 DEF LeaseStage, BoundTenant
  <2> QED BY <2>1, SameLeases
<1>3. CASE ~cleared
  <2>0. \/ /\ generation[i] >= MaxGeneration
           /\ state' = [state EXCEPT ![i] = "retired"]
           /\ generation' = generation
        \/ /\ state' = [state EXCEPT ![i] = "free"]
           /\ generation' = [generation EXCEPT ![i] = @ + 1]
    BY DEF CompleteRelease
  <2>1. LeaseStage(h) = "claimed"
    BY <1>1, <1>3 DEF LeaseStage, RegistryInv, TypeOK, Generation
  <2>2. LeaseStage(h)' = "dead" /\ BoundTenant(h)' = Nil
    BY <1>1, <1>3, <2>0
       DEF LeaseStage, BoundTenant, RegistryInv, TypeOK, Generation
  <2>3. ASSUME NEW g \in Handle, g # h
        PROVE  LeaseStage(g)' = LeaseStage(g)
               /\ BoundTenant(g)' = BoundTenant(g)
    <3>1. CASE g[1] # i
      BY <3>1, <1>1, <2>0
         DEF LeaseStage, BoundTenant, RegistryInv, TypeOK, Handle
    <3>2. CASE g[1] = i
      <4>1. g[2] # generation[i] /\ g[2] \in Generation
        BY <1>1, <2>3, <3>2 DEF Handle
      <4>2. LeaseStage(g)' = LeaseStage(g)
        BY <4>1, <3>2, <1>1, <1>3, <2>0
           DEF LeaseStage, RegistryInv, TypeOK, Generation
      <4>3. LeaseStage(g) \in {"dead", "unissued"}
        BY <4>1, <3>2, <1>1, <1>3
           DEF LeaseStage, RegistryInv, TypeOK, Generation
      <4> QED BY <4>2, <4>3 DEF BoundTenant
    <3> QED BY <3>1, <3>2
  <2>4. [g \in Handle |-> LeaseStage(g)]'
          = [[g \in Handle |-> LeaseStage(g)] EXCEPT ![h] = "dead"]
    BY <2>2, <2>3
  <2>5. [g \in Handle |-> BoundTenant(g)]'
          = [[g \in Handle |-> BoundTenant(g)] EXCEPT ![h] = Nil]
    BY <2>2, <2>3
  <2>6. HL!Return(h)
    BY <2>1, <2>4, <2>5, SameTenants DEF HL!Return
  <2> QED BY <2>6 DEF HL!LeaseNext
<1> QED BY <1>2, <1>3

(* Every step of the registry is a step of HandleLease or a stutter: a        *)
(* handle names at most one object over the life of the process, is claimed   *)
(* once and returned once, whichever slots are recycled or retired.           *)
THEOREM RegistryImplementsHandleLease == RegistrySpec => ImplementsHandleLease
<1>0. RegistryInv /\ ClearedIsEmpty => LookupsAgree
  BY LookupFindsTenant DEF LookupsAgree
<1>1. RegistryInit => HL!LeaseInit
  <2> SUFFICES ASSUME RegistryInit PROVE HL!LeaseInit
    OBVIOUS
  <2>0. LookupsAgree
    BY <1>0, InitRegistryInv DEF RegistryInit, ClearedIsEmpty
  <2>1. ASSUME NEW h \in Handle
        PROVE  LeaseStage(h) = "unissued" /\ BoundTenant(h) = Nil
    BY <2>1, RegistryAssumption
       DEF RegistryInit, LeaseStage, BoundTenant, Handle, Generation
  <2>2. [h \in Handle |-> LeaseStage(h)] = [h \in Handle |-> "unissued"]
    BY <2>1
  <2>3. [h \in Handle |-> LeaseTenant(h)] = [h \in Handle |-> Nil]
    BY <2>0, <2>1 DEF LookupsAgree
  <2> QED BY <2>2, <2>3 DEF HL!LeaseInit
<1>2. RegistryInv /\ LookupsAgree /\ LookupsAgree'
        /\ [RegistryNext]_registryVars
          => [HL!LeaseNext]_(HL!leaseVars)
  <2> SUFFICES ASSUME RegistryInv, LookupsAgree, LookupsAgree',
                      [RegistryNext]_registryVars
               PROVE  HL!LeaseNext \/ UNCHANGED HL!leaseVars
    OBVIOUS
  <2>1. ASSUME ~cleared, NEW t \in Thread, NEW o \in Object, NEW k \in Kind,
               Insert(t, o, k)
        PROVE  HL!LeaseNext
    BY <2>1, InsertGrants
  <2>2. ASSUME NEW h \in Handle, BeginRelease(h)
        PROVE  HL!LeaseNext \/ UNCHANGED HL!leaseVars
    BY <2>2, BeginReleaseClaims
  <2>3. ASSUME NEW t \in Thread, NEW h \in Handle, CompleteRelease(t, h)
        PROVE  HL!LeaseNext \/ UNCHANGED HL!leaseVars
    BY <2>3, CompleteReleaseReturns
  <2>4. CASE Clear
    <3>1. \A h \in Handle : LeaseStage(h)' = "dead" /\ BoundTenant(h)' = Nil
      BY <2>4 DEF Clear, LeaseStage, BoundTenant
    <3>2. [h \in Handle |-> LeaseStage(h)]' = [h \in Handle |-> "dead"]
      BY <3>1
    <3>3. [h \in Handle |-> BoundTenant(h)]' = [h \in Handle |-> Nil]
      BY <3>1
    <3> QED BY <3>2, <3>3, SameTenants DEF HL!LeaseNext, HL!Close
  <2>5. CASE UNCHANGED registryVars
    <3>1. \A h \in Handle : LeaseStage(h)' = LeaseStage(h)
                            /\ BoundTenant(h)' = BoundTenant(h)
      BY <2>5 DEF registryVars, slotVars, LeaseStage, BoundTenant
    <3> QED BY <3>1, SameLeases
  <2> QED BY <2>1, <2>2, <2>3, <2>4, <2>5 DEF RegistryNext
<1>3. RegistryInit => ClearedIsEmpty
  BY DEF RegistryInit, ClearedIsEmpty
<1> QED
  BY <1>0, <1>1, <1>2, <1>3, ClearedIsEmptyStep, RegistryInvariant, PTL
     DEF RegistrySpec, ImplementsHandleLease, HL!LeaseSpec

-----------------------------------------------------------------------------
(* Releases and shutdown.                                                    *)

Call == [pc : {"idle", "loaded", "checked", "claimed"},
         handle : Handle \cup {InvalidHandle}, epoch : Nat]
Block == [handle : Handle, epoch : Nat]

ProtocolTypeOK ==
  /\ accepting \in BOOLEAN
  /\ epoch \in Nat
  /\ resets \in Nat
  /\ caller \in [Releaser -> Call]
  /\ \A t \in Releaser : caller[t].pc # "idle" => caller[t].handle \in Handle
  /\ mainQueue \in Seq(Block)
  /\ mainPc \in {"idle", "complete", "finish", "closing", "snapshot", "sweep",
                 "down"}
  /\ mainPc \in {"complete", "finish"} => current \in Handle
  /\ sweep \subseteq Handle
  /\ prepared \in [Handle -> Nat]

\* Each incarnation of the bridge has two epochs, one while it accepts
\* releases and one from the middle of its shutdown.
PhaseOK ==
  /\ mainPc = "idle" => accepting
  /\ mainPc \in {"closing", "snapshot", "sweep", "down"} => ~accepting
  /\ epoch = IF accepting \/ mainPc = "closing" THEN resets + 1
                                                ELSE resets + 2

\* The registry will never again call the handle claimed.
Ended(h) ==
  \/ generation[h[1]] > h[2]
  \/ generation[h[1]] = h[2] /\ state[h[1]] = "retired"

\* A handle that was torn down has ended or is about to.
OnceOK ==
  /\ \A h \in Handle : prepared[h] # 0 =>
       /\ prepared[h] = 1
       /\ \/ Ended(h)
          \/ mainPc = "finish" /\ current = h
          \/ mainPc = "down"
  /\ mainPc = "finish" => Validated(current, "releasePending")

Sweeping == ~accepting /\ mainPc \in {"sweep", "complete", "finish"}

\* What the sweep has still to complete includes every occupied slot.
SweepOK ==
  Sweeping =>
    /\ \A i \in Index : Occupied(i) =>
         \/ Encode(i) \in sweep
         \/ mainPc # "sweep" /\ current = Encode(i)
    /\ mainPc = "complete" => ~Validated(current, "live")

ReleaseInv ==
  /\ RegistryInv
  /\ ProtocolTypeOK
  /\ PhaseOK
  /\ OnceOK
  /\ SweepOK

-----------------------------------------------------------------------------
(* What one step of the registry does to the handles.                        *)

LEMMA HandleParts ==
  ASSUME NEW h \in Handle
  PROVE  /\ h[1] \in Index /\ h[2] \in Generation
         /\ h[1] \in Nat /\ h[2] \in Nat /\ h = <<h[1], h[2]>>
         /\ h # InvalidHandle
BY RegistryAssumption DEF Handle, Index, Generation, InvalidHandle

LEMMA OccupiedIsValidated ==
  ASSUME RegistryInv, NEW i \in Index, Occupied(i)
  PROVE  /\ Encode(i) \in Handle
         /\ i \in 1 .. size
         /\ Validated(Encode(i), "live")
              \/ Validated(Encode(i), "releasePending")
<1>1. /\ i \in Nat /\ size \in Nat /\ 1 <= i
      /\ generation[i] \in Generation
      /\ object[i] # Nil
      /\ state[i] \in {"live", "releasePending"}
  BY RegistryAssumption
  DEF RegistryInv, TypeOK, ObjectMatchesState, Occupied, Index
<1>2. i \in 1 .. size
  BY <1>1 DEF RegistryInv, FreshTail
<1>3. Encode(i) \in Handle
  BY <1>1 DEF Encode, Handle
<1>4. Encode(i) # InvalidHandle
  BY <1>3, HandleParts
<1>5. QED
  BY <1>1, <1>2, <1>3, <1>4 DEF Encode, Validated

\* A slot keeps its generation while a handle of it is granted or claimed.
LEMMA InsertKeeps ==
  ASSUME RegistryInv, NEW o \in Object, NEW k \in Kind, Insert(Main, o, k),
         NEW h \in Handle
  PROVE  /\ Ended(h) => Ended(h)'
         /\ Validated(h, "releasePending") => Validated(h, "releasePending")'
<1> USE RegistryAssumption
<1>1. PICK i \in Index : state[i] = "free" /\ FillSlot(i, o, k)
  <2>1. CASE InsertReused(Main, o, k)
    BY <2>1 DEF InsertReused, RegistryInv, TypeOK, FreeListExact
  <2>2. CASE InsertAppended(Main, o, k)
    <3>1. size + 1 \in Index /\ size + 1 > size
      BY <2>2 DEF InsertAppended, Exhausted, RegistryInv, TypeOK, Index
    <3>2. state[size + 1] = "free"
      BY <3>1 DEF RegistryInv, FreshTail
    <3>3. QED
      BY <2>2, <3>1, <3>2 DEF InsertAppended
  <2>3. QED
    BY <2>1, <2>2 DEF Insert
<1>2. /\ object' = [object EXCEPT ![i] = o]
      /\ state' = [state EXCEPT ![i] = "live"]
      /\ generation' = generation
      /\ size' \in {size, size + 1}
      /\ size \in Nat
  BY <1>1 DEF FillSlot, Insert, InsertReused, InsertAppended, RegistryInv,
              TypeOK
<1>3. h[1] \in Index /\ state[h[1]] # "free" => h[1] # i
  BY <1>1
<1>4. Ended(h) => Ended(h)'
  BY <1>1, <1>2, HandleParts DEF Ended, RegistryInv, TypeOK
<1>5. ASSUME Validated(h, "releasePending")
      PROVE  Validated(h, "releasePending")'
  <2>1. h[1] # i
    BY <1>1, <1>5 DEF Validated
  <2>2. /\ state'[h[1]] = "releasePending"
        /\ object'[h[1]] = object[h[1]]
    BY <1>2, <1>5, <2>1, HandleParts DEF Validated, RegistryInv, TypeOK
  <2>3. QED
    BY <1>2, <1>5, <2>2, HandleParts DEF Validated
<1>6. QED
  BY <1>4, <1>5

\* A claim takes a live slot and leaves every other as it is.
LEMMA ClaimKeeps ==
  ASSUME RegistryInv, NEW g \in Handle, BeginRelease(g), NEW h \in Handle
  PROVE  /\ Ended(h) => Ended(h)'
         /\ Validated(h, "releasePending") => Validated(h, "releasePending")'
         /\ ~Validated(h, "live") => ~Validated(h, "live")'
         /\ ~Validated(g, "live")'
         /\ \A i \in Index : /\ Occupied(i)' <=> Occupied(i)
                             /\ Encode(i)' = Encode(i)
<1>1. /\ state' = [state EXCEPT ![g[1]] = "releasePending"]
      /\ state \in [Index -> SlotState] /\ state[g[1]] = "live"
      /\ UNCHANGED <<size, generation, object>>
      /\ g[1] \in Index /\ h[1] \in Index
  BY HandleParts DEF BeginRelease, Validated, RegistryInv, TypeOK
<1>2. /\ state'[g[1]] = "releasePending"
      /\ \A i \in Index : i # g[1] => state'[i] = state[i]
  BY <1>1
<1>3. Ended(h) => Ended(h)'
  BY <1>1, <1>2 DEF Ended
<1>4. /\ Validated(h, "releasePending") => Validated(h, "releasePending")'
      /\ ~Validated(h, "live") => ~Validated(h, "live")'
      /\ ~Validated(g, "live")'
  BY <1>1, <1>2 DEF Validated
<1>5. \A i \in Index : /\ Occupied(i)' <=> Occupied(i)
                       /\ Encode(i)' = Encode(i)
  BY <1>1, <1>2 DEF Occupied, Encode
<1>6. QED
  BY <1>3, <1>4, <1>5

\* A completed handle has ended; the other slots stay as they are.
LEMMA CompletionEnds ==
  ASSUME RegistryInv, NEW g \in Handle, CompleteRelease(Main, g),
         NEW h \in Handle
  PROVE  /\ Ended(g)'
         /\ Ended(h) => Ended(h)'
         /\ \A i \in Index : Occupied(i)' =>
              Occupied(i) /\ Encode(i)' = Encode(i) /\ Encode(i) # g
<1> DEFINE i == g[1]
<1> USE RegistryAssumption
<1>1. /\ i \in Index /\ h[1] \in Index /\ i \in Nat
      /\ state \in [Index -> SlotState]
      /\ generation \in [Index -> Generation]
      /\ state[i] = "releasePending" /\ generation[i] = g[2]
      /\ generation[i] \in Nat /\ generation[i] <= MaxGeneration
      /\ g[2] \in Nat /\ h[2] \in Nat
  BY HandleParts
  DEF CompleteRelease, Validated, RegistryInv, TypeOK, Generation
<1>2. /\ \/ /\ generation'[i] = generation[i] /\ state'[i] = "retired"
         \/ generation'[i] = generation[i] + 1 /\ state'[i] = "free"
      /\ \A j \in Index : j # i => /\ generation'[j] = generation[j]
                                   /\ state'[j] = state[j]
  BY <1>1 DEF CompleteRelease
<1>3. Ended(g)'
  BY <1>1, <1>2 DEF Ended
<1>4. Ended(h) => Ended(h)'
  <2>1. CASE h[1] = i
    BY <1>1, <1>2, <2>1 DEF Ended
  <2>2. CASE h[1] # i
    BY <1>1, <1>2, <2>2 DEF Ended
  <2>3. QED
    BY <2>1, <2>2
<1>5. ASSUME NEW j \in Index, Occupied(j)'
      PROVE  Occupied(j) /\ Encode(j)' = Encode(j) /\ Encode(j) # g
  <2>1. j # i
    BY <1>2, <1>5 DEF Occupied
  <2>2. Occupied(j) /\ Encode(j)' = Encode(j)
    BY <1>2, <1>5, <2>1 DEF Occupied, Encode
  <2>3. Encode(j) # g
    BY <2>1 DEF Encode
  <2>4. QED
    BY <2>2, <2>3
<1>6. QED
  BY <1>3, <1>4, <1>5

LEMMA SameRegistry ==
  ASSUME RegistryInv, UNCHANGED registryVars
  PROVE  /\ RegistryInv'
         /\ \A h \in Handle :
              /\ Ended(h)' <=> Ended(h)
              /\ \A expected \in SlotState :
                   Validated(h, expected)' <=> Validated(h, expected)
         /\ \A i \in Index : /\ Occupied(i)' <=> Occupied(i)
                             /\ Encode(i)' = Encode(i)
<1> USE DEF registryVars, slotVars
<1>1. RegistryInv'
  BY DEF RegistryInv, TypeOK, FreshTail, ObjectMatchesState, FreeListExact,
         RetiredOnlyWhenSpent, Occupied
<1>2. QED
  BY <1>1 DEF Ended, Validated, Occupied, Encode

-----------------------------------------------------------------------------
(* Types.                                                                    *)

LEMMA ReleaseInitially == Init => ReleaseInv
<1> SUFFICES ASSUME Init PROVE ReleaseInv
  OBVIOUS
<1>1. RegistryInv
  BY InitRegistryInv DEF Init
<1>2. ProtocolTypeOK
  <2>1. Idle \in Call
    BY DEF Idle, Call
  <2>2. mainQueue \in Seq(Block)
    <3>1. mainQueue = <<>>
      BY DEF Init
    <3>2. QED
      BY <3>1
  <2>3. /\ accepting \in BOOLEAN /\ epoch \in Nat /\ resets \in Nat
        /\ mainPc = "idle" /\ sweep = {} /\ prepared \in [Handle -> Nat]
    BY DEF Init
  <2>4. caller = [t \in Releaser |-> Idle]
    BY DEF Init
  <2>5. \A t \in Releaser : caller[t].pc = "idle"
    BY <2>4 DEF Idle
  <2>6. QED
    BY <2>1, <2>2, <2>3, <2>4, <2>5 DEF ProtocolTypeOK
<1>3. PhaseOK
  BY DEF Init, PhaseOK
<1>4. OnceOK
  BY DEF Init, OnceOK
<1>5. SweepOK
  BY DEF Init, SweepOK, Sweeping
<1>6. QED
  BY <1>1, <1>2, <1>3, <1>4, <1>5 DEF ReleaseInv

\* A call in progress of thread t becomes another call.
LEMMA CallsStayTyped ==
  ASSUME ProtocolTypeOK, NEW t \in Releaser, NEW c \in Call,
         c.pc # "idle" => c.handle \in Handle,
         caller' = [caller EXCEPT ![t] = c]
  PROVE  /\ caller' \in [Releaser -> Call]
         /\ \A u \in Releaser :
              caller'[u].pc # "idle" => caller'[u].handle \in Handle
<1>1. caller' \in [Releaser -> Call]
  BY DEF ProtocolTypeOK
<1>2. \A u \in Releaser : caller'[u] = IF u = t THEN c ELSE caller[u]
  BY DEF ProtocolTypeOK
<1>3. QED
  BY <1>1, <1>2 DEF ProtocolTypeOK

\* A step that moves only calls and blocks.
LEMMA OnlyCallsMove ==
  ASSUME ReleaseInv, UNCHANGED registryVars,
         UNCHANGED <<accepting, epoch, mainPc, current, sweep, resets,
                     prepared>>
  PROVE  RegistryInv' /\ PhaseOK' /\ OnceOK' /\ SweepOK'
BY SameRegistry
DEF ReleaseInv, PhaseOK, OnceOK, SweepOK, Sweeping, ProtocolTypeOK, SlotState

-----------------------------------------------------------------------------
(* EnqueueAsyncRelease.                                                      *)

LEMMA LoadKeeps ==
  ASSUME ReleaseInv, NEW t \in Releaser, NEW h \in Handle, LoadEpoch(t, h)
  PROVE  ReleaseInv'
<1> DEFINE c == [pc |-> "loaded", handle |-> h, epoch |-> epoch]
<1>1. /\ UNCHANGED registryVars
      /\ UNCHANGED <<accepting, epoch, mainQueue, mainPc, current, sweep,
                     resets, prepared>>
      /\ caller' = [caller EXCEPT ![t] = c]
  BY DEF LoadEpoch
<1>2. c \in Call /\ c.handle \in Handle
  BY DEF Call, ReleaseInv, ProtocolTypeOK
<1> HIDE DEF c
<1>3. ProtocolTypeOK'
  BY <1>1, <1>2, CallsStayTyped DEF ReleaseInv, ProtocolTypeOK
<1>4. QED
  BY <1>1, <1>3, OnlyCallsMove DEF ReleaseInv

LEMMA CheckKeeps ==
  ASSUME ReleaseInv, NEW t \in Releaser, CheckAccepting(t)
  PROVE  ReleaseInv'
<1> DEFINE c == IF accepting THEN [caller[t] EXCEPT !.pc = "checked"] ELSE Idle
<1>1. /\ UNCHANGED registryVars
      /\ UNCHANGED <<accepting, epoch, mainQueue, mainPc, current, sweep,
                     resets, prepared>>
      /\ caller[t].pc = "loaded"
      /\ caller' = [caller EXCEPT ![t] = c]
  BY DEF CheckAccepting
<1>2. c \in Call /\ (c.pc # "idle" => c.handle \in Handle)
  <2>1. caller[t] \in Call /\ caller[t].handle \in Handle
    BY <1>1 DEF ReleaseInv, ProtocolTypeOK
  <2>2. CASE accepting
    BY <2>1, <2>2 DEF Call
  <2>3. CASE ~accepting
    BY <2>3 DEF Call, Idle
  <2>4. QED
    BY <2>2, <2>3
<1> HIDE DEF c
<1>3. ProtocolTypeOK'
  BY <1>1, <1>2, CallsStayTyped DEF ReleaseInv, ProtocolTypeOK
<1>4. QED
  BY <1>1, <1>3, OnlyCallsMove DEF ReleaseInv

\* A claim changes neither which slots are occupied nor what is torn down.
LEMMA ClaimKeepsProtocol ==
  ASSUME ReleaseInv, NEW g \in Handle, BeginRelease(g),
         UNCHANGED <<accepting, epoch, mainPc, current, sweep, resets,
                     prepared>>
  PROVE  RegistryInv' /\ PhaseOK' /\ OnceOK' /\ SweepOK'
<1> USE DEF ReleaseInv
<1>1. RegistryInv'
  BY BeginReleaseInv
<1>2. PhaseOK'
  BY DEF PhaseOK
<1>3. OnceOK'
  BY ClaimKeeps DEF OnceOK, ProtocolTypeOK
<1>4. SweepOK'
  BY ClaimKeeps DEF SweepOK, Sweeping, ProtocolTypeOK
<1>5. QED
  BY <1>1, <1>2, <1>3, <1>4

LEMMA ClaimAsyncKeeps ==
  ASSUME ReleaseInv, NEW t \in Releaser, ClaimAsync(t)
  PROVE  ReleaseInv'
<1> DEFINE g == caller[t].handle
<1>1. /\ UNCHANGED <<accepting, epoch, mainQueue, mainPc, current, sweep,
                     resets, prepared>>
      /\ caller[t] \in Call /\ g \in Handle
  BY DEF ClaimAsync, ReleaseInv, ProtocolTypeOK
<1>2. CASE Validated(g, "live")
  <2> DEFINE c == [caller[t] EXCEPT !.pc = "claimed"]
  <2>1. BeginRelease(g)
    BY <1>2 DEF ClaimAsync
  <2>2. caller' = [caller EXCEPT ![t] = c]
    BY <1>2 DEF ClaimAsync, ReleaseInv, ProtocolTypeOK
  <2>3. c \in Call /\ c.handle \in Handle
    BY <1>1 DEF Call
  <2> HIDE DEF c
  <2>4. ProtocolTypeOK'
    BY <1>1, <2>2, <2>3, CallsStayTyped DEF ReleaseInv, ProtocolTypeOK
  <2>5. QED
    BY <1>1, <2>1, <2>4, ClaimKeepsProtocol DEF ReleaseInv
<1>3. CASE ~Validated(g, "live")
  <2>1. UNCHANGED registryVars /\ caller' = [caller EXCEPT ![t] = Idle]
    BY <1>3 DEF ClaimAsync
  <2>2. Idle \in Call /\ Idle.pc = "idle"
    BY DEF Idle, Call
  <2>3. ProtocolTypeOK'
    BY <1>1, <2>1, <2>2, CallsStayTyped DEF ReleaseInv, ProtocolTypeOK
  <2>4. QED
    BY <1>1, <2>1, <2>3, OnlyCallsMove DEF ReleaseInv
<1>4. QED
  BY <1>2, <1>3

LEMMA DispatchKeeps ==
  ASSUME ReleaseInv, NEW t \in Releaser, DispatchCompletion(t)
  PROVE  ReleaseInv'
<1> DEFINE b == [handle |-> caller[t].handle, epoch |-> caller[t].epoch]
<1>1. /\ UNCHANGED registryVars
      /\ UNCHANGED <<accepting, epoch, mainPc, current, sweep, resets,
                     prepared>>
      /\ caller[t].pc = "claimed"
      /\ mainQueue' = Append(mainQueue, b)
      /\ caller' = [caller EXCEPT ![t] = Idle]
  BY DEF DispatchCompletion
<1>2. b \in Block
  <2>1. caller[t] \in Call /\ caller[t].handle \in Handle
    BY <1>1 DEF ReleaseInv, ProtocolTypeOK
  <2>2. QED
    BY <2>1 DEF Call, Block
<1> HIDE DEF b
<1>3. mainQueue' \in Seq(Block)
  BY <1>1, <1>2 DEF ReleaseInv, ProtocolTypeOK
<1>4. Idle \in Call /\ Idle.pc = "idle"
  BY DEF Idle, Call
<1>5. ProtocolTypeOK'
  BY <1>1, <1>3, <1>4, CallsStayTyped DEF ReleaseInv, ProtocolTypeOK
<1>6. QED
  BY <1>1, <1>5, OnlyCallsMove DEF ReleaseInv

-----------------------------------------------------------------------------
(* The main thread.                                                          *)

LEMMA CreateKeeps ==
  ASSUME ReleaseInv, NEW o \in Object, NEW k \in Kind, Create(o, k)
  PROVE  ReleaseInv'
<1> USE DEF ReleaseInv
<1>1. /\ mainPc = "idle" /\ accepting
      /\ Insert(Main, o, k)
      /\ UNCHANGED protocolVars
  BY DEF Create, PhaseOK
<1>2. RegistryInv'
  BY <1>1, RegistryAssumption, InsertReusedInv, InsertAppendedInv DEF Insert
<1>3. ProtocolTypeOK' /\ PhaseOK'
  BY <1>1 DEF protocolVars, ProtocolTypeOK, PhaseOK
<1>4. OnceOK'
  BY <1>1, InsertKeeps DEF protocolVars, OnceOK
<1>5. SweepOK'
  BY <1>1 DEF protocolVars, SweepOK, Sweeping
<1>6. QED
  BY <1>2, <1>3, <1>4, <1>5

LEMMA ReleaseNowKeeps ==
  ASSUME ReleaseInv, NEW h \in Handle, ReleaseNow(h)
  PROVE  ReleaseInv'
<1> USE DEF ReleaseInv
<1>1. /\ mainPc = "idle" /\ accepting
      /\ BeginRelease(h)
      /\ current' = h /\ mainPc' = "complete"
      /\ UNCHANGED <<accepting, epoch, caller, mainQueue, sweep, resets,
                     prepared>>
  BY DEF ReleaseNow, PhaseOK
<1>2. RegistryInv'
  BY <1>1, BeginReleaseInv
<1>3. ProtocolTypeOK' /\ PhaseOK'
  BY <1>1 DEF ProtocolTypeOK, PhaseOK
<1>4. OnceOK'
  BY <1>1, ClaimKeeps DEF OnceOK
<1>5. SweepOK'
  BY <1>1 DEF SweepOK, Sweeping
<1>6. QED
  BY <1>2, <1>3, <1>4, <1>5

LEMMA RunBlockKeeps ==
  ASSUME ReleaseInv, RunBlock
  PROVE  ReleaseInv'
<1> USE DEF ReleaseInv
<1>1. /\ mainPc \in {"idle", "down"}
      /\ mainQueue # <<>> /\ mainQueue' = Tail(mainQueue)
      /\ UNCHANGED registryVars
      /\ UNCHANGED <<accepting, epoch, caller, sweep, resets, prepared>>
  BY DEF RunBlock
<1>2. /\ mainQueue' \in Seq(Block)
      /\ Head(mainQueue).handle \in Handle
  <2>1. mainQueue \in Seq(Block)
    BY DEF ProtocolTypeOK
  <2>2. Head(mainQueue) \in Block /\ Tail(mainQueue) \in Seq(Block)
    BY <1>1, <2>1
  <2>3. QED
    BY <1>1, <2>2 DEF Block
<1>3. CASE accepting /\ epoch = Head(mainQueue).epoch
  <2>1. /\ current' = Head(mainQueue).handle /\ mainPc' = "complete"
        /\ mainPc = "idle"
    BY <1>1, <1>3 DEF RunBlock, PhaseOK
  <2>2. ProtocolTypeOK' /\ PhaseOK'
    BY <1>1, <1>2, <1>3, <2>1 DEF ProtocolTypeOK, PhaseOK
  <2>3. OnceOK'
    BY <1>1, <2>1, SameRegistry DEF OnceOK
  <2>4. SweepOK'
    BY <1>1, <1>3 DEF SweepOK, Sweeping
  <2>5. QED
    BY <1>1, <2>2, <2>3, <2>4, SameRegistry
<1>4. CASE ~(accepting /\ epoch = Head(mainQueue).epoch)
  <2>1. UNCHANGED <<current, mainPc>>
    BY <1>4 DEF RunBlock
  <2>2. ProtocolTypeOK'
    BY <1>1, <1>2, <2>1 DEF ProtocolTypeOK
  <2>3. QED
    BY <1>1, <2>1, <2>2, OnlyCallsMove
<1>5. QED
  BY <1>3, <1>4

\* The teardown of a claimed object starts; it has not run before, since the
\* handle has not ended.
LEMMA PrepareKeeps ==
  ASSUME ReleaseInv, Prepare
  PROVE  ReleaseInv'
<1> USE DEF ReleaseInv
<1>1. /\ mainPc = "complete" /\ current \in Handle
      /\ UNCHANGED registryVars
      /\ UNCHANGED <<accepting, epoch, caller, mainQueue, sweep, resets>>
  BY DEF Prepare, ProtocolTypeOK
<1>2. RegistryInv'
  BY <1>1, SameRegistry
<1>3. CASE Validated(current, "releasePending")
  <2>1. /\ prepared' = [prepared EXCEPT ![current] = @ + 1]
        /\ mainPc' = "finish" /\ current' = current
    BY <1>3 DEF Prepare
  <2>2. ProtocolTypeOK'
    BY <1>1, <2>1 DEF ProtocolTypeOK
  <2>3. PhaseOK'
    BY <1>1, <2>1 DEF PhaseOK
  <2>4. OnceOK'
    <3>1. ~Ended(current)
      BY <1>1, <1>3, HandleParts
      DEF Ended, Validated, RegistryInv, TypeOK, Generation
    <3>2. prepared[current] = 0
      BY <1>1, <3>1 DEF OnceOK
    <3>3. /\ prepared'[current] = 1
          /\ \A h \in Handle : h # current => prepared'[h] = prepared[h]
      BY <1>1, <2>1, <3>2 DEF ProtocolTypeOK
    <3>4. Validated(current, "releasePending")'
      BY <1>1, <1>3, <2>1 DEF Validated, registryVars, slotVars
    <3>5. QED
      BY <1>1, <2>1, <3>3, <3>4, SameRegistry DEF OnceOK
  <2>5. SweepOK'
    BY <1>1, <2>1, SameRegistry DEF SweepOK, Sweeping
  <2>6. QED
    BY <1>2, <2>2, <2>3, <2>4, <2>5
<1>4. CASE ~Validated(current, "releasePending")
  <2>1. mainPc' = Resume /\ prepared' = prepared
    BY <1>4 DEF Prepare
  <2>2. ProtocolTypeOK'
    BY <1>1, <2>1 DEF ProtocolTypeOK, Resume
  <2>3. PhaseOK'
    BY <1>1, <2>1 DEF PhaseOK, Resume
  <2>4. OnceOK'
    BY <1>1, <2>1, SameRegistry DEF OnceOK, Resume
  <2>5. SweepOK'
    <3> SUFFICES ASSUME ~accepting, NEW i \in Index, Occupied(i)
                 PROVE  Encode(i) \in sweep
      BY <1>1, <2>1, SameRegistry DEF SweepOK, Sweeping, Resume
    <3>1. ~Validated(current, "live")
      BY <1>1 DEF SweepOK, Sweeping
    <3>2. current # Encode(i)
      BY <1>4, <3>1, OccupiedIsValidated
    <3>3. QED
      BY <1>1, <3>2 DEF SweepOK, Sweeping
  <2>6. QED
    BY <1>2, <2>2, <2>3, <2>4, <2>5
<1>5. QED
  BY <1>3, <1>4

LEMMA FinishKeeps ==
  ASSUME ReleaseInv, Finish
  PROVE  ReleaseInv'
<1> USE DEF ReleaseInv
<1>1. /\ mainPc = "finish" /\ current \in Handle
      /\ CompleteRelease(Main, current)
      /\ mainPc' = Resume /\ Main \in Thread
      /\ UNCHANGED <<accepting, epoch, caller, mainQueue, sweep, resets,
                     prepared>>
  BY RegistryAssumption DEF Finish, ProtocolTypeOK, OnceOK
<1>2. RegistryInv'
  BY <1>1, CompleteReleaseInv
<1>3. ProtocolTypeOK'
  BY <1>1 DEF ProtocolTypeOK, Resume
<1>4. PhaseOK'
  BY <1>1 DEF PhaseOK, Resume
<1>5. OnceOK'
  <2>1. mainPc' # "finish"
    BY <1>1 DEF Resume
  <2>2. ASSUME NEW h \in Handle, prepared[h] # 0
        PROVE  prepared[h] = 1 /\ Ended(h)'
    BY <1>1, <2>2, CompletionEnds DEF OnceOK
  <2>3. QED
    BY <1>1, <2>1, <2>2 DEF OnceOK
<1>6. SweepOK'
  BY <1>1, CompletionEnds DEF SweepOK, Sweeping, Resume
<1>7. QED
  BY <1>2, <1>3, <1>4, <1>5, <1>6

-----------------------------------------------------------------------------
(* ShutdownBridge and ResetBridgeForTesting.                                 *)

LEMMA StopAcceptingKeeps ==
  ASSUME ReleaseInv, StopAccepting
  PROVE  ReleaseInv'
<1> USE DEF ReleaseInv
<1>1. /\ mainPc = "idle" /\ accepting' = FALSE /\ mainPc' = "closing"
      /\ UNCHANGED registryVars
      /\ UNCHANGED <<epoch, caller, mainQueue, current, sweep, resets,
                     prepared>>
  BY DEF StopAccepting
<1>2. ProtocolTypeOK'
  BY <1>1 DEF ProtocolTypeOK
<1>3. PhaseOK'
  BY <1>1 DEF PhaseOK
<1>4. OnceOK' /\ SweepOK'
  BY <1>1, SameRegistry DEF OnceOK, SweepOK, Sweeping
<1>5. QED
  BY <1>1, <1>2, <1>3, <1>4, SameRegistry

LEMMA AdvanceEpochKeeps ==
  ASSUME ReleaseInv, AdvanceEpoch
  PROVE  ReleaseInv'
<1> USE DEF ReleaseInv
<1>1. /\ mainPc = "closing" /\ epoch' = epoch + 1 /\ mainPc' = "snapshot"
      /\ UNCHANGED registryVars
      /\ UNCHANGED <<accepting, caller, mainQueue, current, sweep, resets,
                     prepared>>
  BY DEF AdvanceEpoch
<1>2. ProtocolTypeOK'
  BY <1>1 DEF ProtocolTypeOK
<1>3. PhaseOK'
  BY <1>1 DEF PhaseOK, ProtocolTypeOK
<1>4. OnceOK' /\ SweepOK'
  BY <1>1, SameRegistry DEF OnceOK, SweepOK, Sweeping
<1>5. QED
  BY <1>1, <1>2, <1>3, <1>4, SameRegistry

\* The snapshot holds every handle that is granted or claimed.
LEMMA SnapshotKeeps ==
  ASSUME ReleaseInv, SnapshotHandles
  PROVE  ReleaseInv'
<1> USE DEF ReleaseInv
<1>1. /\ mainPc = "snapshot" /\ sweep' = LiveHandles /\ mainPc' = "sweep"
      /\ UNCHANGED registryVars
      /\ UNCHANGED <<accepting, epoch, caller, mainQueue, current, resets,
                     prepared>>
  BY DEF SnapshotHandles
<1>2. LiveHandles \subseteq Handle
  <2>1. 1 .. size \subseteq Index
    BY RegistryAssumption DEF RegistryInv, TypeOK, Index
  <2>2. QED
    BY <2>1, OccupiedIsValidated DEF LiveHandles
<1>3. \A i \in Index : Occupied(i) => Encode(i) \in LiveHandles
  BY OccupiedIsValidated DEF LiveHandles
<1>4. ProtocolTypeOK'
  BY <1>1, <1>2 DEF ProtocolTypeOK
<1>5. PhaseOK'
  BY <1>1 DEF PhaseOK
<1>6. OnceOK'
  BY <1>1, SameRegistry DEF OnceOK
<1>7. SweepOK'
  BY <1>1, <1>3, SameRegistry DEF SweepOK, Sweeping
<1>8. QED
  BY <1>1, <1>4, <1>5, <1>6, <1>7, SameRegistry

LEMMA SweepHandleKeeps ==
  ASSUME ReleaseInv, NEW h \in sweep, SweepHandle(h)
  PROVE  ReleaseInv'
<1> USE DEF ReleaseInv
<1>1. /\ mainPc = "sweep" /\ ~accepting /\ h \in Handle
      /\ sweep' = sweep \ {h} /\ current' = h /\ mainPc' = "complete"
      /\ UNCHANGED <<accepting, epoch, caller, mainQueue, resets, prepared>>
  BY DEF SweepHandle, PhaseOK, ProtocolTypeOK
<1>2. ProtocolTypeOK'
  BY <1>1 DEF ProtocolTypeOK
<1>3. PhaseOK'
  BY <1>1 DEF PhaseOK
<1>4. \A i \in Index : Occupied(i) => Encode(i) \in sweep
  BY <1>1 DEF SweepOK, Sweeping
<1>5. CASE BeginRelease(h)
  <2>1. RegistryInv'
    BY <1>1, <1>5, BeginReleaseInv
  <2>2. OnceOK'
    BY <1>1, <1>5, ClaimKeeps DEF OnceOK
  <2>3. SweepOK'
    BY <1>1, <1>4, <1>5, ClaimKeeps DEF SweepOK, Sweeping
  <2>4. QED
    BY <1>2, <1>3, <2>1, <2>2, <2>3
<1>6. CASE ~Validated(h, "live") /\ UNCHANGED registryVars
  <2>1. OnceOK'
    BY <1>1, <1>6, SameRegistry DEF OnceOK
  <2>2. SweepOK'
    <3>1. ~Validated(current, "live")'
      BY <1>1, <1>6 DEF Validated, registryVars, slotVars
    <3>2. QED
      BY <1>1, <1>4, <1>6, <3>1, SameRegistry DEF SweepOK, Sweeping
  <2>3. QED
    BY <1>2, <1>3, <1>6, <2>1, <2>2, SameRegistry
<1>7. QED
  BY <1>5, <1>6 DEF SweepHandle

LEMMA ClearRegistryKeeps ==
  ASSUME ReleaseInv, ClearRegistry
  PROVE  ReleaseInv'
<1> USE DEF ReleaseInv
<1>1. /\ mainPc = "sweep" /\ Clear /\ mainPc' = "down"
      /\ UNCHANGED <<accepting, epoch, caller, mainQueue, current, sweep,
                     resets, prepared>>
  BY DEF ClearRegistry
<1>2. RegistryInv'
  BY <1>1, ClearInv
<1>3. ProtocolTypeOK'
  BY <1>1 DEF ProtocolTypeOK
<1>4. PhaseOK'
  BY <1>1 DEF PhaseOK
<1>5. OnceOK' /\ SweepOK'
  BY <1>1 DEF OnceOK, SweepOK, Sweeping
<1>6. QED
  BY <1>2, <1>3, <1>4, <1>5

LEMMA ResetKeeps ==
  ASSUME ReleaseInv, Reset
  PROVE  ReleaseInv'
<1> USE DEF ReleaseInv
<1>1. /\ mainPc = "down" /\ accepting' = TRUE /\ cleared' = FALSE
      /\ resets' = resets + 1 /\ mainPc' = "idle"
      /\ prepared' = [h \in Handle |-> 0]
      /\ UNCHANGED <<size, slotVars, freeIndices, liveCount, epoch, caller,
                     mainQueue, current, sweep>>
  BY DEF Reset
<1>2. RegistryInv'
  BY <1>1 DEF RegistryInv, TypeOK, FreshTail, ObjectMatchesState,
              FreeListExact, RetiredOnlyWhenSpent, Occupied, slotVars
<1>3. ProtocolTypeOK'
  BY <1>1 DEF ProtocolTypeOK
<1>4. PhaseOK'
  BY <1>1 DEF PhaseOK, ProtocolTypeOK
<1>5. OnceOK' /\ SweepOK'
  BY <1>1 DEF OnceOK, SweepOK, Sweeping
<1>6. QED
  BY <1>2, <1>3, <1>4, <1>5

-----------------------------------------------------------------------------
LEMMA ReleaseStep == ReleaseInv /\ [Next]_vars => ReleaseInv'
<1> SUFFICES ASSUME ReleaseInv, [Next]_vars
             PROVE  ReleaseInv'
  OBVIOUS
<1>1. ASSUME NEW t \in Releaser,
             AsyncStep(t) \/ \E h \in Handle : LoadEpoch(t, h)
      PROVE  ReleaseInv'
  BY <1>1, LoadKeeps, CheckKeeps, ClaimAsyncKeeps, DispatchKeeps DEF AsyncStep
<1>2. CASE MainStep
  BY <1>2, RunBlockKeeps, PrepareKeeps, FinishKeeps, AdvanceEpochKeeps,
     SnapshotKeeps, SweepHandleKeeps, ClearRegistryKeeps DEF MainStep
<1>3. CASE UNCHANGED vars
  <2>1. ProtocolTypeOK'
    BY <1>3 DEF vars, protocolVars, ReleaseInv, ProtocolTypeOK
  <2>2. QED
    BY <1>3, <2>1, OnlyCallsMove DEF vars, protocolVars, ReleaseInv
<1>4. QED
  BY <1>1, <1>2, <1>3, CreateKeeps, ReleaseNowKeeps, StopAcceptingKeeps,
     ResetKeeps
  DEF Next

THEOREM ReleaseInvariant == Spec => []ReleaseInv
BY ReleaseInitially, ReleaseStep, PTL DEF Spec

\* However finalizers, explicit releases, blocks and the sweep interleave, an
\* object's teardown runs at most once in each incarnation of the bridge.
THEOREM AlwaysTornDownAtMostOnce == Spec => []TornDownAtMostOnce
<1>1. ReleaseInv => TornDownAtMostOnce
  BY DEF ReleaseInv, OnceOK, ProtocolTypeOK, TornDownAtMostOnce
<1>2. QED
  BY <1>1, ReleaseInvariant, PTL

\* Every object is torn down before ShutdownBridge clears the registry, those
\* that another thread claimed meanwhile included.
THEOREM SweepAlwaysLeavesNothing == Spec => []SweepLeavesNothing
<1>1. ReleaseInv => SweepLeavesNothing
  BY DEF ReleaseInv, SweepOK, Sweeping, PhaseOK, SweepLeavesNothing
<1>2. QED
  BY <1>1, ReleaseInvariant, PTL

\* Only a block of the present incarnation is completed.
THEOREM BlocksAlwaysStayInTheirEpoch == Spec => BlocksStayInTheirEpoch
<1> DEFINE P == (/\ mainPc \in {"idle", "down"}
                 /\ mainPc' = "complete"
                 /\ mainQueue' # mainQueue)
                  => Head(mainQueue).epoch > resets
<1>1. ReleaseInv /\ [Next]_vars => [P]_vars
  <2> SUFFICES ASSUME ReleaseInv, Next,
                      mainPc \in {"idle", "down"}, mainPc' = "complete",
                      mainQueue' # mainQueue
               PROVE  Head(mainQueue).epoch > resets
    OBVIOUS
  <2>1. RunBlock
    BY DEF Next, AsyncStep, MainStep, LoadEpoch, CheckAccepting, ClaimAsync,
           DispatchCompletion, Create, ReleaseNow, StopAccepting, Reset,
           Prepare, Finish, AdvanceEpoch, SnapshotHandles, SweepHandle,
           ClearRegistry, protocolVars
  <2>2. accepting /\ epoch = Head(mainQueue).epoch
    BY <2>1 DEF RunBlock
  <2>3. QED
    BY <2>2 DEF ReleaseInv, PhaseOK, ProtocolTypeOK
<1>2. QED
  BY <1>1, ReleaseInvariant, PTL DEF Spec, BlocksStayInTheirEpoch

-----------------------------------------------------------------------------
(* Application termination.                                                  *)

BlockKind == {"terminate", "replyYes"}

RequestsTypeOK ==
  /\ defers \in BOOLEAN /\ dartDefers \in BOOLEAN
  /\ programmatic \in BOOLEAN
  /\ consent \in BOOLEAN
  /\ pending \in Nat
  /\ nextOp \in Nat \ {NoOp}
  /\ asking \in {"no", "waiting", "terminating"}
  /\ blocks \in Seq(BlockKind)
  /\ dart \in {"starting", "attached", "detaching", "closed"}
  /\ inbox \in Seq(Nat)

AnswerQueued == Contains(blocks, "replyYes")
DartHears(op) == op \in known \cup ToSet(inbox)

\* Before Dart attaches nothing is asked of it; while it is attached, the
\* operation AppKit waits for is on its way to Dart or known to it; once it
\* detached, the termination it asked for is on the main queue.
PendingOK ==
  /\ dart = "starting" => pending = NoOp /\ asking # "waiting"
  /\ dart = "attached" =>
       /\ asking = "waiting" => pending # NoOp
       /\ pending # NoOp => DartHears(pending) /\ asking # "no"
  /\ dart \in {"detaching", "closed"} /\ Alive =>
       \/ programmatic /\ asking # "waiting"
       \/ asking = "waiting" /\ AnswerQueued

\* What may end the application past the deferral came from Dart.
ConsentOK ==
  /\ dartDefers => defers
  /\ dart \in {"starting", "closed"} => ~dartDefers
  /\ dart \in {"detaching", "closed"} => consent
  /\ programmatic => consent
  /\ AnswerQueued => consent
  /\ asking = "terminating" /\ dartDefers => consent

TerminationInv == RequestsTypeOK /\ PendingOK /\ ConsentOK

-----------------------------------------------------------------------------
(* Sequences.                                                                *)

LEMMA ToSetContains ==
  ASSUME NEW S, NEW s \in Seq(S), NEW e
  PROVE  e \in ToSet(s) <=> Contains(s, e)
BY DEF ToSet, Contains

LEMMA ContainsAppend ==
  ASSUME NEW S, NEW s \in Seq(S), NEW x \in S, NEW e
  PROVE  Contains(Append(s, x), e) <=> Contains(s, e) \/ e = x
<1>1. /\ Len(Append(s, x)) = Len(s) + 1 /\ Len(s) \in Nat
      /\ Append(s, x)[Len(s) + 1] = x
      /\ \A n \in 1 .. Len(s) : Append(s, x)[n] = s[n]
  OBVIOUS
<1>2. QED
  BY <1>1 DEF Contains

LEMMA ContainsTail ==
  ASSUME NEW S, NEW s \in Seq(S), s # <<>>, NEW e
  PROVE  /\ Contains(s, e) <=> e = Head(s) \/ Contains(Tail(s), e)
         /\ Head(s) \in S /\ Tail(s) \in Seq(S)
<1>1. /\ Len(s) \in Nat \ {0} /\ Len(Tail(s)) = Len(s) - 1
      /\ Head(s) = s[1] /\ Head(s) \in S /\ Tail(s) \in Seq(S)
      /\ \A n \in 1 .. Len(s) - 1 : Tail(s)[n] = s[n + 1]
  OBVIOUS
<1>2. Contains(s, e) => e = Head(s) \/ Contains(Tail(s), e)
  <2>1. ASSUME NEW n \in 1 .. Len(s), s[n] = e, n # 1
        PROVE  n - 1 \in 1 .. Len(s) - 1 /\ Tail(s)[n - 1] = e
    <3>1. n - 1 \in 1 .. Len(s) - 1 /\ (n - 1) + 1 = n
      BY <1>1, <2>1
    <3>2. QED
      BY <1>1, <2>1, <3>1
  <2>2. QED
    BY <1>1, <2>1 DEF Contains
<1>3. Contains(Tail(s), e) => Contains(s, e)
  <2>1. ASSUME NEW n \in 1 .. Len(s) - 1
        PROVE  n + 1 \in 1 .. Len(s)
    BY <1>1
  <2>2. QED
    BY <1>1, <2>1 DEF Contains
<1>4. Contains(s, Head(s))
  BY <1>1 DEF Contains
<1>5. QED
  BY <1>1, <1>2, <1>3, <1>4

-----------------------------------------------------------------------------
LEMMA TerminationInitially == TerminationInit => TerminationInv
<1> SUFFICES ASSUME TerminationInit PROVE TerminationInv
  OBVIOUS
<1>1. blocks = <<>> /\ inbox = <<>>
  BY DEF TerminationInit
<1>2. blocks \in Seq(BlockKind) /\ inbox \in Seq(Nat) /\ ~AnswerQueued
  BY <1>1 DEF AnswerQueued, Contains
<1>3. RequestsTypeOK
  <2>1. pending \in Nat /\ nextOp \in Nat \ {NoOp}
    BY DEF TerminationInit, NoOp
  <2>2. QED
    BY <1>2, <2>1 DEF TerminationInit, RequestsTypeOK
<1>4. PendingOK /\ ConsentOK
  BY <1>2 DEF TerminationInit, PendingOK, ConsentOK
<1>5. QED
  BY <1>3, <1>4 DEF TerminationInv

\* AppKit asks the bridge, from a menu or from the main queue.
LEMMA ShouldTerminateKeeps ==
  ASSUME TerminationInv, Alive, ShouldTerminate,
         UNCHANGED <<defers, dart, dartDefers, known, consent>>,
         blocks' \in Seq(BlockKind),
         AnswerQueued' <=> AnswerQueued
  PROVE  TerminationInv'
<1> USE DEF TerminationInv
<1>1. CASE TerminateNow
  <2>1. /\ asking' = "terminating" /\ programmatic' = FALSE
        /\ pending' \in {NoOp, pending} /\ nextOp' \in {nextOp, nextOp + 1}
        /\ inbox' = inbox
    BY <1>1 DEF ShouldTerminate
  <2>2. RequestsTypeOK'
    <3>1. pending' \in Nat /\ nextOp' \in Nat \ {NoOp}
      BY <2>1 DEF RequestsTypeOK, NoOp
    <3>2. QED
      BY <2>1, <3>1 DEF RequestsTypeOK
  <2>3. PendingOK'
    BY <1>1, <2>1
    DEF ShouldTerminate, PendingOK, RequestsTypeOK, DartHears, ToSet, Alive
  <2>4. dartDefers => consent
    BY <1>1 DEF TerminateNow, ConsentOK, PortOpen, RequestsTypeOK
  <2>5. ConsentOK'
    BY <2>1, <2>4 DEF ConsentOK
  <2>6. QED
    BY <2>2, <2>3, <2>5
<1>2. CASE ~TerminateNow /\ pending # NoOp
  <2>1. asking' = "waiting"
           /\ UNCHANGED <<pending, nextOp, inbox, programmatic>>
    BY <1>2 DEF ShouldTerminate
  <2>2. RequestsTypeOK'
    BY <2>1 DEF RequestsTypeOK
  <2>3. PendingOK'
    BY <1>2, <2>1
    DEF PendingOK, DartHears, ToSet, Alive, TerminateNow
  <2>4. ConsentOK'
    BY <2>1 DEF ConsentOK
  <2>5. QED
    BY <2>2, <2>3, <2>4
<1>3. CASE ~TerminateNow /\ pending = NoOp
  <2>1. /\ asking' = "waiting" /\ programmatic' = programmatic
        /\ nextOp' = nextOp + 1 /\ pending' = nextOp
        /\ inbox' = Append(inbox, nextOp)
    BY <1>3 DEF ShouldTerminate
  <2>2. RequestsTypeOK'
    <3>1. pending' \in Nat /\ nextOp' \in Nat \ {NoOp}
      BY <2>1 DEF RequestsTypeOK, NoOp
    <3>2. inbox' \in Seq(Nat)
      BY <2>1 DEF RequestsTypeOK
    <3>3. QED
      BY <2>1, <3>1, <3>2 DEF RequestsTypeOK
  <2>3. nextOp \in ToSet(inbox')
    <3>1. nextOp \in Nat /\ inbox \in Seq(Nat)
      BY DEF RequestsTypeOK
    <3>2. inbox' \in Seq(Nat) /\ Contains(inbox', nextOp)
      BY <2>1, <3>1, ContainsAppend
    <3>3. QED
      BY <3>2, ToSetContains
  <2>4. PendingOK'
    BY <1>3, <2>1, <2>3
    DEF PendingOK, RequestsTypeOK, DartHears, Alive, TerminateNow, PortOpen
  <2>5. ConsentOK'
    BY <2>1 DEF ConsentOK
  <2>6. QED
    BY <2>2, <2>4, <2>5
<1>4. QED
  BY <1>1, <1>2, <1>3

LEMMA QueueKeeps ==
  ASSUME TerminationInv, MainQueue
  PROVE  TerminationInv'
<1> USE DEF TerminationInv
<1>1. /\ blocks \in Seq(BlockKind) /\ blocks # <<>> /\ Alive
      /\ blocks' = Tail(blocks)
  BY DEF MainQueue, RunTerminateBlock, RunReplyBlock, RequestsTypeOK
<1>2. /\ blocks' \in Seq(BlockKind)
      /\ AnswerQueued <=> "replyYes" = Head(blocks) \/ AnswerQueued'
  BY <1>1, ContainsTail DEF AnswerQueued
<1>3. CASE RunTerminateBlock
  BY <1>1, <1>2, <1>3, ShouldTerminateKeeps DEF RunTerminateBlock
<1>4. CASE RunReplyBlock
  <2>1. /\ AnswerQueued /\ consent
        /\ asking' = IF asking = "waiting" THEN "terminating" ELSE asking
        /\ UNCHANGED <<nativeVars, dartVars, consent>>
    BY <1>2, <1>4 DEF RunReplyBlock, ConsentOK
  <2>2. RequestsTypeOK'
    BY <1>2, <2>1 DEF RequestsTypeOK, nativeVars, dartVars
  <2>3. PendingOK'
    BY <2>1 DEF PendingOK, nativeVars, dartVars, DartHears, ToSet, Alive
  <2>4. ConsentOK'
    BY <2>1 DEF ConsentOK, nativeVars, dartVars
  <2>5. QED
    BY <2>2, <2>3, <2>4
<1>5. QED
  BY <1>3, <1>4 DEF MainQueue
-----------------------------------------------------------------------------
(* Dart.                                                                     *)

LEMMA AttachKeeps ==
  ASSUME TerminationInv, Attach
  PROVE  TerminationInv'
<1> USE DEF TerminationInv, Attach, nativeVars
<1>1. RequestsTypeOK'
  BY DEF RequestsTypeOK
<1>2. PendingOK'
  BY DEF PendingOK, DartHears, ToSet
<1>3. ConsentOK' /\ (AnswerQueued' <=> AnswerQueued)
  BY DEF ConsentOK, AnswerQueued
<1>4. QED
  BY <1>1, <1>2, <1>3

\* The delivered operation moves from the port into Dart's hands.
LEMMA DeliverKeeps ==
  ASSUME TerminationInv, DeliverRequest
  PROVE  TerminationInv'
<1> USE DEF TerminationInv, DeliverRequest, nativeVars
<1>1. inbox \in Seq(Nat) /\ inbox # <<>> /\ inbox' = Tail(inbox)
  BY DEF RequestsTypeOK
<1>2. inbox' \in Seq(Nat)
  BY <1>1, ContainsTail
<1>3. RequestsTypeOK'
  BY <1>2 DEF RequestsTypeOK
<1>4. ASSUME NEW op, dart = "attached", DartHears(op)
      PROVE  op \in known' \cup ToSet(inbox')
  <2>1. known' = known \cup {Head(inbox)}
    BY <1>4
  <2>2. CASE op \in known
    BY <2>1, <2>2
  <2>3. CASE op \in ToSet(inbox)
    <3>1. op = Head(inbox) \/ Contains(inbox', op)
      BY <1>1, <2>3, ContainsTail, ToSetContains
    <3>2. QED
      BY <1>2, <2>1, <3>1, ToSetContains
  <2>4. QED
    BY <1>4, <2>2, <2>3 DEF DartHears
<1>5. PendingOK'
  BY <1>4 DEF PendingOK, DartHears, AnswerQueued, Alive
<1>6. ConsentOK'
  BY DEF ConsentOK, AnswerQueued
<1>7. QED
  BY <1>3, <1>5, <1>6

LEMMA SetDeferralKeeps ==
  ASSUME TerminationInv, NEW enabled \in BOOLEAN, SetDeferral(enabled)
  PROVE  TerminationInv'
<1> USE DEF TerminationInv, SetDeferral
<1>1. RequestsTypeOK'
  BY DEF RequestsTypeOK
<1>2. PendingOK'
  BY DEF PendingOK, DartHears, ToSet
<1>3. ConsentOK'
  BY DEF ConsentOK, AnswerQueued, Alive
<1>4. QED
  BY <1>1, <1>2, <1>3

LEMMA ReplyKeeps ==
  ASSUME TerminationInv, NEW op, NEW allow \in BOOLEAN, Reply(op, allow)
  PROVE  TerminationInv'
<1> USE DEF TerminationInv, Reply, dartVars
<1>1. RequestsTypeOK'
  <2>1. pending' \in Nat
    BY DEF NoOp
  <2>2. consent' \in BOOLEAN
    BY DEF RequestsTypeOK
  <2>3. QED
    BY <2>1, <2>2 DEF RequestsTypeOK
<1>2. PendingOK'
  BY DEF PendingOK
<1>3. consent => consent'
  OBVIOUS
<1>4. asking' = "terminating" => consent'
  OBVIOUS
<1>5. ConsentOK'
  BY <1>3, <1>4 DEF ConsentOK, AnswerQueued
<1>6. QED
  BY <1>1, <1>2, <1>5

LEMMA TerminateKeeps ==
  ASSUME TerminationInv, Terminate
  PROVE  TerminationInv'
<1> USE DEF TerminationInv, Terminate
<1>1. blocks \in Seq(BlockKind)
  BY DEF RequestsTypeOK
<1>2. CASE pending # NoOp
  <2>1. blocks' = Append(blocks, "replyYes") /\ pending' = NoOp
        /\ programmatic' = programmatic
    BY <1>2
  <2>2. AnswerQueued' /\ blocks' \in Seq(BlockKind)
    BY <1>1, <2>1, ContainsAppend DEF AnswerQueued, BlockKind
  <2>3. asking = "waiting"
    BY <1>2 DEF PendingOK, RequestsTypeOK, Alive
  <2>4. RequestsTypeOK'
    <3>1. pending' \in Nat
      BY <2>1 DEF NoOp
    <3>2. QED
      BY <2>1, <2>2, <3>1 DEF RequestsTypeOK
  <2>5. PendingOK'
    BY <2>2, <2>3 DEF PendingOK
  <2>6. ConsentOK'
    BY DEF ConsentOK
  <2>7. QED
    BY <2>4, <2>5, <2>6
<1>3. CASE pending = NoOp
  <2>1. blocks' = Append(blocks, "terminate") /\ pending' = pending
        /\ programmatic' = TRUE
    BY <1>3
  <2>2. blocks' \in Seq(BlockKind)
    BY <1>1, <2>1 DEF BlockKind
  <2>3. asking # "waiting"
    BY <1>3 DEF PendingOK
  <2>4. RequestsTypeOK'
    BY <2>1, <2>2 DEF RequestsTypeOK
  <2>5. PendingOK'
    BY <2>1, <2>3 DEF PendingOK
  <2>6. ConsentOK'
    BY DEF ConsentOK
  <2>7. QED
    BY <2>4, <2>5, <2>6
<1>4. QED
  BY <1>2, <1>3

LEMMA ClosePortKeeps ==
  ASSUME TerminationInv, ClosePort
  PROVE  TerminationInv'
<1> USE DEF TerminationInv, ClosePort, nativeVars
<1>1. RequestsTypeOK'
  <2>1. inbox' \in Seq(Nat)
    OBVIOUS
  <2>2. QED
    BY <2>1 DEF RequestsTypeOK
<1>2. PendingOK'
  BY DEF PendingOK, AnswerQueued, Alive
<1>3. ConsentOK'
  BY DEF ConsentOK, AnswerQueued
<1>4. QED
  BY <1>1, <1>2, <1>3

-----------------------------------------------------------------------------
(* The host: it queues terminations, and never an answer.                    *)

LEMMA HostKeeps ==
  ASSUME TerminationInv,
         UNCHANGED <<nativeVars, asking, dartVars, consent>>,
         blocks' \in {blocks, Append(blocks, "terminate")}
  PROVE  TerminationInv'
<1> USE DEF TerminationInv, nativeVars, dartVars
<1>1. blocks \in Seq(BlockKind) /\ "terminate" \in BlockKind
  BY DEF RequestsTypeOK, BlockKind
<1>2. blocks' \in Seq(BlockKind)
  BY <1>1
<1>3. AnswerQueued' <=> AnswerQueued
  <2>1. CASE blocks' = blocks
    BY <2>1 DEF AnswerQueued
  <2>2. CASE blocks' = Append(blocks, "terminate")
    <3>1. Contains(blocks', "replyYes")
            <=> Contains(blocks, "replyYes") \/ "replyYes" = "terminate"
      BY <1>1, <2>2, ContainsAppend
    <3>2. QED
      BY <3>1 DEF AnswerQueued
  <2>3. QED
    BY <2>1, <2>2
<1>4. RequestsTypeOK'
  BY <1>2 DEF RequestsTypeOK
<1>5. PendingOK'
  BY <1>3 DEF PendingOK, DartHears, ToSet, Alive
<1>6. ConsentOK'
  BY <1>3 DEF ConsentOK
<1>7. QED
  BY <1>4, <1>5, <1>6

-----------------------------------------------------------------------------
(* The theorems.                                                             *)

LEMMA TerminationStep ==
  TerminationInv /\ [TerminationNext]_terminationVars => TerminationInv'
<1> SUFFICES ASSUME TerminationInv, [TerminationNext]_terminationVars
             PROVE  TerminationInv'
  OBVIOUS
<1>1. CASE UserQuit
  <2>1. /\ Alive /\ ShouldTerminate /\ blocks' \in Seq(BlockKind)
        /\ AnswerQueued' <=> AnswerQueued
        /\ UNCHANGED <<defers, dart, dartDefers, known, consent>>
    BY <1>1 DEF UserQuit, TerminationInv, RequestsTypeOK, AnswerQueued
  <2>2. QED
    BY <2>1, ShouldTerminateKeeps
<1>2. CASE MainQueue
  BY <1>2, QueueKeeps
<1>3. CASE Attach
  BY <1>3, AttachKeeps
<1>4. CASE DeliverRequest
  BY <1>4, DeliverKeeps
<1>5. CASE \E enabled \in BOOLEAN : SetDeferral(enabled)
  BY <1>5, SetDeferralKeeps
<1>6. CASE \E op \in known, allow \in BOOLEAN : Reply(op, allow)
  BY <1>6, ReplyKeeps
<1>7. CASE Terminate
  BY <1>7, TerminateKeeps
<1>8. CASE ClosePort
  BY <1>8, ClosePortKeeps
<1>9. CASE \E code \in ExitCode : SetExitCode(code)
  BY <1>9, HostKeeps DEF SetExitCode
<1>10. CASE \E code \in ExitCode \cup {NoCode} : RequestTermination(code)
  BY <1>10, HostKeeps DEF RequestTermination
<1>11. CASE FatalError
  BY <1>11, HostKeeps DEF FatalError
<1>12. CASE UNCHANGED terminationVars
  BY <1>12, HostKeeps DEF terminationVars
<1>13. QED
  BY <1>1, <1>2, <1>3, <1>4, <1>5, <1>6, <1>7, <1>8, <1>9, <1>10, <1>11,
     <1>12
  DEF TerminationNext

\* The invariant the two properties below rest on: what AppKit waits for is in
\* somebody's hands, and what ends the application came from Dart.
THEOREM TerminationInvariant == TerminationSpec => []TerminationInv
<1>1. QED
  BY TerminationInitially, TerminationStep, PTL DEF TerminationSpec

\* AppKit never waits for an answer nobody can give, however requests of the
\* user, replies, Dart's own termination and the runtime's interleave
\* (HandleApplicationShouldTerminate, da_application_terminate).
THEOREM WaitAlwaysAnswerable == TerminationSpec => []WaitIsAnswerable
<1>1. TerminationInv => WaitIsAnswerable
  <2>1. SUFFICES ASSUME TerminationInv, asking = "waiting"
                 PROVE  \/ Contains(blocks, "replyYes")
                        \/ /\ dart = "attached"
                           /\ pending \in known \cup ToSet(inbox)
    BY DEF WaitIsAnswerable
  <2>2. QED
    BY <2>1
    DEF TerminationInv, RequestsTypeOK, PendingOK, DartHears, AnswerQueued,
        Alive
<1>2. QED
  BY <1>1, TerminationInvariant, PTL

\* While Dart defers termination, neither a second Quit nor a termination the
\* runtime or an unhandled error queued ends the application before Dart
\* allowed it (replyToTerminationRequest, AppKitApplication.terminate).
THEOREM AlwaysEndsOnlyWithConsent == TerminationSpec => []EndsOnlyWithConsent
<1>1. TerminationInv => EndsOnlyWithConsent
  BY DEF TerminationInv, ConsentOK, EndsOnlyWithConsent
<1>2. QED
  BY <1>1, TerminationInvariant, PTL
=============================================================================
