--------------------------- MODULE ObjectRegistry ---------------------------
(***************************************************************************)
(* The registry of native objects behind the C ABI                         *)
(* (native/bridge/src/ObjectRegistry.mm).  A slot table maps a handle, a   *)
(* pair of a slot index and the slot's generation, to an Objective-C       *)
(* object.  Every method takes the registry mutex for its whole critical   *)
(* section, so each is one atomic action.                                  *)
(*                                                                         *)
(* The single ThreadDomain of the source (kAppKitMain) is the thread Main. *)
(* slots_ is a vector that only grows until Clear; here it is the prefix   *)
(* 1..size of functions over Index, whose tail holds default Slots.        *)
(***************************************************************************)
EXTENDS Integers, Sequences, FiniteSets

CONSTANTS
  Object,         \* native objects that may be registered
  Nil,            \* Objective-C nil
  Kind,           \* the ObjectKind values in use
  Thread,         \* threads that call the registry
  Main,           \* the AppKit main thread
  MaxSlots,       \* slots_.size() can reach this: UINT32_MAX in the source
  MaxGeneration   \* kMaxSignedGeneration, INT32_MAX in the source

ObjectKind == {"window", "view", "textView", "menu", "menuItem",
               "globalHotKey", "secureEventInput"}

ASSUME RegistryAssumption ==
  /\ Nil \notin Object
  /\ Kind \subseteq ObjectKind
  /\ Main \in Thread
  /\ MaxSlots \in Nat \ {0}
  /\ MaxGeneration \in Nat \ {0}

Index == 1 .. MaxSlots
Generation == 1 .. MaxGeneration
Handle == Index \X Generation

\* DaHandle 0, which Decode rejects.
InvalidHandle == <<0, 0>>

SlotState == {"free", "live", "releasePending", "retired"}

VARIABLES
  size,         \* slots_.size()
  object,       \* Slot::object
  kind,         \* Slot::kind
  generation,   \* Slot::generation
  state,        \* Slot::state
  freeIndices,  \* free_indices_, popped and pushed at the back
  liveCount,    \* live_count_
  cleared       \* Clear has run: the process is past ShutdownBridge

slotVars == <<object, kind, generation, state>>
registryVars == <<size, slotVars, freeIndices, liveCount, cleared>>

RegistryInit ==
  /\ size = 0
  /\ object = [i \in Index |-> Nil]
  /\ kind = [i \in Index |-> "window"]
  /\ generation = [i \in Index |-> 1]
  /\ state = [i \in Index |-> "free"]
  /\ freeIndices = <<>>
  /\ liveCount = 0
  /\ cleared = FALSE

-----------------------------------------------------------------------------
(* Validation shared by the operations.                                    *)

Occupied(i) == state[i] \in {"live", "releasePending"}

Encode(i) == <<i, generation[i]>>

ObjectKindMatches(actual, expected) ==
  \/ actual = expected
  \/ actual = "textView" /\ expected = "view"

\* ValidatedSlotLocked finds a slot for the handle in the expected state.
Validated(h, expected) ==
  /\ h # InvalidHandle
  /\ h[1] \in 1 .. size
  /\ state[h[1]] = expected
  /\ generation[h[1]] = h[2]
  /\ object[h[1]] # Nil

LookupStatus(t, h, expectedKind) ==
  CASE ~Validated(h, "live") -> "invalidHandle"
    [] Validated(h, "live") /\ t # Main -> "wrongThread"
    [] Validated(h, "live") /\ t = Main
         /\ ~ObjectKindMatches(kind[h[1]], expectedKind) -> "wrongHandleType"
    [] OTHER -> "ok"

Lookup(t, h, expectedKind) ==
  IF LookupStatus(t, h, expectedKind) = "ok" THEN object[h[1]] ELSE Nil

Exhausted == freeIndices = <<>> /\ size >= MaxSlots

-----------------------------------------------------------------------------
(* Operations.  Each failing call returns early and changes nothing, so    *)
(* only the successful path of an operation is an action.                  *)

FillSlot(i, o, k) ==
  /\ object' = [object EXCEPT ![i] = o]
  /\ kind' = [kind EXCEPT ![i] = k]
  /\ state' = [state EXCEPT ![i] = "live"]
  /\ liveCount' = liveCount + 1
  /\ UNCHANGED <<generation, cleared>>

\* Insert takes the most recently freed slot.
InsertReused(t, o, k) ==
  /\ o # Nil
  /\ t = Main
  /\ freeIndices # <<>>
  /\ FillSlot(freeIndices[Len(freeIndices)], o, k)
  /\ freeIndices' = SubSeq(freeIndices, 1, Len(freeIndices) - 1)
  /\ UNCHANGED size

\* Insert appends a fresh slot when no freed one is available.
InsertAppended(t, o, k) ==
  /\ o # Nil
  /\ t = Main
  /\ freeIndices = <<>>
  /\ ~Exhausted
  /\ size' = size + 1
  /\ FillSlot(size + 1, o, k)
  /\ UNCHANGED freeIndices

Insert(t, o, k) == InsertReused(t, o, k) \/ InsertAppended(t, o, k)

\* BeginRelease may run on any thread: it is how a finalizer claims.
BeginRelease(h) ==
  /\ Validated(h, "live")
  /\ state' = [state EXCEPT ![h[1]] = "releasePending"]
  /\ UNCHANGED <<size, object, kind, generation, freeIndices, liveCount,
                 cleared>>

\* Mutant: the slot is recycled under the generation it had.
CompleteReleaseSameGeneration(t, h) ==
  /\ Validated(h, "releasePending")
  /\ t = Main
  /\ object' = [object EXCEPT ![h[1]] = Nil]
  /\ state' = [state EXCEPT ![h[1]] = "free"]
  /\ freeIndices' = Append(freeIndices, h[1])
  /\ liveCount' = liveCount - 1
  /\ UNCHANGED <<size, kind, generation, cleared>>

\* Mutant: a retired slot is put on the free list.
CompleteReleaseListsRetired(t, h) ==
  /\ Validated(h, "releasePending")
  /\ t = Main
  /\ object' = [object EXCEPT ![h[1]] = Nil]
  /\ liveCount' = liveCount - 1
  /\ freeIndices' = Append(freeIndices, h[1])
  /\ IF generation[h[1]] >= MaxGeneration
     THEN /\ state' = [state EXCEPT ![h[1]] = "retired"]
          /\ UNCHANGED generation
     ELSE /\ generation' = [generation EXCEPT ![h[1]] = @ + 1]
          /\ state' = [state EXCEPT ![h[1]] = "free"]
  /\ UNCHANGED <<size, kind, cleared>>

\* The slot is recycled under a new generation, or retired when the
\* generation can grow no further.
CompleteRelease(t, h) ==
  /\ Validated(h, "releasePending")
  /\ t = Main
  /\ object' = [object EXCEPT ![h[1]] = Nil]
  /\ liveCount' = liveCount - 1
  /\ IF generation[h[1]] >= MaxGeneration
     THEN /\ state' = [state EXCEPT ![h[1]] = "retired"]
          /\ UNCHANGED <<generation, freeIndices>>
     ELSE /\ generation' = [generation EXCEPT ![h[1]] = @ + 1]
          /\ state' = [state EXCEPT ![h[1]] = "free"]
          /\ freeIndices' = Append(freeIndices, h[1])
  /\ UNCHANGED <<size, kind, cleared>>

\* Clear drops the table, so generations start again from 1.
Clear ==
  /\ size' = 0
  /\ object' = [i \in Index |-> Nil]
  /\ kind' = [i \in Index |-> "window"]
  /\ generation' = [i \in Index |-> 1]
  /\ state' = [i \in Index |-> "free"]
  /\ freeIndices' = <<>>
  /\ liveCount' = 0
  /\ cleared' = TRUE

\* LiveHandles: the handles of the occupied slots.
LiveHandles == {Encode(i) : i \in {j \in 1 .. size : Occupied(j)}}

\* Nothing is registered after Clear: its one production caller,
\* ShutdownBridge, runs when the application terminates.
RegistryNext ==
  \/ /\ ~cleared
     /\ \E t \in Thread, o \in Object, k \in Kind : Insert(t, o, k)
  \/ \E h \in Handle : BeginRelease(h)
  \/ \E t \in Thread, h \in Handle : CompleteRelease(t, h)
  \/ Clear

RegistrySpec == RegistryInit /\ [][RegistryNext]_registryVars

-----------------------------------------------------------------------------
\* The stage of a handle, read off its slot.
LeaseStage(h) ==
  LET i == h[1]
      g == h[2]
  IN  IF cleared THEN "dead"
      ELSE IF g < generation[i] THEN "dead"
      ELSE IF g > generation[i] \/ state[i] = "free" THEN "unissued"
      ELSE IF state[i] = "live" THEN "live"
      ELSE IF state[i] = "releasePending" THEN "claimed"
      ELSE "dead"

-----------------------------------------------------------------------------
(* Properties.                                                             *)

\* Every field of the registry holds a value of its C++ type.
TypeOK ==
  /\ size \in 0 .. MaxSlots
  /\ object \in [Index -> Object \cup {Nil}]
  /\ kind \in [Index -> ObjectKind]
  /\ generation \in [Index -> Generation]
  /\ state \in [Index -> SlotState]
  /\ freeIndices \in Seq(Index)
  /\ liveCount \in Int
  /\ cleared \in BOOLEAN

\* Slots the vector has not reached yet are default constructed.
FreshTail ==
  \A i \in Index : i > size => generation[i] = 1 /\ state[i] = "free"

\* A slot holds an object exactly while its handle is live or claimed, so a
\* recycled slot keeps no native object alive.
ObjectMatchesState ==
  \A i \in Index : object[i] # Nil <=> Occupied(i)

\* free_indices_ lists every recyclable slot once: a slot missing from it
\* would leak, a slot listed twice would be handed to two objects.
FreeListExact ==
  /\ \A j \in 1 .. Len(freeIndices) :
       freeIndices[j] <= size /\ state[freeIndices[j]] = "free"
  /\ \A i \in 1 .. size : state[i] = "free" =>
       \E j \in 1 .. Len(freeIndices) : freeIndices[j] = i
  /\ \A j, k \in 1 .. Len(freeIndices) :
       freeIndices[j] = freeIndices[k] => j = k

\* live_count_, which shutdown reports as the leak count, is the number of
\* occupied slots.
LiveCountExact ==
  liveCount = Cardinality({i \in Index : Occupied(i)})

\* Only a slot whose generation is spent is retired.
RetiredOnlyWhenSpent ==
  \A i \in Index : state[i] = "retired" => generation[i] = MaxGeneration

RegistryInv ==
  /\ TypeOK
  /\ FreshTail
  /\ ObjectMatchesState
  /\ FreeListExact
  /\ RetiredOnlyWhenSpent

\* Insert reports an exhausted handle space only when no slot is reusable.
ExhaustionIsReal ==
  Exhausted => \A i \in Index : Occupied(i) \/ state[i] = "retired"

-----------------------------------------------------------------------------
(* The registry implements HandleLease.                                    *)

\* What the handle leads to: the object its release has claimed, or whatever
\* a lookup on the main thread finds under it.
LeaseTenant(h) ==
  IF LeaseStage(h) = "claimed" THEN object[h[1]]
  ELSE Lookup(Main, h, kind[h[1]])

HL == INSTANCE HandleLease
        WITH lease <- [h \in Handle |-> LeaseStage(h)],
             tenant <- [h \in Handle |-> LeaseTenant(h)]

\* A handle is granted, claimed and returned at most once, and once returned
\* leads to no object again, whatever slot is recycled: a lookup finds the
\* object the handle was granted for or none.
ImplementsHandleLease == HL!LeaseSpec
=============================================================================
