----------------------------- MODULE MessagePump -----------------------------
(***************************************************************************)
(* The queue that carries Dart isolate notifications to the AppKit main    *)
(* thread (native/runner/DartMessagePump.mm).  Any thread may enqueue; a   *)
(* CFRunLoopSource is signalled to make the main run loop drain a bounded  *)
(* number of messages per turn.  A handler may run a nested run loop (a    *)
(* modal panel, menu tracking), which performs the source re-entrantly,    *)
(* and may stop or restart the pump.                                       *)
(*                                                                         *)
(* Messages are numbered in the order the queue accepts them.  The elapsed *)
(* time budget is a choice to leave the turn after any message.            *)
(***************************************************************************)
EXTENDS Integers, Sequences, FiniteSets

CONSTANTS
  Producer,      \* threads that schedule messages
  MaxPerTurn,    \* limits_.max_messages_per_turn
  MaxMessages,   \* bound on messages accepted in a behaviour
  MaxStarts,     \* bound on sources created by Start
  MaxDepth       \* bound on nested run loops

ASSUME PumpAssumption ==
  /\ IsFiniteSet(Producer)
  /\ MaxPerTurn \in Nat \ {0}
  /\ MaxMessages \in Nat
  /\ MaxStarts \in Nat \ {0}
  /\ MaxDepth \in Nat \ {0}

Source == 1 .. MaxStarts
NoSource == 0
Message == 1 .. MaxMessages

VARIABLES
  running,    \* running_
  pending,    \* pending_
  source,     \* source_, NoSource when null
  starts,     \* sources created so far
  signaled,   \* the signalled bit of each CFRunLoopSource
  refs,       \* the retain count of each CFRunLoopSource
  producer,   \* Enqueue in progress on each thread
  frames,     \* DrainOneTurn activations on the main thread, innermost last
  accepted,   \* stats_.accepted_notifications
  handled,    \* stats_.handled_messages
  dropped,    \* history: messages Stop discarded
  last        \* history: the message handled most recently

pumpVars == <<running, pending, source, starts, signaled, refs, producer,
              frames, accepted, handled, dropped, last>>

AtRest == [pc |-> "rest", src |-> NoSource]

Init ==
  /\ running = FALSE
  /\ pending = <<>>
  /\ source = NoSource
  /\ starts = 0
  /\ signaled = [s \in Source |-> FALSE]
  /\ refs = [s \in Source |-> 0]
  /\ producer = [p \in Producer |-> AtRest]
  /\ frames = <<>>
  /\ accepted = 0
  /\ handled = 0
  /\ dropped = 0
  /\ last = 0

Depth == Len(frames)
Top == frames[Depth]
WithTop(frame) == [frames EXCEPT ![Depth] = frame]
WithoutTop == SubSeq(frames, 1, Depth - 1)

\* The main thread runs other code between turns and inside a handler.
MainThreadFree == frames # <<>> => Top.pc = "handling"

\* The pump and the run loop each hold a reference to an installed source.
OwnedRefs == 2

Start ==
  /\ MainThreadFree
  /\ ~running
  /\ starts < MaxStarts
  /\ starts' = starts + 1
  /\ source' = starts + 1
  /\ refs' = [refs EXCEPT ![starts + 1] = OwnedRefs]
  /\ running' = TRUE
  /\ UNCHANGED <<pending, signaled, producer, frames, accepted, handled,
                 dropped, last>>

Stop ==
  /\ MainThreadFree
  /\ running
  /\ running' = FALSE
  /\ pending' = <<>>
  /\ dropped' = dropped + Len(pending)
  /\ source' = NoSource
  /\ refs' = [refs EXCEPT ![source] = @ - OwnedRefs]
  /\ UNCHANGED <<starts, signaled, producer, frames, accepted, handled, last>>

-----------------------------------------------------------------------------
(* Enqueue, on any thread: a critical section, then the signal outside it. *)

\* Mutant: the source is not retained across the unlock.
EnqueueUnretained(p) ==
  /\ producer[p].pc = "rest"
  /\ running
  /\ accepted < MaxMessages
  /\ accepted' = accepted + 1
  /\ pending' = Append(pending, accepted + 1)
  /\ producer' = [producer EXCEPT ![p] = [pc |-> "signal", src |-> source]]
  /\ UNCHANGED <<running, source, starts, signaled, refs, frames, handled,
                 dropped, last>>

\* A stopped pump drops the notification.
Enqueue(p) ==
  /\ producer[p].pc = "rest"
  /\ running
  /\ accepted < MaxMessages
  /\ accepted' = accepted + 1
  /\ pending' = Append(pending, accepted + 1)
  /\ refs' = [refs EXCEPT ![source] = @ + 1]
  /\ producer' = [producer EXCEPT ![p] = [pc |-> "signal", src |-> source]]
  /\ UNCHANGED <<running, source, starts, signaled, frames, handled, dropped,
                 last>>

SignalAndWake(p) ==
  /\ producer[p].pc = "signal"
  /\ signaled' = [signaled EXCEPT ![producer[p].src] = TRUE]
  /\ refs' = [refs EXCEPT ![producer[p].src] = @ - 1]
  /\ producer' = [producer EXCEPT ![p] = AtRest]
  /\ UNCHANGED <<running, pending, source, starts, frames, accepted, handled,
                 dropped, last>>

-----------------------------------------------------------------------------
(* DrainOneTurn, on the main thread.                                       *)

\* The run loop clears the signal and performs the source.
PerformSource ==
  /\ MainThreadFree
  /\ Depth < MaxDepth
  /\ source # NoSource
  /\ signaled[source]
  /\ signaled' = [signaled EXCEPT ![source] = FALSE]
  /\ frames' = Append(frames, [pc |-> "loop", handled |-> 0,
                               src |-> NoSource])
  /\ UNCHANGED <<running, pending, source, starts, refs, producer, accepted,
                 handled, dropped, last>>

\* Mutant: the newest message is taken first.
TakeNewest ==
  /\ frames # <<>>
  /\ Top.pc = "loop"
  /\ IF Top.handled < MaxPerTurn /\ running /\ pending # <<>>
     THEN /\ pending' = SubSeq(pending, 1, Len(pending) - 1)
          /\ last' = pending[Len(pending)]
          /\ frames' = WithTop([Top EXCEPT !.pc = "handling"])
     ELSE /\ frames' = WithTop([Top EXCEPT !.pc = "tail"])
          /\ UNCHANGED <<pending, last>>
  /\ UNCHANGED <<running, source, starts, signaled, refs, producer, accepted,
                 handled, dropped>>

\* The turn takes the next message within its budget, or ends.
TakeMessage ==
  /\ frames # <<>>
  /\ Top.pc = "loop"
  /\ IF Top.handled < MaxPerTurn /\ running /\ pending # <<>>
     THEN /\ pending' = Tail(pending)
          /\ last' = Head(pending)
          /\ frames' = WithTop([Top EXCEPT !.pc = "handling"])
     ELSE /\ frames' = WithTop([Top EXCEPT !.pc = "tail"])
          /\ UNCHANGED <<pending, last>>
  /\ UNCHANGED <<running, source, starts, signaled, refs, producer, accepted,
                 handled, dropped>>

\* The handler returns; the elapsed time may end the turn here.
HandlerReturns ==
  /\ frames # <<>>
  /\ Top.pc = "handling"
  /\ \E next \in {"loop", "tail"} :
       frames' = WithTop([Top EXCEPT !.pc = next, !.handled = @ + 1])
  /\ UNCHANGED <<running, pending, source, starts, signaled, refs, producer,
                 accepted, handled, dropped, last>>

\* Mutant: the turn ends without signalling what it left behind.
EndTurnSilently ==
  /\ frames # <<>>
  /\ Top.pc = "tail"
  /\ handled' = handled + Top.handled
  /\ frames' = WithoutTop
  /\ UNCHANGED <<running, pending, source, starts, signaled, refs, producer,
                 accepted, dropped, last>>

\* The turn records its count and, when messages remain, will signal again.
EndTurn ==
  /\ frames # <<>>
  /\ Top.pc = "tail"
  /\ handled' = handled + Top.handled
  /\ IF running /\ pending # <<>>
     THEN /\ frames' = WithTop([Top EXCEPT !.pc = "signal", !.src = source])
          /\ refs' = [refs EXCEPT ![source] = @ + 1]
     ELSE /\ frames' = WithoutTop
          /\ UNCHANGED refs
  /\ UNCHANGED <<running, pending, source, starts, signaled, producer,
                 accepted, dropped, last>>

Resignal ==
  /\ frames # <<>>
  /\ Top.pc = "signal"
  /\ signaled' = [signaled EXCEPT ![Top.src] = TRUE]
  /\ refs' = [refs EXCEPT ![Top.src] = @ - 1]
  /\ frames' = WithoutTop
  /\ UNCHANGED <<running, pending, source, starts, producer, accepted, handled,
                 dropped, last>>

DrainStep ==
  PerformSource \/ TakeMessage \/ HandlerReturns \/ EndTurn \/ Resignal

Next ==
  \/ Start
  \/ Stop
  \/ \E p \in Producer : Enqueue(p) \/ SignalAndWake(p)
  \/ DrainStep

Spec == Init /\ [][Next]_pumpVars

\* Scheduling threads finish Enqueue, the main run loop performs a signalled
\* source and every handler returns.
FairSpec ==
  /\ Spec
  /\ \A p \in Producer : WF_pumpVars(SignalAndWake(p))
  /\ WF_pumpVars(PerformSource)
  /\ WF_pumpVars(TakeMessage)
  /\ WF_pumpVars(HandlerReturns)
  /\ WF_pumpVars(EndTurn)
  /\ WF_pumpVars(Resignal)

-----------------------------------------------------------------------------
(* Properties.                                                             *)

Frame == [pc : {"loop", "handling", "tail", "signal"},
          handled : Nat, src : Source \cup {NoSource}]

\* Every variable holds a value of its type.
TypeOK ==
  /\ running \in BOOLEAN
  /\ pending \in Seq(Message)
  /\ source \in Source \cup {NoSource}
  /\ starts \in 0 .. MaxStarts
  /\ signaled \in [Source -> BOOLEAN]
  /\ refs \in [Source -> Nat]
  /\ producer \in [Producer -> [pc : {"rest", "signal"},
                                src : Source \cup {NoSource}]]
  /\ frames \in Seq(Frame)
  /\ accepted \in 0 .. MaxMessages
  /\ handled \in Nat
  /\ dropped \in Nat
  /\ last \in 0 .. MaxMessages

\* A waiting message always has someone to bring the main thread to it: the
\* source is signalled, a producer is about to signal it, or a turn is under
\* way that will look at the queue again before it ends.
NoLostWakeup ==
  running /\ pending # <<>> =>
    \/ signaled[source]
    \/ \E p \in Producer : producer[p] = [pc |-> "signal", src |-> source]
    \/ frames # <<>>

\* A thread about to signal a source still holds a reference to it, even when
\* Stop has released the pump's own in the meantime.
SignalsLiveSource ==
  /\ \A p \in Producer : producer[p].pc = "signal" =>
       refs[producer[p].src] > 0
  /\ \A d \in 1 .. Depth : frames[d].pc = "signal" => refs[frames[d].src] > 0

\* Messages reach their isolates in the order the queue accepted them, across
\* turns, nested turns and restarts.
HandledInOrder == [][last' # last => last' > last]_pumpVars

\* Every accepted message leaves the queue: a turn handles it or Stop drops
\* it.
EveryMessageLeaves ==
  \A m \in Message :
    (\E j \in 1 .. Len(pending) : pending[j] = m) ~>
      ~(\E j \in 1 .. Len(pending) : pending[j] = m)
=============================================================================
