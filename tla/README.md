# A TLA+ model of dart_appkit

`dart_appkit` lets a Dart program own AppKit windows on macOS. The Dart VM is
embedded in a native process; the root isolate runs on the AppKit main thread;
Dart calls a C bridge (`native/bridge`), and the bridge talks back only by
posting event records to a Dart port. This directory models the parts of it
that carry state across calls, threads, callbacks or crashes.

Paths below are relative to the repository; in `PROJECT.json` they start with
`src/`.

## 1. Inventory

| Component | State | Operations | Hard behaviour | What makes it correct |
|---|---|---|---|---|
| Object registry (`ObjectRegistry.mm`) | slots with generation, object, kind, domain, state; free list; live count | Insert, Lookup, BeginRelease, LookupPendingRelease, CompleteRelease, Clear, LiveHandles | handle reuse, exhausted generations, a full table | a handle never resolves to another object; counts and free list are exact |
| Release and shutdown (`AppKitBridge.mm`) | accept flag, epoch, queued main-queue blocks | da_release, da_release_async, finalizer, ShutdownBridge, ResetBridgeForTesting | finalizer threads race the main thread and shutdown | each object is torn down once, none survives shutdown |
| Message pump (`DartMessagePump.mm`) | queue, running flag, run-loop source, references | Start, Stop, Enqueue, PerformSource, DrainOneTurn | enqueue on any thread, nested run loops, stop in a handler | no lost wakeup, no lost or reordered message, no use of a released source |
| Termination (`AppKitBridge.mm`, `RuntimeLifecycle.mm`, `AppDelegate.mm`, `application.dart`) | deferral flag, pending operation, programmatic flag, requested exit code, Dart flags | quit, reply, terminate, set deferral, runtime request, fatal error | AppKit waits for a reply that comes through three queues | it never waits for what nobody can answer; deferral is honoured |
| Fullscreen (`TextView.mm`, `window.dart`) | observed state, pending target, Dart request | request, will/did/fail callbacks, frame records | asynchronous transitions that may fail | Dart ends up with the real state; no intermediate frame is reported |
| Presentation and closing (`TextView.mm`, `AppKitBridge.mm`, `window.dart`) | generation, pending close, last reported visibility, Dart cache | show, present, hide, close, reply, release | animations complete late; closing is deferred | stale completions do nothing; a close stays answerable |
| Event protocol (`EventSink.mm`, `DartEventEncoder.cc`, `events.dart`) | poster, port, version, three observers, cached application state | install, attach, negotiate, observe, post, decode, terminate | two tables in two languages, fifteen versions, re-registration | every record decodes, the cache becomes current |
| User notifications (`AppKitBridge.mm`) | pending, tracked, delivered entries, requests, epoch | post, post tracked, query, authorize, remove, respond, shutdown | chains of completion handlers that outlive what they were for | one result per operation, no response for another notification |
| Diagnostics (`RuntimeDiagnostics.mm`) | current and previous record files, temporary file, health | Start, RecordPhase, Finish | crashes and failures between system calls | whole records, an unclean run is kept |
| Global hot keys (`AppKitBridge.mm`) | shared event handler, identifier map, Carbon registrations | register, release, dispatch a press | registrations that fail half-way, presses dispatched late | map, Carbon and owners agree; a press reaches its own key only |
| Secure event input (`AppKitBridge.mm`) | desired and owned flags, last status | create, set, activation notice, release | Carbon refuses, the application's activity changes before it is announced | the reference held is the one that is owned |
| Drop destinations (`AppKitBridge.mm`, `TextView.mm`) | policy of each view, session of each window | set policy, drag callbacks, release | policies, views and the pointer change between two callbacks of a drag | a drop goes where it was offered, under the policy of the offer |
| Services, Quick Look, folder Services | requestor, observer or provider of a view | register, one callback | none across callbacks | records only for the registration in force |
| Menus, text views, editors, split views, pasteboard, save panel, URLs, definitions | AppKit widgets | synchronous setters and getters | none across calls | argument checks |
| Dart API objects and FFI bindings | handle, disposed flag, finalizer | create, call, dispose | finalizer after dispose | one release per handle |
| Runner and hosts (`main.mm`, `RunnerArguments.cc`, `AppDelegate.mm`, `DartHost.mm`, the runtimes, `AotCommandRunner.cc`) | arguments, Engine, isolate, pump, exit codes | parse, start, run, terminate, exit | a start that fails at any step, order of teardown, which of several codes the process ends with | the Engine outlives its use; the status tells what failed |
| Public Dart API host probe (`PublicDartApiHostProbe.cc`) | resources of Start, message notifications, report, counters | start, four probes, wait, callbacks, shutdown | VM threads and child isolates against a main thread that waits with a deadline | no wakeup is lost, verdicts are just, teardown is orderly |
| Runtime bundle builder (`builder.dart`, `Makefile`) | build directory with host and bundle | one build: host, deletion of the old bundle, assembly, signing | stale host of another architecture, failure half-way | a bundle is what its manifest says |
| Universal assembler (`universal_assembler.dart`) | staging, output, backup | load, merge, copy, seal, publish | inputs replaced while they are read, death between renames | both architectures, evidence of the real inputs, no lost output |
| Distribution publisher (`distribution_publisher.dart`) | staging, output, backup, notary request | validate, copy, sign, submit, staple, archive, publish | the same, and a service that decides later | only notarized content is published |
| Launcher (`tool/launcher.dart`) | build directory with Runner, Kernel and bundle | check, build, compile, assemble, run | two launchers share one build directory | the Runner runs the Kernel just compiled |

Components interact in four ways. Dart calls the C entry points synchronously
on the main thread. The bridge answers later with records, through
`PostEvent`, the encoder and the VM's port, which the message pump delivers.
Finalizers call the bridge on any thread and hop to the main queue. AppKit,
the notification center and the file system call back, or fail, in their own
time.

## 2. Modules

| Module | Models | Built on |
|---|---|---|
| `HandleLease` | what a handle promises: claimed at most once, never valid again | abstract specification |
| `ObjectRegistry` | `ObjectRegistry.mm`, one action per operation | refines `HandleLease` |
| `ReleaseProtocol` | releases, finalizer threads step by step, shutdown sweep, reset | EXTENDS `ObjectRegistry` |
| `MessagePump` | `DartMessagePump.mm` at lock granularity | |
| `TerminationProtocol` | AppKit, bridge, runtime and Dart sides of termination | |
| `WindowFullscreen` | fullscreen transitions and their records | |
| `WindowPresentation` | presentation, closing, visibility records, release | |
| `EventCodec` | the record tables of encoder, sink and decoder, as operators | |
| `EventSession` | attach, observers, delivery, Dart's cache | EXTENDS `EventCodec` |
| `UserNotifications` | the notification chains | |
| `RunDiagnostics` | record files over crashes | |
| `SystemGrants` | hot keys and secure event input, with Carbon as environment | |
| `DropDestination` | drags over windows, offers and drops | |
| `Callbacks` | the parts that turn callbacks into events, side by side | INSTANCE `EventSession`, `WindowFullscreen`, `WindowPresentation`, `DropDestination`; EXTENDS `SystemGrants` |
| `RunnerArguments` | the Runner's command line, read argument by argument | |
| `HostLifecycle` | the four kinds of host process, from arguments to exit status | EXTENDS `MessagePump`, `RunnerArguments` |
| `PublicHostProbe` | the conformance host and the callbacks of the VM | |
| `StagedOutput` | how a tool replaces its output: staging, backup, two renames | instantiated twice |
| `BundleBuilder` | one thin build | |
| `UniversalAssembler` | two thin bundles into one application | EXTENDS `BundleBuilder`, INSTANCE `StagedOutput` |
| `DistributionPublisher` | signing, notarization, stapling, evidence | EXTENDS `UniversalAssembler`, INSTANCE `StagedOutput` |
| `DistributionPipeline` | the three tools on one file system | EXTENDS `DistributionPublisher` |
| `*Proofs` | theorems, in section 5 | TLAPS |

`MCx.tla` with `MCx.cfg` instantiates module `x` for TLC. Three modules put
parts side by side that share no state: `Callbacks`, `MCBridge` (registry and
termination) and `MCFiles` (`DistributionPipeline` and `RunDiagnostics`). Their
variable `subject` names the part a behaviour exercises; the others stay in one
initial state. `MCBuildArchitecture.cfg`, `MCTerminationRequest.cfg`,
`MCMessageBudget.cfg`, `MCRunnerStatus.cfg` and `MCShutdownEntered.cfg` are
second configurations, of `DistributionPipeline`, `MCBridge` and
`MCHostLifecycle`. Variables bear the names of the fields they stand for
or say so where they are declared; `PROJECT.json` maps every definition to its
lines. Variables marked *history* exist for properties only. Operators marked
*Mutant* are plausible bugs: each property is shown to fail under one.

How the modules correspond to the code:

- `ObjectRegistry`: a handle is the pair of index and generation that
  `EncodeHandle` packs; slots, free list and live count are the fields of the
  class. Every method holds the one mutex, so every method is one action.
- `ReleaseProtocol`: the accept flag and the epoch are the atomics of
  `AppKitBridge.mm`; a finalizer thread is a program that reads the flag,
  claims the handle and queues a block, one shared access per step. The main
  thread is one program too. Tearing an object down is counted, its kind's own
  teardown is not modelled.
- `MessagePump`: `Enqueue` is two steps, inside the mutex and after it.
  `frames` is the main thread's stack of `DrainOneTurn` activations: a handler
  may run a nested run loop, `Stop` or `Start`. Retain counts of run-loop
  sources are explicit.
- `TerminationProtocol`, `WindowFullscreen`, `WindowPresentation`: all native
  code is on the main thread, so a handler is one action; what separates
  actions are the main dispatch queue, AppKit's callbacks and the event port,
  each a variable. The Dart half (`application.dart`, `window.dart`) is in the
  same module, since the properties relate the two.
- `EventCodec` tabulates, for each record type, first version, payload and
  source, once for the encoder, once for the sink and once for the decoder; a
  payload is its list of kinds of field. `EventSession` is the life of a port.
- `UserNotifications`: one state per tracked or untracked operation (`Op`); a
  completion handler of the center with its hop to the main queue is one
  action that may happen at any time, in any order.
- `RunDiagnostics`: one action per system call of a record write; files are
  names that point to inodes, so a rename is a change of a name.
- `SystemGrants`: Carbon's registrations and its count of references are the
  environment; a press waits in `presses` until it is dispatched, and the
  activation notice trails the change by one step. `ShutdownBridge` releases
  each owner, which is the action a release is.
- `DropDestination`: one action per `NSDraggingDestination` callback; where the
  pointer is and what the source offers is chosen anew at each, within one
  drag. Payloads and their limits are one choice, whether they can be copied.
- `RunnerArguments`: the loop of `ParseRunnerArguments`, one argument per step;
  a word stands for every argument that is not an option, the separator or
  empty.
- `HostLifecycle`: `stage` is the position of the main thread; the four hosts
  differ in what they check, in the limit they give their pump and in how the
  process ends. Messages run through the actions of `MessagePump`. Whether a
  termination is postponed is a choice here and the subject of
  `TerminationProtocol`.
- `PublicHostProbe`: the members of `ProbeState` under its mutex, the main
  thread split where it gives the mutex up, the callbacks at the points where
  they take and leave it. The VM, its threads and the Dart program of the probe
  are external.
- the distribution modules: a bundle is reduced to the architectures and the
  revision of what is in it, with the evidence (hashes) it carries; a step is a
  change of the file system.

## 3. Hard behaviour

`PROJECT.json` lists the hazards with the line where each bites and the
properties that cover it. The families are

- claims on one handle from several threads, and blocks that outlive the
  session they were queued in (registry, release);
- a lock given up before the signal, and reentrancy (pump);
- replies that arrive through queues after what they reply to has changed
  (termination, closing, notifications, presses of a hot key, a late report);
- calls of the system that may fail at any time, and what is held then (hot
  keys, secure input, start of a host);
- several callbacks that form one operation, and registrations that change
  between them (drops);
- the order in which things are taken from under threads that still use them
  (pump and Engine, probe and VM);
- completions of something superseded (presentation, notifications);
- observers that suppress repeats across re-registration (events);
- tables kept by hand in two languages (codec);
- death between two file operations, and inputs that change while they are
  read (diagnostics, distribution).

Known limits, some of them weak spots of the code, that no property covers:

- `window.dart:588`: `Window.setFullscreen` drops a request equal to
  `_requestedFullscreen`; a failed entry posts nothing that clears it, so every
  retry is dropped. `AtRest => requested = None` does not hold in
  `WindowFullscreen`. No document promises the retry.
- `AppKitBridge.mm:461`: when Carbon refuses the release of the secure input
  reference as its owner is released, the owner is gone and nobody retries;
  `docs/C_ABI.md:357` speaks of "retaining ownership knowledge for a later
  retry" for failures in general. `LeaseFollowsRequest` counts these references
  in `stranded`; without the count it does not hold.
- `AppKitBridge.mm:4825`: a frame change cancels the completion that was to
  report the new visibility. `VisibilityObserved` excepts this case through
  `cutShort`; without the exception it does not hold.
- `AppKitBridge.mm:1863`: an untracked post under the identifier of a tracked
  notification replaces that notification in the center and leaves the response
  entry of the tracked operation, so a click on the replacement reports the
  earlier operation. `ResponseFollowsDelivery` excepts the operations this
  happened to (`overtaken`) until a tracked post or a removal of the identifier
  takes the entry back; without the exception it does not hold.
- `AppDelegate.mm:120`: a termination that a nested run loop serves shuts the
  Engine down under the Dart code that opened it, see the finding
  `shutdown_entered`. `EngineOutlivesItsUse` speaks of the time up to that
  final shutdown.
- `PublicDartApiHostProbe.cc:553`: once the microtask probe has timed out, its
  late report ends the lifecycle probe as failed. `VerdictIsJust` is of the
  verdict as a whole, which is negative by then.
- `window.dart:687`: `_closed` is never reset when a closed window is shown
  again.
- `PublicDartApiHostProbe.cc:482`: when `Dart_Cleanup` fails, the library of the
  snapshot is closed all the same, with the VM still running.
  `TeardownIsOrderly` excepts this case.
- `RuntimeDiagnostics.mm:378`: one failed write stops all later ones of a
  session, the final one included, so a clean run can be retained as unclean.
- `RuntimeDiagnostics.mm:161`: the temporary file has a fixed name, so two
  instances of one application disturb each other. `Process` is a parameter of
  `RunDiagnostics`, but the run uses one.
- `universal_assembler.dart:207`: inputs are hashed once and read again. If a
  build replaces them in between, an application can carry evidence of inputs
  it was not made from. `EvidenceHolds` is claimed only for undisturbed runs
  (`clean`); resources are checked once more by the publisher.
- a table whose slots have all retired stays full (`ObjectRegistry.mm:115`):
  that takes `INT32_MAX` generations of every slot.

## 4. Runs

| Run | Question | Bounds |
|---|---|---|
| `bridge` | Does the table implement the lease, lookups finding the object a handle was granted for or none, through reuse and retirement? Can AppKit wait for ever, is deferral honoured, does a Dart terminate end the application? | 2 objects, 2 threads, 3 slots, 3 generations; exit codes 3 and 5, 2 termination operations |
| `release` | Is each object torn down at most once, and everything by the end of shutdown? | 1 object, main and one thread, 2 slots, 2 generations, 1 re-opening |
| `host` | Does the parser accept the usage and nothing else? Can a wakeup, a message or the order get lost, a released source be signalled? Does the Engine outlive its use, does the status tell what failed? | lines of 8 arguments, 2 threads of the Engine, 3 messages, turns of 2, nesting 2, 1 queued termination |
| `probe` | Is the waiting main thread always woken, the verdict just, the teardown orderly, does the probe end? | 1 VM thread, 1 child, 2 messages waiting, both modes, every failing step |
| `callbacks` | Does every record decode in every version and leave the current state? Are fullscreen, visibility and closing observed and answerable? Are hot keys and the secure input lease exact? Does a drop follow its offer? | 2 attaches, 2 changes; 3 records; 4 presentation generations, 2 close operations; 3 keys, 2 presses, 1 stranded reference; 2 windows, 2 nested views, 2 drags |
| `notifications` | Does each operation get one result, does a response belong to what was delivered? | 2 identifiers, 1 pending, 3 operations, 1 untracked post, 2 epochs |
| `files` | Do concurrent, failing and dying tools keep outputs, architectures, evidence and notarization? Are records whole, and unclean runs retained, whatever crash? | 2 directories (symmetric), 1 build, 2 assemblies, 1 publication; 3 launches, 2 modes, phases 0 to 2, 1 failing call |
| `termination_request` | violation: a later runtime request asks nobody | as `bridge` |
| `build_architecture` | violation: a bundle with the host of another architecture | 1 build |
| `message_budget` | violation: the release host ignores the limit of its manifest | manifest 1, default 2 |
| `runner_status` | violation: a failed plain Runner exits with 0 | as `host` |
| `shutdown_entered` | violation: the Engine is shut down under Dart code | as `host`, the three AppKit hosts |

Why the bounds are enough. Each is the smallest at which the hazards occur:
three generations reuse a slot twice and retire it, three slots let the free
list have an order; one object and two threads give every race for one handle,
and one re-opening gives a stale block; three messages exceed one turn's budget
of two, with nesting two another turn begins inside a handler; eight arguments
are the three options with their values, the separator and one argument for the
application, and a repeated or missing option occurs below that; two
termination operations let a reply be stale; four generations let a stale hide
meet a show in between; two changes let the second be compared with the first
across a new attach; three keys let a chord be given up, claimed again and
disturbed by a third, with two presses under way; two nested views let the
deeper one lose or gain its policy, two windows let a drag move on, two drags
let a session be old; two waiting messages let a token be stored while one is
handled; three launches retain a record and then replace it; one pending
notification with two identifiers is a full table. The pipeline starts
empty or with the outputs of an earlier, undisturbed round, so that one build
and one publication replace something; the second assembly changes the source while the publisher
reads it. Symmetry is used where the set's elements are only compared, and in
runs without liveness properties.

Deadlock is not checked: in every run the process ends, an object is gone, or a
bound stops everything.

### Fairness

- `release`: weak fairness of each step of a releasing thread and of the main
  thread. Threads are scheduled, and the main queue is drained while the
  application runs and through shutdown.
- `host`: weak fairness of the launch and of the end of the process, of a
  producer's signal, of the run loop performing a signalled source and a queued
  termination, and of the steps of a turn. A handler and Dart's `main` are
  assumed to return; what Dart asks for, the user, messages and nesting are not
  fair.
- `probe`: weak fairness of the main thread, of the clock reaching the deadline,
  of callbacks that have begun and of child isolates ending. Neither messages
  nor reports nor the wakeups of the wait are fair: `ProbeEnds` rests on the
  deadline.
- `bridge`: weak fairness of the main queue only. Neither the user nor
  Dart is fair: `TerminateTakesEffect` does not depend on a reply.
- `notifications`: weak fairness of each operation's progress, which says that
  the center calls every completion handler, as its interface promises, and
  that the main queue is drained.

### Findings

- `termination_request`: `RuntimeLifecycle.mm:86` keeps `termination_requested`
  set for ever. After a deferred termination has been refused by Dart, a later
  `dmr_runtime_request_termination` with another result returns OK and queues
  nothing.
- `build_architecture`: the default build directory (`builder.dart:511`) does
  not depend on the target architecture, and `make` rebuilds the host only when
  a source is newer (`Makefile:443`). A build for another architecture can sign
  a bundle with the old host. The assembler checks the slices, so the bundle
  does not get further: `BothArchitectures` holds.
- `message_budget`: `ReleaseAotRunner.mm:57` creates `DartMessagePump` without
  the limits of the manifest, so the defaults apply; `docs/ARCHITECTURE.md:66`
  says that the manifest selects them.
- `runner_status`: `main.mm:42` returns the exit code of the delegate after
  `[application run]`, which does not return when AppKit terminates the
  application; the recorded 70 is lost. `docs/ARCHITECTURE.md:320` promises 70
  for startup failures and unhandled message errors. The two runtimes exit
  themselves.
- `shutdown_entered`: the save panel runs a modal loop inside the Dart call that
  opened it (`AppKitBridge.mm:1660`), from `main` or from a message handler.
  That loop serves the main queue and Quit, so `applicationWillTerminate:` can
  shut the Engine down (`AppDelegate.mm:120`) while the isolate is entered. The
  bridge queues a Dart termination so that Dart returns first, and
  `docs/WORKLOG.md:1363` concludes that this "preserves the no-re-entry and
  no-shutdown-while-entered invariants"; in a nested loop it does not.

## 5. Proofs

TLC checks the instances above. The theorems hold for every value of the
constants that satisfies the named assumption of the module. Each invariant is
proved from a strengthening: it holds initially, each action keeps it, it
implies the property.

- **Registry** (`BridgeProofs`). `RegistryInv` says of the free list
  that it has no duplicates and holds exactly the free slots, of each slot that
  its state and object fit and that it retires only at the last generation, and
  that slots past the end of the table are fresh. Without the first, `Insert`
  could reuse an occupied slot, and the lease would break. From it follow
  `RegistryTypeCorrect`, `FreeListAlwaysExact`, `LiveCountAlwaysExact`,
  `ExhaustionAlwaysReal` (an insertion fails only when no slot is left) and
  `RegistryImplementsHandleLease`: initial states map to initial states and each
  step to a lease step or a stutter. What a live handle stands for is what
  `Lookup` finds, so the refinement covers lookups of old handles too.
- **Release** (`BridgeProofs`). `ReleaseInv` adds three facts to `RegistryInv`.
  Each incarnation of the bridge has two epochs, so a block carries the current
  one only while the incarnation it was queued in accepts releases:
  `BlocksAlwaysStayInTheirEpoch`. A handle whose object was torn down has ended
  for the registry, or the main thread is about to end it, so no claim succeeds
  again: `AlwaysTornDownAtMostOnce`. What the sweep has still to visit includes
  every occupied slot: `SweepAlwaysLeavesNothing`. The number of threads and of
  handles is arbitrary; the sweep visits its snapshot in any order.
- **Termination** (`BridgeProofs`). `PendingOK` follows the pending operation
  through the three queues: while Dart is attached the operation AppKit waits
  for is on its way to Dart or known to it, and once it detached the termination
  it asked for is on the main queue. `ConsentOK` says that each flag and block
  which lets the application end past a deferral came from Dart:
  `WaitAlwaysAnswerable`, `AlwaysEndsOnlyWithConsent`.
- **Pump and hosts** (`HostProofs`). `PumpInv` counts references: the retain
  count of a source is the number of threads about to signal it, plus what the
  installed pump owns, plus one for a turn about to signal again. That only the
  innermost turn can be in that state, and signals the installed source, is the
  second half; it fails if the outer turns are left unconstrained. From it
  follow `PumpTypeCorrect`, `SignalsReachLiveSources`, `WakeupsAreNotLost` (the
  queue is non-empty only while a source is signalled or about to be) and, with
  what waits being newer than what was handled, `OrderIsKept`.
  `HostImplementsPump` shows that every host step is a pump step or a stutter,
  and `HostsKeepMessages` carries the three over. `HostInv` says of each stage
  of each host whether Engine and pump run and what the exit codes recorded so
  far tell: `EngineAlwaysOutlivesItsUse`, `StatusAlwaysTellsFailure`. The first
  covers terminations served by nested loops: Dart code on the stack has a
  running Engine until the one shutdown with which the process ends. `ParseInv`
  says that the parser has read k options with their values, each option once,
  so it accepts what the usage says for lines of any length:
  `AlwaysParsesTheUsage`. No recursion is needed, because at most three
  options precede the separator.
- **Probe** (`ProbeProofs`). `PlaceInv` says what is held at each point of the
  main thread and in which order it is given back; `TokensInv` counts, for any
  number of VM threads, one notification for each message: `WaitIsAlwaysWoken`.
  `ReportsInv` says that the Dart program sends one report of each kind and that
  a report is in one place, so a report that was stored cannot come again.
  `VerdictInv` ties each fault to the probe it fails, or to the one about to be
  judged, and says that without a fault no report of the first probe is on its
  way when the second begins: `VerdictIsAlwaysJust`. `TeardownInv` says that the
  VM goes after everything that runs in it and the snapshot after every isolate,
  and that the four counters are the numbers of isolates and groups that began
  and ended: `TeardownIsAlwaysOrderly`.
- **Callbacks** (`CallbacksProofs`). Each step of the composition is a step of
  one part, so `CallbacksInv` is the conjunction of the parts' invariants.
  - `SessionsInv`: an observer that runs is one its version supports and
    compares with what this session was sent; what the version reports is known
    to the application or on its way. With the lemmas that the tables of
    encoder, sink and decoder agree for every type, version and payload this
    gives `RecordsAlwaysDecode` and `ObservedStateIsAlwaysCurrent`.
  - `FullscreenInv`: where the last post is known it was the window's mode, and
    Dart ends up with that mode after the records under way; no record among
    them brings Dart an intermediate frame. The window may change any number of
    times: `AlwaysObservesFullscreen`, `CallbackFramesAreAlwaysSafe`.
  - `PresentationInv`: Dart comes to believe the state posted last, which
    between animations is the window's; a completion that still counts belongs
    to the latest wish; a pending close operation is known to Dart or among the
    records: `AlwaysObservesVisibility`, `StaleHideIsAlwaysHarmless`,
    `CloseIsAlwaysAnswerable`.
  - `KeyInv` makes Carbon's registrations, the identifier map and the owners
    inverse to each other and says that identifiers are not used again, so a
    press still queued finds the key it was made for or none:
    `HotKeysAlwaysExact`. `LeaseInv` types the lease, whose references are then
    counted call by call: `LeaseAlwaysFollows`.
  - `DropsInv`: a session stands for a view that is alive with a policy that has
    the kind, and only while its drag is under way: `DropAlwaysFollowsOffer`.
- **Notifications** (`NotificationsProofs`). `NotificationsInv` says that an
  operation is in one place (fresh, tracked, a request, delivered) and owes its
  one result until it leaves; that a delivered entry has had no response; that
  without a poster nothing is owed; and that what a response entry or a record
  still stands for was replaced, if at all, by an untracked post only:
  `AlwaysOneOutcome`, `ResponseAlwaysFollowsDelivery`.
- **Diagnostics** (`DiagnosticsProofs`). `DiagnosticsInv` says that a file in
  place is whole, that nothing still being written is in place or has a second
  name, and that a session replaces the current record only when the unclean
  one it found has been retained: `RecordsAreAlwaysWhole`,
  `UncleanRunIsAlwaysRetained`. Both have the hypothesis `OneProcess`, that one
  process of an application runs at a time, however often it is launched: two
  share the names of the temporary files and can undo each other's work
  (`RuntimeDiagnostics.mm:161`), so without it they are false.
- **Staged output** (`StagedOutputProofs`). `OutputInv` ties the backup and the
  output to the phase of the run; it is what the two renames rely on.
  `OutputIsKept` holds for any tool, whatever its own phases do, and
  `DistributionProofs` instantiates it for assembler and publisher:
  `PipelineKeepsOutputs`.
- **Distribution** (`DistributionProofs`). `UniversalInv` follows the slices
  through merging and sealing, `ReleaseInv` the signature, the ticket and the
  archive through the publisher: `PublishesBothArchitectures`,
  `PublishesNotarized`. They hold although the inputs may be replaced at any
  step, because `lipo` refuses what is not one image of each architecture and
  the publisher copies only an application that was swapped into place whole.
  `AssemblyInv` and `PublicationInv` say that until its inputs change a tool
  holds what is on disk, and that what it stages, backs up and publishes is made
  from that: `PublishesWhatIsEvidenced`.

Every safety invariant and action property of the passing runs is the subject of
one of these theorems. Assumptions on the constants are the named ones of the
modules: limits are natural numbers, a null value is not an object, sets of
threads are finite where they are counted, the two directories of the pipeline
differ, the limit of a host's turns is the one its source gives.

Only model-checked: liveness (`ClaimsComplete`, `EveryMessageLeaves`,
`TerminateTakesEffect`, `AcceptedIsAnswered`, `ProbeEnds`), which is out of the
prover's reach, and the five findings, which are counterexamples.

## 6. What is left out

- What AppKit, the notification center, the code-signing and notary tools do is
  external: their callbacks and failures are actions that may happen whenever
  the code allows for them, their internals are not modelled.
- Widgets (menus, text views, editors, split views), pasteboard, save panel,
  URLs and definitions: properties set and read in one call on one thread. FFI
  bindings: marshalling.
- Focus, occlusion, scale, screen and content-size records of a window: posted
  and deduplicated like visibility.
- In the pipeline one run of each tool is under way at a time; two runs of one
  tool on one output are not modelled. Code is read in one step and resources in
  another, not file by file. Developer JIT bundles do not enter it.
- Handle indices and generations are natural numbers up to a bound at which a
  slot retires, as the code retires it at its own bound: they do not wrap.

- `RunnerConfiguration.mm`: whether the property list is valid is one choice of
  `HostLifecycle`; its checks read a file once and keep nothing.
- Services, Quick Look and folder Services: one callback reads the registration
  in force; nothing spans two callbacks but the pressure stage of a press.
- Dart's API objects: a disposed flag and a finalizer before `da_release` and
  `da_release_async`, whose callers `ReleaseProtocol` models as threads.
- The launcher: one sequence of commands, the first failure of which ends it.
  Two launchers of one package share `kernel/application.dill` and the bundle
  (`launcher.dart:427`, `launcher.dart:486`), so one can run the program of the
  other; nothing says they may run at once. The line it passes to the Runner is
  one `RunnerArguments` accepts.
- What a failed `Dart_Cleanup` leaves running is not followed past the exit.

## 7. Plan

Modules:

1. `NativeResource`: dispose, ownership and finalizers of the Dart objects,
   composed with `ReleaseProtocol`.
2. A window as one composition of `WindowFullscreen`, `WindowPresentation` and
   the other window records.

Theorems worth proving next: the step lemmas behind the liveness properties (a
block that is queued stays queued until it runs, a signalled source stays
signalled until it is performed), which need no fairness; that `EventSession`,
`WindowFullscreen` and `WindowPresentation` deliver what an abstract channel
does, as a refinement like that of `HandleLease`.
