---------------------------- MODULE EventSession -----------------------------
(***************************************************************************)
(* An event session: the poster a host installs, the Dart port that        *)
(* AppKitApplication.attach registers with a negotiated version, the three *)
(* observers the bridge runs for it, the records under way and the state   *)
(* the Dart application object caches from them.                           *)
(*                                                                         *)
(* Everything native happens on the main thread.  The appearance is        *)
(* observed synchronously; the notification of a change of the             *)
(* accessibility preferences comes later and may stand for several.  A     *)
(* record to a closed port is lost.                                        *)
(***************************************************************************)
EXTENDS EventCodec

CONSTANTS
  MaxPorts,    \* bound: attaches
  MaxChanges   \* bound: changes of the application's and the system's state

None == 0
Unknown == -1    \* nothing observed, posted or cached yet
Off == -2        \* the observer is not running

\* effectiveAppearance: two light variants and a dark one.
Appearance == 0 .. 2
IsDark(appearance) == IF appearance = 2 THEN 1 ELSE 0

\* What the observers compare with the last value seen.
Facet == {"appearance", "preferences", "power", "memory"}

TypeOfFacet == [
  appearance |-> "applicationAppearanceChanged",
  preferences |-> "applicationAccessibilityDisplayPreferencesChanged",
  power |-> "applicationPowerStateChanged",
  memory |-> "applicationMemoryPressureChanged"]

VARIABLES
  poster,    \* g_event_poster is installed
  session,   \* g_event_port and g_event_protocol_version
  open,      \* the Dart port of the attached application
  nextPort,  \* Dart ports opened so far, plus one
  real,      \* the application's and the system's state
  notice,    \* a preferences notification is under way
  last,      \* the last value of each observer
  channel,   \* records posted to the open port, not yet handled
  cache,     \* what the attached application has seen
  sent,      \* history: the last value of each facet posted to this session
  changes    \* changes so far

nativeVars == <<poster, session, last>>
dartVars == <<open, nextPort, cache>>
worldVars == <<real, notice, changes>>
vars == <<nativeVars, dartVars, worldVars, channel, sent>>

NoSession == [port |-> None, version |-> None]
AllOff == [f \in Facet |-> Off]
NothingSent == [f \in Facet |-> Unknown]
NothingSeen == [active |-> 0, appearance |-> Unknown, preferences |-> Unknown]

Init ==
  /\ poster = FALSE
  /\ session = NoSession
  /\ open = None
  /\ nextPort = 1
  /\ real = [active |-> 0, appearance |-> 0, preferences |-> 0]
  /\ notice = FALSE
  /\ last = AllOff
  /\ channel = <<>>
  /\ cache = NothingSeen
  /\ sent = NothingSent
  /\ changes = 0

Record(type, version, value) ==
  [type |-> type, version |-> version, value |-> value]

\* PostEvent for this session reaches the Dart side.
Reaches(type) ==
  /\ poster
  /\ session.port # None /\ session.port = open
  /\ Supported(type, session.version)

Post(type, value) ==
  channel' = IF Reaches(type)
             THEN Append(channel, Record(type, session.version, value))
             ELSE channel

\* An observer sees value v of facet f.
Observe(f, v) ==
  IF last[f] \notin {Off, v}
  THEN /\ last' = [last EXCEPT ![f] = v]
       /\ Post(TypeOfFacet[f], v)
       /\ sent' = IF Reaches(TypeOfFacet[f]) THEN [sent EXCEPT ![f] = v] ELSE sent
  ELSE UNCHANGED <<last, channel, sent>>

-----------------------------------------------------------------------------
(* The host.                                                               *)

InstallEventPoster ==
  /\ ~poster
  /\ poster' = TRUE
  /\ UNCHANGED <<session, last, dartVars, worldVars, channel, sent>>

\* DartHost::Shutdown alone.
DisableEventPoster ==
  /\ poster
  /\ poster' = FALSE
  /\ session' = NoSession
  /\ UNCHANGED <<last, dartVars, worldVars, channel, sent>>

ShutdownBridge ==
  /\ poster' = FALSE
  /\ session' = NoSession
  /\ last' = AllOff
  /\ UNCHANGED <<dartVars, worldVars, channel, sent>>

-----------------------------------------------------------------------------
(* Attaching.                                                              *)

Highest(x, y) == IF x > y THEN x ELSE y
Lowest(x, y) == IF x < y THEN x ELSE y

\* SetEventPortVersioned: the highest common version, if there is one.
Negotiated(min, max) ==
  IF Highest(min, MinVersion) <= Lowest(max, CurrentVersion)
  THEN Lowest(max, CurrentVersion) ELSE None

\* The observers of a session of this version.
Started(version) ==
  [appearance |-> IF version >= 7 THEN IsDark(real.appearance) ELSE Off,
   preferences |-> IF version >= 14 THEN real.preferences ELSE Off,
   power |-> IF version >= 15 THEN Unknown ELSE Off,
   memory |-> IF version >= 15 THEN Unknown ELSE Off]

\* The records that da_application_set_event_port_versioned posts.
Snapshot(version) ==
  LET record(type, v) ==
        IF Supported(type, version) THEN <<Record(type, version, v)>> ELSE <<>>
  IN  record("applicationActiveChanged", real.active)
      \o record(TypeOfFacet.appearance, IsDark(real.appearance))
      \o record(TypeOfFacet.preferences, real.preferences)

SentSnapshot(version) ==
  [appearance |-> IF version >= 7 THEN IsDark(real.appearance) ELSE Unknown,
   preferences |-> IF version >= 14 THEN real.preferences ELSE Unknown,
   power |-> Unknown, memory |-> Unknown]

\* Mutant: the application learns its state from changes alone.
AttachWithoutSnapshot(min, max) ==
  LET version == IF poster THEN Negotiated(min, max) ELSE None
  IN  /\ open = None
      /\ nextPort <= MaxPorts
      /\ nextPort' = nextPort + 1
      /\ IF version # None
         THEN /\ session' = [port |-> nextPort, version |-> version]
              /\ last' = Started(version)
              /\ open' = nextPort
              /\ cache' = NothingSeen
              /\ sent' = SentSnapshot(version)
         ELSE /\ session' = NoSession
              /\ last' = AllOff
              /\ UNCHANGED <<open, cache, sent>>
      /\ UNCHANGED <<poster, worldVars, channel>>

\* Mutant: the observers of an earlier session go on.
AttachKeepsObservers(min, max) ==
  LET version == IF poster THEN Negotiated(min, max) ELSE None
  IN  /\ open = None
      /\ nextPort <= MaxPorts
      /\ nextPort' = nextPort + 1
      /\ IF version # None
         THEN /\ session' = [port |-> nextPort, version |-> version]
              /\ last' = [f \in Facet |->
                            IF last[f] = Off THEN Started(version)[f] ELSE last[f]]
              /\ open' = nextPort
              /\ cache' = NothingSeen
              /\ channel' = Snapshot(version)
              /\ sent' = SentSnapshot(version)
         ELSE /\ session' = NoSession
              /\ last' = AllOff
              /\ UNCHANGED <<open, cache, channel, sent>>
      /\ UNCHANGED <<poster, worldVars>>

\* A client that speaks versions min .. max attaches.  A failed attach closes
\* its port and leaves no session.
Attach(min, max) ==
  LET version == IF poster THEN Negotiated(min, max) ELSE None
  IN  /\ open = None
      /\ nextPort <= MaxPorts
      /\ nextPort' = nextPort + 1
      /\ IF version # None
         THEN /\ session' = [port |-> nextPort, version |-> version]
              /\ last' = Started(version)
              /\ open' = nextPort
              /\ cache' = NothingSeen
              /\ channel' = Snapshot(version)
              /\ sent' = SentSnapshot(version)
         ELSE /\ session' = NoSession
              /\ last' = AllOff
              /\ UNCHANGED <<open, cache, channel, sent>>
      /\ UNCHANGED <<poster, worldVars>>

\* AppKitApplication.terminate closes the port; the native registration and
\* its observers stay until the next attach or the shutdown.
Terminate ==
  /\ open # None
  /\ open' = None
  /\ channel' = <<>>
  /\ UNCHANGED <<nativeVars, nextPort, cache, worldVars, sent>>

-----------------------------------------------------------------------------
(* Changes and what observes them.                                         *)

Change == changes < MaxChanges /\ changes' = changes + 1

\* applicationDidBecomeActive and applicationDidResignActive.
ActiveChanges ==
  /\ Change
  /\ real' = [real EXCEPT !.active = 1 - @]
  /\ Post("applicationActiveChanged", 1 - real.active)
  /\ UNCHANGED <<nativeVars, dartVars, notice, sent>>

AppearanceChanges(a) ==
  /\ Change
  /\ a # real.appearance
  /\ real' = [real EXCEPT !.appearance = a]
  /\ Observe("appearance", IsDark(a))
  /\ UNCHANGED <<poster, session, dartVars, notice>>

PreferencesChange ==
  /\ Change
  /\ real' = [real EXCEPT !.preferences = 1 - @]
  /\ notice' = TRUE
  /\ UNCHANGED <<nativeVars, dartVars, channel, sent>>

PreferencesNotified ==
  /\ notice
  /\ notice' = FALSE
  /\ Observe("preferences", real.preferences)
  /\ UNCHANGED <<poster, session, dartVars, real, changes>>

\* workspaceWillSleep and workspaceDidWake.
PowerChanges(state) ==
  /\ Change
  /\ Observe("power", state)
  /\ UNCHANGED <<poster, session, dartVars, real, notice>>

\* memoryPressureChanged with the flags the dispatch source has gathered.
MemoryPressureChanges(flags) ==
  /\ Change
  /\ Observe("memory", IF "critical" \in flags THEN 2
                       ELSE IF "warn" \in flags THEN 1 ELSE 0)
  /\ UNCHANGED <<poster, session, dartVars, real, notice>>

\* Any other event; records of these types touch no state kept here, so one
\* at a time is enough.
OtherType == EventType \ ({TypeOfFacet[f] : f \in Facet}
                          \cup {"applicationActiveChanged"})

PostOther(type) ==
  /\ channel = <<>>
  /\ Reaches(type)
  /\ Post(type, None)
  /\ UNCHANGED <<nativeVars, dartVars, worldVars, sent>>

-----------------------------------------------------------------------------
(* The Dart side.                                                          *)

\* Every payload the record may carry is decoded.
Decoded(r) == \A payload \in Payloads(r.type) : Decodes(r.version, r.type, payload)

\* _handleRawEvent; a record that cannot be decoded becomes a stream error.
HandleRawEvent ==
  /\ channel # <<>>
  /\ LET r == Head(channel)
     IN  cache' =
           IF ~Decoded(r) THEN cache
           ELSE IF r.type = "applicationActiveChanged"
                THEN [cache EXCEPT !.active = r.value]
           ELSE IF r.type = TypeOfFacet.appearance
                THEN [cache EXCEPT !.appearance = r.value]
           ELSE IF r.type = TypeOfFacet.preferences
                THEN [cache EXCEPT !.preferences = r.value]
           ELSE cache
  /\ channel' = Tail(channel)
  /\ UNCHANGED <<nativeVars, open, nextPort, worldVars, sent>>

-----------------------------------------------------------------------------
Next ==
  \/ InstallEventPoster
  \/ DisableEventPoster
  \/ ShutdownBridge
  \/ \E min \in Version, max \in 1 .. CurrentVersion + 1 :
       min <= max /\ Attach(min, max)
  \/ Terminate
  \/ ActiveChanges
  \/ \E a \in Appearance : AppearanceChanges(a)
  \/ PreferencesChange
  \/ PreferencesNotified
  \/ \E state \in {0, 1} : PowerChanges(state)
  \/ \E flags \in SUBSET {"warn", "critical"} : MemoryPressureChanges(flags)
  \/ \E type \in OtherType : PostOther(type)
  \/ HandleRawEvent

Spec == Init /\ [][Next]_vars

-----------------------------------------------------------------------------
(* Properties.                                                             *)

\* The decoder accepts every record that the encoder writes, in every
\* version and whatever values its fields have.
RecordsDecode == \A k \in DOMAIN channel : Decoded(channel[k])

\* When its records have been handled, an attached application knows the
\* current state of everything its protocol version reports; an observer
\* compares with what this very session was told last, so that the
\* deduplication never swallows news.
ObservedStateIsCurrent ==
  session # NoSession /\ session.port = open =>
    /\ channel = <<>> =>
         /\ session.version >= 4 => cache.active = real.active
         /\ session.version >= 7 => cache.appearance = IsDark(real.appearance)
         /\ session.version >= 14 /\ ~notice =>
              cache.preferences = real.preferences
    /\ \A f \in Facet : last[f] # Off => last[f] = sent[f]

=============================================================================
