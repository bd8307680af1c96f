----------------------------- MODULE EventCodec ------------------------------
(***************************************************************************)
(* The native event records: the table of the encoder                      *)
(* (DartEventEncoder.cc), that of the sink (EventTypeSupportedByProtocol)  *)
(* and that of the Dart decoder (_EventCodec), written down apart because  *)
(* the code keeps them apart.                                              *)
(*                                                                         *)
(* A field is its wire type and the values it may have; a payload is a     *)
(* sequence of fields.  Sample values stand for each class of numbers.     *)
(***************************************************************************)
EXTENDS Integers, Sequences

NaN == 99
Field(wire, values) == [wire |-> wire, values |-> values]

Number == Field("double", {-1, 0, 1, NaN})
Finite == Field("double", {-1, 0, 1})
Positive == Field("double", {1})
Zero == Field("double", {0})
Boolean == Field("bool", {0, 1})
Holds == Field("bool", {1})
Fails == Field("bool", {0})
AnyInt == Field("int", -1 .. 64)
OneOf(values) == Field("int", values)
Token == OneOf(1 .. 64)
Text == Field("string", {0, 1})
Bytes == Field("bytes", {0, 1})       \* UTF-8 within its limit
FileUrls == Field("bytes", {2})       \* a packet of file URLs
FolderUrls == Field("bytes", {2})     \* one of distinct directories

Times(n, field) == [k \in 1 .. n |-> field]

EventType == {
  "windowClosed", "windowResized", "windowFocusChanged",
  "windowVisibilityChanged", "windowOcclusionChanged",
  "windowBackingScaleChanged", "windowScreenChanged", "windowCloseRequested",
  "windowFrameChanged", "mouseDown", "mouseUp", "mouseMoved", "mouseDragged",
  "scrollWheel", "windowFullscreenChanged", "keyDown", "keyUp",
  "applicationActiveChanged", "applicationReopenRequested",
  "applicationTerminateRequested", "applicationAppearanceChanged",
  "applicationAccessibilityDisplayPreferencesChanged",
  "applicationPowerStateChanged", "applicationScreenSetChanged",
  "applicationMemoryPressureChanged", "menuItemInvoked",
  "globalHotKeyPressed", "viewQuickLookRequested",
  "viewServicesTextReceived", "viewDropPerformed",
  "applicationFolderServiceRequested", "applicationUserNotificationChanged" }

MinVersion == 1       \* DA_EVENT_PROTOCOL_VERSION_MIN
CurrentVersion == 15  \* DA_EVENT_PROTOCOL_VERSION_CURRENT
Version == MinVersion .. CurrentVersion

-----------------------------------------------------------------------------
(* Native side.                                                            *)

\* EventTypeSupportedByProtocol: the version that introduced a type.
Since(type) ==
  CASE type = "scrollWheel" -> 5
    [] type \in {"windowFrameChanged", "windowFullscreenChanged"} -> 6
    [] type = "applicationAppearanceChanged" -> 7
    [] type = "globalHotKeyPressed" -> 8
    [] type = "viewQuickLookRequested" -> 9
    [] type = "viewServicesTextReceived" -> 10
    [] type = "viewDropPerformed" -> 11
    [] type = "applicationFolderServiceRequested" -> 12
    [] type = "applicationUserNotificationChanged" -> 13
    [] type = "applicationAccessibilityDisplayPreferencesChanged" -> 14
    [] type \in {"applicationPowerStateChanged", "applicationScreenSetChanged",
                 "applicationMemoryPressureChanged"} -> 15
    [] type \in {"windowFocusChanged", "windowVisibilityChanged",
                 "windowOcclusionChanged", "windowBackingScaleChanged",
                 "windowScreenChanged"} -> 3
    [] type \in {"windowCloseRequested", "applicationActiveChanged",
                 "applicationReopenRequested", "applicationTerminateRequested",
                 "menuItemInvoked"} -> 4
    [] OTHER -> 1

\* Mutant: a type is admitted one version too early.
SupportedTooEarly(type, version) ==
  version \in Version /\ version + 1 >= Since(type)

Supported(type, version) == version \in Version /\ version >= Since(type)

ApplicationScoped == {
  "applicationActiveChanged", "applicationReopenRequested",
  "applicationTerminateRequested", "applicationAppearanceChanged",
  "applicationAccessibilityDisplayPreferencesChanged",
  "applicationPowerStateChanged", "applicationScreenSetChanged",
  "applicationMemoryPressureChanged", "applicationFolderServiceRequested",
  "applicationUserNotificationChanged" }

ReplyRequired == {"windowCloseRequested", "applicationTerminateRequested"}

\* The envelope.  A registry source is the generation of its handle, an
\* application event has source zero; version 1 has neither a generation of
\* its own nor an operation id.
Envelope(version, type) ==
  LET source == IF type \in ApplicationScoped THEN 0 ELSE 1
      operation == IF type \in ReplyRequired THEN 1 ELSE 0
  IN  IF version = MinVersion THEN <<version, type, source, 0>>
      ELSE <<version, type, source, source, 0, operation>>

\* What the encoder lets through, applications and views first.
ApplicationAndViewPayloads(type) ==
  CASE type = "applicationPowerStateChanged" -> {<<OneOf(0 .. 1)>>}
    [] type = "applicationMemoryPressureChanged" -> {<<OneOf(0 .. 2)>>}
    [] type = "viewQuickLookRequested" -> {<<Finite, Finite>>}
    [] type = "viewServicesTextReceived" -> {<<Bytes>>}
    [] type = "viewDropPerformed" ->
         {<<OneOf({0}), Finite, Finite, Bytes>>,
          <<OneOf({1}), Finite, Finite, FileUrls>>}
    [] type = "applicationFolderServiceRequested" ->
         {<<OneOf(0 .. 1), FolderUrls>>}
    [] type = "applicationUserNotificationChanged" ->
         {<<OneOf(0 .. 2), Token, OneOf(0 .. 5), OneOf(0 .. 3)>>,
          <<OneOf({3}), Token, OneOf({5}), OneOf({0})>>}
    [] type = "applicationAccessibilityDisplayPreferencesChanged" ->
         {Times(3, Boolean)}
    [] type \in {"applicationTerminateRequested", "menuItemInvoked",
                 "globalHotKeyPressed", "applicationScreenSetChanged"} -> {<<>>}
    [] OTHER -> {}

WindowAndStatePayloads(type) ==
  CASE type = "windowResized" -> {<<Number, Number>>}
    [] type = "windowFrameChanged" -> {<<Finite, Finite, Positive, Positive>>}
    [] type \in {"windowFocusChanged", "windowVisibilityChanged",
                 "windowOcclusionChanged", "applicationActiveChanged",
                 "applicationReopenRequested", "applicationAppearanceChanged",
                 "windowFullscreenChanged"} -> {<<Boolean>>}
    [] type = "windowBackingScaleChanged" -> {<<Positive>>}
    [] type = "windowScreenChanged" ->
         {<<Fails, OneOf({0})>> \o Times(8, Zero),
          <<Holds, Token, Finite, Finite, Positive, Positive,
            Finite, Finite, Positive, Positive>>}
    [] type \in {"mouseDown", "mouseUp", "mouseMoved", "mouseDragged"} ->
         {<<Number, Number, AnyInt, AnyInt, AnyInt>>}
    [] type = "scrollWheel" ->
         {Times(4, Finite) \o
          <<Boolean, OneOf({0, 1, 2, 4, 8, 16, 32}),
            OneOf({0, 1, 2, 4, 8, 16, 32}), Boolean, AnyInt>>}
    [] type \in {"keyDown", "keyUp"} -> {<<AnyInt, AnyInt, Boolean, Text, Text>>}
    [] type \in {"windowClosed", "windowCloseRequested"} -> {<<>>}
    [] OTHER -> {}

Payloads(type) == ApplicationAndViewPayloads(type) \cup WindowAndStatePayloads(type)

-----------------------------------------------------------------------------
(* Dart side.                                                              *)

\* The version a record of the type must at least be of (_requireVersion...).
RequiresVersion(type) ==
  CASE type \in {"windowClosed", "windowResized", "mouseDown", "mouseUp",
                 "mouseMoved", "mouseDragged", "keyDown", "keyUp"} -> 1
    [] type \in {"windowFocusChanged", "windowVisibilityChanged",
                 "windowOcclusionChanged", "windowBackingScaleChanged",
                 "windowScreenChanged"} -> 3
    [] type \in {"windowCloseRequested", "applicationActiveChanged",
                 "applicationReopenRequested", "applicationTerminateRequested",
                 "menuItemInvoked"} -> 4
    [] type = "scrollWheel" -> 5
    [] type \in {"windowFrameChanged", "windowFullscreenChanged"} -> 6
    [] type = "applicationAppearanceChanged" -> 7
    [] type = "globalHotKeyPressed" -> 8
    [] type = "viewQuickLookRequested" -> 9
    [] type = "viewServicesTextReceived" -> 10
    [] type = "viewDropPerformed" -> 11
    [] type = "applicationFolderServiceRequested" -> 12
    [] type = "applicationUserNotificationChanged" -> 13
    [] type = "applicationAccessibilityDisplayPreferencesChanged" -> 14
    [] type \in {"applicationPowerStateChanged", "applicationScreenSetChanged",
                 "applicationMemoryPressureChanged"} -> 15

IsApplicationScoped(type) ==
  type \in {"applicationActiveChanged", "applicationReopenRequested",
            "applicationTerminateRequested", "applicationAppearanceChanged",
            "applicationAccessibilityDisplayPreferencesChanged",
            "applicationPowerStateChanged", "applicationScreenSetChanged",
            "applicationMemoryPressureChanged",
            "applicationFolderServiceRequested",
            "applicationUserNotificationChanged"}

RequiresReply(type) ==
  type = "windowCloseRequested" \/ type = "applicationTerminateRequested"

\* The envelope checks of decode; source stands for the handle, and the
\* generation in its high half is the source itself.
AcceptsEnvelope(message) ==
  LET version == message[1]
      type == message[2]
      source == message[3]
      generation == IF version = 1 THEN source ELSE message[4]
      nanos == IF version = 1 THEN message[4] ELSE message[5]
      operation == IF version = 1 THEN 0 ELSE message[6]
  IN  /\ version \in Version
      /\ IF IsApplicationScoped(type)
         THEN version >= 4 /\ source = 0 /\ generation = 0
         ELSE source > 0 /\ (version > 1 => generation = source)
      /\ nanos >= 0
      /\ IF RequiresReply(type) THEN operation > 0 ELSE operation = 0
      /\ version >= RequiresVersion(type)

\* The payloads the decoder accepts, one sequence of fields for each
\* combination of cases.
AcceptedOfWindow(type) ==
  CASE type \in {"windowClosed", "windowCloseRequested"} -> {<<>>}
    [] type = "windowResized" -> {<<Number, Number>>}
    [] type \in {"windowFocusChanged", "windowVisibilityChanged",
                 "windowOcclusionChanged", "windowFullscreenChanged"} ->
         {<<Boolean>>}
    [] type = "windowBackingScaleChanged" -> {<<Positive>>}
    [] type = "windowScreenChanged" ->
         {<<Holds, Token, Finite, Finite, Positive, Positive,
            Finite, Finite, Positive, Positive>>,
          <<Fails, OneOf({0}), Zero, Zero, Zero, Zero, Zero, Zero, Zero, Zero>>}
    [] type = "windowFrameChanged" -> {<<Finite, Finite, Positive, Positive>>}
    [] OTHER -> {}

AcceptedOfInput(type) ==
  CASE type \in {"mouseDown", "mouseUp", "mouseMoved", "mouseDragged"} ->
         {<<Number, Number, AnyInt, AnyInt, AnyInt>>}
    [] type = "scrollWheel" ->
         {<<Finite, Finite, Finite, Finite, Boolean,
            OneOf({0, 1, 2, 4, 8, 16, 32}), OneOf({0, 1, 2, 4, 8, 16, 32}),
            Boolean, AnyInt>>}
    [] type \in {"keyDown", "keyUp"} -> {<<AnyInt, AnyInt, Boolean, Text, Text>>}
    [] OTHER -> {}

AcceptedOfApplication(type) ==
  CASE type \in {"applicationActiveChanged", "applicationReopenRequested",
                 "applicationAppearanceChanged"} -> {<<Boolean>>}
    [] type \in {"applicationTerminateRequested",
                 "applicationScreenSetChanged"} -> {<<>>}
    [] type = "applicationAccessibilityDisplayPreferencesChanged" ->
         {<<Boolean, Boolean, Boolean>>}
    [] type = "applicationPowerStateChanged" -> {<<OneOf({0, 1})>>}
    [] type = "applicationMemoryPressureChanged" -> {<<OneOf({0, 1, 2})>>}
    [] OTHER -> {}

AcceptedOfViewAndService(type) ==
  CASE type \in {"menuItemInvoked", "globalHotKeyPressed"} -> {<<>>}
    [] type = "viewQuickLookRequested" -> {<<Finite, Finite>>}
    [] type = "viewServicesTextReceived" -> {<<Bytes>>}
    [] type = "viewDropPerformed" ->
         {<<OneOf({0}), Finite, Finite, Bytes>>,
          <<OneOf({1}), Finite, Finite, FileUrls>>}
    [] type = "applicationFolderServiceRequested" ->
         {<<OneOf({0, 1}), FolderUrls>>}
    [] OTHER -> {}

AcceptedOfNotification(type) ==
  IF type = "applicationUserNotificationChanged"
  THEN {<<OneOf({0, 1, 2}), Token, OneOf(0 .. 5), OneOf(0 .. 3)>>,
        <<OneOf({3}), Token, OneOf({5}), OneOf({0})>>}
  ELSE {}

Accepted(type) ==
  AcceptedOfWindow(type) \cup AcceptedOfInput(type)
    \cup AcceptedOfApplication(type) \cup AcceptedOfViewAndService(type)
    \cup AcceptedOfNotification(type)

\* Every value that may stand in the sent field may stand in the read one.
FieldFits(sent, read) ==
  sent.wire = read.wire /\ sent.values \subseteq read.values

\* _EventCodec.decode of a record with this payload.
Decodes(version, type, payload) ==
  /\ AcceptsEnvelope(Envelope(version, type))
  /\ \E read \in Accepted(type) :
       /\ Len(payload) = Len(read)
       /\ \A k \in 1 .. Len(read) : FieldFits(payload[k], read[k])
=============================================================================
