-------------------------- MODULE UserNotifications --------------------------
(***************************************************************************)
(* Local user notifications of the bridge (AppKitBridge.mm).  A call from  *)
(* Dart starts a chain of requests to the notification center; each        *)
(* completion handler hops to the main queue and finds out there whether   *)
(* its notification has been removed, replaced or shut down meanwhile.     *)
(* An untracked post only guards its own scheduling.  A tracked post, a    *)
(* settings query and an authorization request owe Dart one result record, *)
(* and a delivered tracked notification at most one response.              *)
(*                                                                         *)
(* A completion handler and its hop are one step that runs at any time:    *)
(* the center promises no order.  What the center displays is not state    *)
(* here.                                                                   *)
(***************************************************************************)
EXTENDS Integers, FiniteSets, Sequences

CONSTANTS
  Identifier,     \* notification identifiers
  NoIdentifier,   \* a model value
  MaxPending,     \* kMaximumPendingUserNotifications
  MaxOps,         \* bound: request tokens taken
  MaxUntracked,   \* bound: untracked posts
  MaxEpoch        \* bound: g_user_notification_epoch

NotificationsAssumption ==
  {MaxPending, MaxOps, MaxUntracked, MaxEpoch} \subseteq Nat

ASSUME NotificationsAssumption

Op == 1 .. MaxOps
None == 0

VARIABLES
  pending,      \* g_pending_user_notifications: the token of each identifier
  nextUntracked,\* g_next_user_notification_token
  tracked,      \* g_tracked_user_notifications: the record's request token
  delivered,    \* g_delivered_user_notification_responses
  requests,     \* g_pending_user_notification_requests
  nextOp,       \* g_next_operation_id
  epoch,        \* g_user_notification_epoch
  poster,       \* the event poster is installed
  jobs,         \* requests under way in the notification center
  born,         \* history: the epoch in which an operation was accepted
  outcomes,     \* history: result records posted for each operation
  responses,    \* history: response records posted for each operation
  superseded,   \* history: operations whose notification is gone again
  overtaken     \* history: those whose entry nothing has taken back since

centerVars == <<pending, nextUntracked, tracked, delivered, requests, epoch>>
history == <<born, outcomes, responses, superseded, overtaken>>
vars == <<centerVars, nextOp, poster, jobs, history>>

Init ==
  /\ pending = [i \in Identifier |-> None]
  /\ nextUntracked = 1
  /\ tracked = [i \in Identifier |-> None]
  /\ delivered = [i \in Identifier |-> None]
  /\ requests = {}
  /\ nextOp = 1
  /\ epoch = 1
  /\ poster = TRUE
  /\ jobs = {}
  /\ born = [t \in Op |-> None]
  /\ outcomes = [t \in Op |-> <<>>]
  /\ responses = [t \in Op |-> 0]
  /\ superseded = {}
  /\ overtaken = {}

Job(stage, i, t, e) == [stage |-> stage, id |-> i, token |-> t, epoch |-> e]

\* The job moves on to another stage.
Continue(j, stage) == jobs' = (jobs \ {j}) \cup {[j EXCEPT !.stage = stage]}
Drop(j) == jobs' = jobs \ {j}

\* The entries of a dictionary.
Entries(dictionary) == {i \in Identifier : dictionary[i] # None}

\* PostUserNotificationLifecycleEvent for the result of operation t.
PostOutcome(t, result) ==
  outcomes' = [outcomes EXCEPT ![t] = IF poster THEN Append(@, result) ELSE @]

\* Mutant: a completion looks the identifier up and not its own record.
IsCurrentByIdentifier(j) == tracked[j.id] # None

\* The record is still the identifier's, in the epoch it was made in.
IsCurrent(j) == j.epoch = epoch /\ tracked[j.id] = j.token

\* The tracked operations whose notification the center holds, or is adding,
\* under an identifier.
InCenter(i) ==
  ({delivered[i]} \ {None})
    \cup {j.token : j \in {k \in jobs :
                             k.stage = "add" /\ k.id = i /\ IsCurrent(k)}}

\* A tracked post or a removal takes back what the identifier stands for.
Supersede(i) ==
  LET standing == {tracked[i], delivered[i]} \ {None}
  IN  /\ superseded' = superseded \cup standing
      /\ overtaken' = overtaken \ standing

-----------------------------------------------------------------------------
(* Untracked notifications: HandleUserNotificationWithSystem.              *)

\* A call refused at the limit changes nothing.
Post(i) ==
  /\ poster
  /\ nextUntracked <= MaxUntracked
  /\ pending[i] # None \/ Cardinality(Entries(pending)) < MaxPending
  /\ pending' = [pending EXCEPT ![i] = nextUntracked]
  /\ nextUntracked' = nextUntracked + 1
  /\ jobs' = jobs \cup {Job("askUntracked", i, nextUntracked, epoch)}
  /\ UNCHANGED <<tracked, delivered, requests, epoch, nextOp, poster, history>>

\* The authorization prompt is answered; a denial, a removal or a newer post
\* of the identifier ends the chain.  What is granted goes to the center under
\* the identifier and replaces there whatever a tracked post has added; the
\* records of the tracked post stay.
AskedUntracked(j) ==
  /\ j.stage = "askUntracked"
  /\ \/ /\ pending[j.id] = j.token
        /\ Continue(j, "addUntracked")
        /\ superseded' = superseded \cup InCenter(j.id)
        /\ overtaken' = overtaken \cup InCenter(j.id)
        /\ UNCHANGED pending
     \/ /\ pending[j.id] = j.token
        /\ Drop(j)
        /\ pending' = [pending EXCEPT ![j.id] = None]
        /\ UNCHANGED <<superseded, overtaken>>
     \/ /\ pending[j.id] # j.token
        /\ Drop(j)
        /\ UNCHANGED <<pending, superseded, overtaken>>
  /\ UNCHANGED <<nextUntracked, tracked, delivered, requests, epoch, nextOp,
                 poster, born, outcomes, responses>>

AddedUntracked(j) ==
  /\ j.stage = "addUntracked"
  /\ Drop(j)
  /\ pending' = [pending EXCEPT ![j.id] = IF @ = j.token THEN None ELSE @]
  /\ UNCHANGED <<nextUntracked, tracked, delivered, requests, epoch, nextOp,
                 poster, history>>

-----------------------------------------------------------------------------
(* Settings queries and authorization requests.                            *)

\* BeginUserNotificationRequest; the operation id is spent even when refused.
BeginRequest ==
  /\ poster
  /\ nextOp <= MaxOps
  /\ nextOp' = nextOp + 1
  /\ IF Cardinality(requests) < MaxPending
     THEN /\ requests' = requests \cup {nextOp}
          /\ jobs' = jobs \cup {Job("query", NoIdentifier, nextOp, epoch)}
          /\ born' = [born EXCEPT ![nextOp] = epoch]
     ELSE UNCHANGED <<requests, jobs, born>>
  /\ UNCHANGED <<pending, nextUntracked, tracked, delivered, epoch, poster,
                 outcomes, responses, superseded, overtaken>>

\* TakeUserNotificationRequest and the result record.
QueryAnswered(j) ==
  /\ j.stage = "query"
  /\ Drop(j)
  /\ IF j.epoch = epoch /\ j.token \in requests
     THEN /\ requests' = requests \ {j.token}
          /\ PostOutcome(j.token, "answered")
     ELSE UNCHANGED <<requests, outcomes>>
  /\ UNCHANGED <<pending, nextUntracked, tracked, delivered, epoch, nextOp,
                 poster, born, responses, superseded, overtaken>>

-----------------------------------------------------------------------------
(* Tracked notifications: HandleUserNotificationLifecycleWithSystem.       *)

Replacing(i) == tracked[i] # None \/ delivered[i] # None

TrackedCount ==
  Cardinality(Entries(tracked)) + Cardinality(Entries(delivered))

MayTrack(i) == Replacing(i) \/ TrackedCount < MaxPending

\* Mutant: a delivered predecessor keeps its response entry.
PostTrackedKeepsResponse(i) ==
  /\ poster
  /\ nextOp <= MaxOps
  /\ nextOp' = nextOp + 1
  /\ IF MayTrack(i)
     THEN /\ tracked' = [tracked EXCEPT ![i] = nextOp]
          /\ Supersede(i)
          /\ jobs' = jobs \cup {Job("settings", i, nextOp, epoch)}
          /\ born' = [born EXCEPT ![nextOp] = epoch]
          /\ IF tracked[i] = None THEN UNCHANGED outcomes
             ELSE PostOutcome(tracked[i], "cancelled")
     ELSE UNCHANGED <<tracked, superseded, overtaken, jobs, born, outcomes>>
  /\ UNCHANGED <<pending, nextUntracked, delivered, requests, epoch, poster,
                 responses>>

\* Mutant: a replaced notification is forgotten without its result.
PostTrackedForgets(i) ==
  /\ poster
  /\ nextOp <= MaxOps
  /\ nextOp' = nextOp + 1
  /\ IF MayTrack(i)
     THEN /\ tracked' = [tracked EXCEPT ![i] = nextOp]
          /\ delivered' = [delivered EXCEPT ![i] = None]
          /\ Supersede(i)
          /\ jobs' = jobs \cup {Job("settings", i, nextOp, epoch)}
          /\ born' = [born EXCEPT ![nextOp] = epoch]
     ELSE UNCHANGED <<tracked, delivered, superseded, overtaken, jobs, born>>
  /\ UNCHANGED <<pending, nextUntracked, requests, epoch, poster, outcomes,
                 responses>>

\* A post of an identifier in use cancels the earlier notification's record
\* or forgets its response, whichever stage it has reached.
PostTracked(i) ==
  /\ poster
  /\ nextOp <= MaxOps
  /\ nextOp' = nextOp + 1
  /\ IF MayTrack(i)
     THEN /\ tracked' = [tracked EXCEPT ![i] = nextOp]
          /\ delivered' = [delivered EXCEPT ![i] = None]
          /\ Supersede(i)
          /\ jobs' = jobs \cup {Job("settings", i, nextOp, epoch)}
          /\ born' = [born EXCEPT ![nextOp] = epoch]
          /\ IF tracked[i] = None THEN UNCHANGED outcomes
             ELSE PostOutcome(tracked[i], "cancelled")
     ELSE UNCHANGED <<tracked, delivered, superseded, overtaken, jobs, born,
                      outcomes>>
  /\ UNCHANGED <<pending, nextUntracked, requests, epoch, poster, responses>>

\* CompleteTrackedUserNotification with a failure.
CompleteTracked(j) ==
  /\ Drop(j)
  /\ IF IsCurrent(j)
     THEN /\ tracked' = [tracked EXCEPT ![j.id] = None]
          /\ PostOutcome(j.token, "failed")
     ELSE UNCHANGED <<tracked, outcomes>>

\* ScheduleTrackedUserNotification hands the notification to the center.
ScheduleTracked(j) ==
  /\ IF IsCurrent(j) THEN Continue(j, "add") ELSE Drop(j)
  /\ UNCHANGED <<tracked, outcomes>>

\* ContinueTrackedUserNotification asks for authorization when it has never
\* been asked for, gives up when it is denied, and schedules when allowed.
SettingsKnown(j) ==
  /\ j.stage = "settings"
  /\ \/ Continue(j, "authorize") /\ UNCHANGED <<tracked, outcomes>>
     \/ CompleteTracked(j)
     \/ ScheduleTracked(j)
  /\ UNCHANGED <<pending, nextUntracked, delivered, requests, epoch, nextOp,
                 poster, born, responses, superseded, overtaken>>

AuthorizationKnown(j) ==
  /\ j.stage = "authorize"
  /\ CompleteTracked(j) \/ ScheduleTracked(j)
  /\ UNCHANGED <<pending, nextUntracked, delivered, requests, epoch, nextOp,
                 poster, born, responses, superseded, overtaken>>

\* The center has added the notification, or has failed to.
Added(j) ==
  /\ j.stage = "add"
  /\ \/ CompleteTracked(j) /\ UNCHANGED delivered
     \/ /\ Drop(j)
        /\ IF IsCurrent(j)
           THEN /\ tracked' = [tracked EXCEPT ![j.id] = None]
                /\ delivered' = [delivered EXCEPT ![j.id] = j.token]
                /\ PostOutcome(j.token, "delivered")
           ELSE UNCHANGED <<tracked, delivered, outcomes>>
  /\ UNCHANGED <<pending, nextUntracked, requests, epoch, nextOp, poster,
                 born, responses, superseded, overtaken>>

\* HandleUserNotificationCenterResponse; any other action than the default
\* one ends the wait for a response silently.
Respond(i) ==
  /\ delivered[i] # None
  /\ delivered' = [delivered EXCEPT ![i] = None]
  /\ \/ poster /\ responses' = [responses EXCEPT ![delivered[i]] = @ + 1]
     \/ UNCHANGED responses
  /\ UNCHANGED <<pending, nextUntracked, tracked, requests, epoch, nextOp,
                 poster, jobs, born, outcomes, superseded, overtaken>>

\* kRemove cancels whatever the identifier has under way.
Remove(i) ==
  /\ poster
  /\ pending' = [pending EXCEPT ![i] = None]
  /\ tracked' = [tracked EXCEPT ![i] = None]
  /\ delivered' = [delivered EXCEPT ![i] = None]
  /\ Supersede(i)
  /\ IF tracked[i] = None THEN UNCHANGED outcomes
     ELSE PostOutcome(tracked[i], "cancelled")
  /\ UNCHANGED <<nextUntracked, requests, epoch, nextOp, poster, jobs, born,
                 responses>>

-----------------------------------------------------------------------------
(* ShutdownBridge, and a bridge that is opened again.                      *)

Shutdown ==
  /\ poster
  /\ epoch < MaxEpoch
  /\ epoch' = epoch + 1
  /\ poster' = FALSE
  /\ pending' = [i \in Identifier |-> None]
  /\ tracked' = [i \in Identifier |-> None]
  /\ delivered' = [i \in Identifier |-> None]
  /\ requests' = {}
  /\ UNCHANGED <<nextUntracked, nextOp, jobs, history>>

\* A host installs its poster after ResetBridgeForTesting.
Reopen ==
  /\ ~poster
  /\ poster' = TRUE
  /\ UNCHANGED <<centerVars, nextOp, jobs, history>>

-----------------------------------------------------------------------------
Completion(j) ==
  \/ AskedUntracked(j)
  \/ AddedUntracked(j)
  \/ QueryAnswered(j)
  \/ SettingsKnown(j)
  \/ AuthorizationKnown(j)
  \/ Added(j)

Next ==
  \/ \E j \in jobs : Completion(j)
  \/ \E i \in Identifier : Post(i) \/ PostTracked(i) \/ Remove(i) \/ Respond(i)
  \/ BeginRequest
  \/ Shutdown
  \/ Reopen

Spec == Init /\ [][Next]_vars

\* The chain of operation t goes on: the center calls every completion
\* handler and the main queue runs its block.
Progress(t) ==
  \E j \in jobs :
    /\ j.stage \notin {"askUntracked", "addUntracked"}
    /\ j.token = t
    /\ Completion(j)

FairSpec == Spec /\ \A t \in Op : WF_vars(Progress(t))

-----------------------------------------------------------------------------
(* Properties.                                                             *)

\* Every accepted operation gets one result record at most, whichever of its
\* completion, its cancellation by a newer post and its removal comes first.
OneOutcomePerOperation == \A t \in Op : Len(outcomes[t]) <= 1

\* A response record goes to an operation that was reported as delivered, only
\* once, and not after its notification has been removed or replaced, with one
\* exception: an untracked post under the identifier replaces the notification
\* in the center but leaves the entry of the operation, so that a click on the
\* replacement answers the earlier operation.  Even that ends with the next
\* tracked post or removal of the identifier.
ResponseFollowsDelivery ==
  [][\A t \in Op : responses'[t] # responses[t] =>
       /\ outcomes[t] = <<"delivered">>
       /\ responses[t] = 0
       /\ t \in superseded => t \in overtaken]_vars

\* Unless the bridge shuts down, every accepted operation gets its result.
AcceptedIsAnswered ==
  \A t \in Op : born[t] # None ~> outcomes[t] # <<>> \/ epoch > born[t]
=============================================================================
