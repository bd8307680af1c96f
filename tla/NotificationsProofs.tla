------------------------- MODULE NotificationsProofs -------------------------
(* For any identifiers, limits and numbers of operations, posts and epochs:  *)
(* an operation gets one result at most, and a response goes to what was     *)
(* delivered and has not been taken back since.                              *)
EXTENDS UserNotifications, TLAPS

Result == {"answered", "cancelled", "failed", "delivered"}

TrackedStage == {"settings", "authorize", "add"}

Jobs ==
  [stage : TrackedStage \cup {"query", "askUntracked", "addUntracked"},
   id : Identifier \cup {NoIdentifier}, token : Nat, epoch : Nat]

NotificationsTypeOK ==
  /\ nextOp \in Nat /\ nextOp >= 1
  /\ nextUntracked \in Nat
  /\ epoch \in Nat
  /\ tracked \in [Identifier -> Op \cup {None}]
  /\ delivered \in [Identifier -> Op \cup {None}]
  /\ requests \subseteq Op
  /\ outcomes \in [Op -> Seq(Result)]
  /\ responses \in [Op -> Nat]

\* Every job of a tracked notification names it.
JobsOK ==
  /\ jobs \subseteq Jobs
  /\ \A j \in jobs : j.stage \in TrackedStage =>
       j.id \in Identifier /\ j.token \in Op

\* The operation's notification is in place, or only an untracked post has
\* replaced it and its entry stands.
Standing(t) == t \in superseded => t \in overtaken

\* Expanded in every proof below.
USE DEF Standing

\* An operation that nothing has been reported of.
Untouched(t) == outcomes[t] = <<>> /\ responses[t] = 0 /\ Standing(t)

FreshOK ==
  \A t \in Op : t >= nextOp =>
    /\ Untouched(t)
    /\ t \notin requests
    /\ \A i \in Identifier : tracked[i] # t /\ delivered[i] # t

\* An operation under way is in one place, and its result is still owed.
TrackedOK ==
  \A i \in Identifier : tracked[i] # None =>
    /\ Untouched(tracked[i])
    /\ tracked[i] \notin requests
    /\ \A k \in Identifier : tracked[k] = tracked[i] => k = i

RequestsOK == \A t \in requests : outcomes[t] = <<>>

DeliveredOK ==
  \A i \in Identifier : delivered[i] # None =>
    /\ outcomes[delivered[i]] = <<"delivered">>
    /\ responses[delivered[i]] = 0
    /\ Standing(delivered[i])
    /\ \A k \in Identifier : delivered[k] = delivered[i] => k = i

\* Without a poster nothing is owed.
ClosedOK ==
  ~poster =>
    /\ requests = {}
    /\ \A i \in Identifier : tracked[i] = None /\ delivered[i] = None

NotificationsInv ==
  /\ NotificationsTypeOK
  /\ JobsOK
  /\ FreshOK
  /\ TrackedOK
  /\ RequestsOK
  /\ DeliveredOK
  /\ ClosedOK
  /\ OneOutcomePerOperation
LEMMA Numbers == Op \subseteq Nat \ {None} /\ None = 0 /\ MaxOps \in Nat
BY NotificationsAssumption DEF NotificationsAssumption, Op, None

-----------------------------------------------------------------------------
(* Jobs and result records.                                                  *)

LEMMA JobsDrop ==
  ASSUME JobsOK, NEW j \in jobs, Drop(j)
  PROVE  JobsOK'
BY DEF JobsOK, Drop

LEMMA JobsContinue ==
  ASSUME JobsOK, NEW j \in jobs, NEW stage,
         \/ j.stage = "askUntracked" /\ stage = "addUntracked"
         \/ j.stage \in TrackedStage /\ stage \in TrackedStage,
         Continue(j, stage)
  PROVE  JobsOK'
<1> DEFINE next == [j EXCEPT !.stage = stage]
<1>1. j \in Jobs
  BY DEF JobsOK
<1>2. next \in Jobs /\ next.stage = stage
      /\ next.id = j.id /\ next.token = j.token
  BY <1>1 DEF Jobs
<1>3. jobs' = (jobs \ {j}) \cup {next}
  BY DEF Continue
<1> HIDE DEF next
<1>4. QED
  BY <1>2, <1>3 DEF JobsOK, TrackedStage

LEMMA JobsStart ==
  ASSUME NotificationsTypeOK, JobsOK,
         NEW stage \in TrackedStage \cup {"query", "askUntracked"},
         NEW i \in Identifier \cup {NoIdentifier}, NEW t \in Nat,
         stage \in TrackedStage => i \in Identifier /\ t \in Op,
         jobs' = jobs \cup {Job(stage, i, t, epoch)}
  PROVE  JobsOK'
<1>1. Job(stage, i, t, epoch) \in Jobs
  BY DEF Job, Jobs, NotificationsTypeOK
<1>2. /\ Job(stage, i, t, epoch).stage = stage
      /\ Job(stage, i, t, epoch).id = i
      /\ Job(stage, i, t, epoch).token = t
  BY DEF Job
<1>3. QED
  BY <1>1, <1>2 DEF JobsOK

\* A result that is owed is the first.
LEMMA FirstOutcome ==
  ASSUME NotificationsTypeOK, poster, NEW t \in Op, outcomes[t] = <<>>,
         NEW result \in Result, PostOutcome(t, result)
  PROVE  /\ outcomes' \in [Op -> Seq(Result)]
         /\ outcomes'[t] = <<result>>
         /\ \A u \in Op \ {t} : outcomes'[u] = outcomes[u]
         /\ OneOutcomePerOperation => OneOutcomePerOperation'
<1>1. outcomes' = [outcomes EXCEPT ![t] = Append(@, result)]
  BY DEF PostOutcome
<1>2. Append(outcomes[t], result) = <<result>> /\ <<result>> \in Seq(Result)
      /\ Len(<<result>>) = 1
  OBVIOUS
<1>3. /\ outcomes' \in [Op -> Seq(Result)]
      /\ outcomes'[t] = <<result>>
      /\ \A u \in Op \ {t} : outcomes'[u] = outcomes[u]
  BY <1>1, <1>2 DEF NotificationsTypeOK
<1>4. ASSUME OneOutcomePerOperation, NEW u \in Op
      PROVE  Len(outcomes'[u]) <= 1
  <2>1. CASE u = t
    <3> DEFINE only == <<result>>
    <3>1. Len(only) = 1 /\ outcomes'[u] = only
      BY <1>2, <1>3, <2>1
    <3> HIDE DEF only
    <3>2. QED
      BY <3>1
  <2>2. CASE u # t
    BY <1>3, <1>4, <2>2 DEF OneOutcomePerOperation
  <2>3. QED
    BY <2>1, <2>2
<1>5. QED
  BY <1>3, <1>4 DEF OneOutcomePerOperation

\* Untracked notifications and completions that come too late.
LEMMA OnlyJobs ==
  ASSUME NotificationsInv, JobsOK', nextUntracked' \in Nat,
         UNCHANGED <<tracked, delivered, requests, epoch, nextOp, poster,
                     outcomes, responses>>,
         \A t \in Op : Standing(t) => Standing(t)'
  PROVE  NotificationsInv'
BY
DEF NotificationsInv, NotificationsTypeOK, FreshOK, TrackedOK, RequestsOK,
    DeliveredOK, ClosedOK, OneOutcomePerOperation, Untouched

-----------------------------------------------------------------------------
(* The steps.                                                                *)

LEMMA UntrackedSteps ==
  ASSUME NotificationsInv,
         \/ \E i \in Identifier : Post(i)
         \/ \E j \in jobs : AskedUntracked(j) \/ AddedUntracked(j)
  PROVE  NotificationsInv'
<1> USE DEF NotificationsInv
<1>1. ASSUME NEW i \in Identifier, Post(i)
      PROVE  NotificationsInv'
  <2>1. /\ jobs' = jobs \cup {Job("askUntracked", i, nextUntracked, epoch)}
        /\ nextUntracked \in Nat /\ nextUntracked' \in Nat
    BY <1>1 DEF Post, NotificationsTypeOK
  <2>2. "askUntracked" \notin TrackedStage
    BY DEF TrackedStage
  <2>3. JobsOK'
    BY <2>1, <2>2, JobsStart
  <2>4. QED
    BY <1>1, <2>1, <2>3, OnlyJobs DEF Post, history
<1>2. ASSUME NEW j \in jobs, AskedUntracked(j)
      PROVE  NotificationsInv'
  <2>1. JobsOK'
    BY <1>2, JobsDrop, JobsContinue DEF AskedUntracked
  <2>2. QED
    BY <1>2, <2>1, OnlyJobs DEF AskedUntracked, Standing, NotificationsTypeOK
<1>3. ASSUME NEW j \in jobs, AddedUntracked(j)
      PROVE  NotificationsInv'
  <2>1. JobsOK'
    BY <1>3, JobsDrop DEF AddedUntracked
  <2>2. QED
    BY <1>3, <2>1, OnlyJobs DEF AddedUntracked, history, NotificationsTypeOK
<1>4. QED
  BY <1>1, <1>2, <1>3

LEMMA BeginRequestStep ==
  ASSUME NotificationsInv, BeginRequest
  PROVE  NotificationsInv'
<1> USE Numbers DEF NotificationsInv
<1>1. /\ poster /\ nextOp \in Op /\ nextOp' = nextOp + 1 /\ nextOp \in Nat
      /\ UNCHANGED <<nextUntracked, tracked, delivered, epoch, poster,
                     outcomes, responses, superseded, overtaken>>
  BY DEF BeginRequest, NotificationsTypeOK, Op
<1>2. /\ requests' \in {requests, requests \cup {nextOp}}
      /\ JobsOK'
  <2>1. CASE Cardinality(requests) < MaxPending
    <3>1. /\ requests' = requests \cup {nextOp}
          /\ jobs' = jobs \cup {Job("query", NoIdentifier, nextOp, epoch)}
      BY <2>1 DEF BeginRequest
    <3>2. "query" \notin TrackedStage
      BY DEF TrackedStage
    <3>3. JobsOK'
      BY <1>1, <3>1, <3>2, JobsStart
    <3>4. QED
      BY <3>1, <3>3
  <2>2. CASE ~(Cardinality(requests) < MaxPending)
    BY <2>2 DEF BeginRequest, JobsOK
  <2>3. QED
    BY <2>1, <2>2
<1>3. NotificationsTypeOK'
  BY <1>1, <1>2 DEF NotificationsTypeOK
<1>4. FreshOK'
  <2>1. ASSUME NEW t \in Op, t >= nextOp'
        PROVE  t \in Nat /\ t >= nextOp /\ t # nextOp
    BY <1>1, <2>1
  <2>2. QED
    BY <1>1, <1>2, <2>1 DEF FreshOK, Untouched
<1>5. TrackedOK'
  <2>1. \A i \in Identifier : tracked[i] # nextOp
    BY <1>1 DEF FreshOK
  <2>2. QED
    BY <1>1, <1>2, <2>1 DEF TrackedOK, Untouched
<1>6. RequestsOK'
  BY <1>1, <1>2 DEF RequestsOK, FreshOK, Untouched
<1>7. QED
  BY <1>1, <1>2, <1>3, <1>4, <1>5, <1>6
  DEF DeliveredOK, ClosedOK, OneOutcomePerOperation

LEMMA QueryStep ==
  ASSUME NotificationsInv, NEW j \in jobs, QueryAnswered(j)
  PROVE  NotificationsInv'
<1> USE Numbers DEF NotificationsInv
<1>1. JobsOK'
  BY JobsDrop DEF QueryAnswered
<1>2. UNCHANGED <<nextUntracked, tracked, delivered, epoch, nextOp, poster,
                  responses, superseded, overtaken>>
  BY DEF QueryAnswered
<1>3. CASE j.epoch = epoch /\ j.token \in requests
  <2> DEFINE t == j.token
  <2>1. /\ t \in requests /\ requests' = requests \ {t}
        /\ PostOutcome(t, "answered")
    BY <1>3 DEF QueryAnswered
  <2> HIDE DEF t
  <2>2. t \in Op /\ poster /\ outcomes[t] = <<>>
    BY <2>1 DEF RequestsOK, ClosedOK, NotificationsTypeOK
  <2>3. /\ outcomes' \in [Op -> Seq(Result)]
        /\ outcomes'[t] = <<"answered">>
        /\ \A u \in Op \ {t} : outcomes'[u] = outcomes[u]
        /\ OneOutcomePerOperation'
    BY <2>1, <2>2, FirstOutcome DEF Result
  <2>4. NotificationsTypeOK'
    BY <1>2, <2>1, <2>3 DEF NotificationsTypeOK
  <2>5. FreshOK'
    BY <1>2, <2>1, <2>2, <2>3 DEF FreshOK, Untouched
  <2>6. TrackedOK'
    BY <1>2, <2>1, <2>3 DEF TrackedOK, Untouched, NotificationsTypeOK
  <2>7. RequestsOK'
    BY <2>1, <2>3 DEF RequestsOK, NotificationsTypeOK
  <2>8. DeliveredOK'
    <3>1. \A i \in Identifier : delivered[i] # None => delivered[i] # t
      <4>1. <<>> # <<"delivered">>
        OBVIOUS
      <4>2. QED
        BY <2>2, <4>1 DEF DeliveredOK
    <3>2. QED
      BY <1>2, <2>3, <3>1 DEF DeliveredOK, NotificationsTypeOK
  <2>9. QED
    BY <1>1, <1>2, <2>1, <2>3, <2>4, <2>5, <2>6, <2>7, <2>8 DEF ClosedOK
<1>4. CASE ~(j.epoch = epoch /\ j.token \in requests)
  BY <1>1, <1>2, <1>4, OnlyJobs DEF QueryAnswered, NotificationsTypeOK
<1>5. QED
  BY <1>3, <1>4
\* What is delivered has its result, and what is under way does not.
LEMMA Apart ==
  ASSUME NotificationsInv, NEW i \in Identifier, NEW t,
         t \in requests \/ \E k \in Identifier : tracked[k] = t
  PROVE  delivered[i] # None => delivered[i] # t
<1>1. <<>> # <<"delivered">>
  OBVIOUS
<1>2. QED
  BY <1>1 DEF NotificationsInv, RequestsOK, TrackedOK, DeliveredOK, Untouched

\* Operations under way or delivered took their number before.
LEMMA Taken ==
  ASSUME NotificationsTypeOK, FreshOK, NEW i \in Identifier, NEW t, t # None,
         t = tracked[i] \/ t = delivered[i]
  PROVE  t \in Op /\ t \in Nat /\ t < nextOp
<1>1. t \in Op /\ t \in Nat /\ nextOp \in Nat
  BY Numbers DEF NotificationsTypeOK
<1>2. ~(t >= nextOp)
  BY <1>1 DEF FreshOK
<1>3. QED
  BY <1>1, <1>2

\* A tracked operation ends with a result, delivered or not.
LEMMA Settles ==
  ASSUME NotificationsInv, NEW i \in Identifier, tracked[i] # None,
         NEW result \in Result, PostOutcome(tracked[i], result), JobsOK',
         tracked' = [tracked EXCEPT ![i] = None],
         \/ UNCHANGED delivered
         \/ /\ result = "delivered"
            /\ delivered' = [delivered EXCEPT ![i] = tracked[i]],
         UNCHANGED <<nextUntracked, requests, epoch, nextOp, poster,
                     responses, superseded, overtaken>>
  PROVE  NotificationsInv'
<1> USE Numbers DEF NotificationsInv
<1> DEFINE t == tracked[i]
<1>1. t \in Op /\ poster /\ Untouched(t) /\ t \notin requests
      /\ \A k \in Identifier : tracked[k] = t => k = i
  BY DEF TrackedOK, ClosedOK, NotificationsTypeOK
<1>2. /\ outcomes' \in [Op -> Seq(Result)]
      /\ outcomes'[t] = <<result>>
      /\ \A u \in Op \ {t} : outcomes'[u] = outcomes[u]
      /\ OneOutcomePerOperation'
  BY <1>1, FirstOutcome DEF Untouched
<1>3. \A k \in Identifier :
        /\ tracked'[k] = IF k = i THEN None ELSE tracked[k]
        /\ delivered'[k] \in {delivered[k], t}
        /\ delivered'[k] # delivered[k] => k = i /\ result = "delivered"
        /\ delivered[k] # None => delivered[k] # t
  BY Apart DEF NotificationsTypeOK
<1>4. tracked' \in [Identifier -> Op \cup {None}]
      /\ delivered' \in [Identifier -> Op \cup {None}]
  BY <1>1 DEF NotificationsTypeOK
<1>5. t \in Nat /\ t < nextOp
  BY <1>1, Taken
<1> HIDE DEF t
<1>6. NotificationsTypeOK'
  BY <1>2, <1>4 DEF NotificationsTypeOK
<1>7. FreshOK'
  <2> SUFFICES ASSUME NEW u \in Op, u >= nextOp
               PROVE  /\ Untouched(u)' /\ u \notin requests
                      /\ \A k \in Identifier :
                           tracked'[k] # u /\ delivered'[k] # u
    BY DEF FreshOK
  <2>1. u # t /\ u # None
    BY <1>5 DEF NotificationsTypeOK
  <2>2. /\ Untouched(u) /\ u \notin requests
        /\ \A k \in Identifier : tracked[k] # u /\ delivered[k] # u
    BY DEF FreshOK
  <2>3. Untouched(u)'
    BY <1>2, <2>1, <2>2 DEF Untouched
  <2>4. QED
    BY <1>3, <2>1, <2>2, <2>3, Zenon
<1>8. TrackedOK'
  <2> SUFFICES ASSUME NEW k \in Identifier, tracked'[k] # None
               PROVE  /\ Untouched(tracked[k])' /\ tracked'[k] \notin requests
                      /\ \A l \in Identifier :
                           tracked'[l] = tracked'[k] => l = k
    BY DEF TrackedOK
  <2>1. k # i /\ tracked'[k] = tracked[k] /\ tracked[k] # None
    BY <1>3
  <2>2. tracked[k] \in Op \ {t}
    BY <1>1, <2>1 DEF NotificationsTypeOK
  <2>3. /\ Untouched(tracked[k]) /\ tracked[k] \notin requests
        /\ \A l \in Identifier : tracked[l] = tracked[k] => l = k
    BY <2>1 DEF TrackedOK
  <2>4. Untouched(tracked[k])'
    <3>1. PICK u \in Op \ {t} : u = tracked[k] /\ u = tracked'[k]
      BY <2>1, <2>2
    <3>2. Untouched(u)'
      BY <1>2, <2>3, <3>1 DEF Untouched
    <3>3. QED
      BY <3>1, <3>2
  <2>5. \A l \in Identifier : tracked'[l] = tracked[k] => l = k
    BY <1>3, <2>1, <2>3
  <2>6. QED
    BY <2>1, <2>3, <2>4, <2>5
<1>9. RequestsOK'
  BY <1>1, <1>2 DEF RequestsOK, NotificationsTypeOK
<1>10. DeliveredOK'
  <2> SUFFICES ASSUME NEW k \in Identifier, delivered'[k] # None
               PROVE  /\ outcomes'[delivered'[k]] = <<"delivered">>
                      /\ responses'[delivered'[k]] = 0
                      /\ (delivered'[k] \in superseded'
                            => delivered'[k] \in overtaken')
                      /\ \A l \in Identifier :
                           delivered'[l] = delivered'[k] => l = k
    BY DEF DeliveredOK
  <2>1. CASE delivered'[k] # delivered[k]
    BY <1>1, <1>2, <1>3, <2>1 DEF Untouched
  <2>2. CASE delivered'[k] = delivered[k]
    <3>1. delivered[k] \in Op \ {t}
      BY <1>3, <2>2 DEF NotificationsTypeOK
    <3>2. \A l \in Identifier : delivered'[l] = delivered[k] => l = k
      BY <1>3, <3>1 DEF DeliveredOK
    <3>3. QED
      BY <1>2, <2>2, <3>1, <3>2 DEF DeliveredOK
  <2>3. QED
    BY <2>1, <2>2
<1>11. QED
  BY <1>1, <1>2, <1>6, <1>7, <1>8, <1>9, <1>10 DEF ClosedOK

\* An identifier is used again or removed: what it had under way is cancelled,
\* and the response to what it had delivered is forgotten.
LEMMA Supersedes ==
  ASSUME NotificationsInv, poster, NEW i \in Identifier, JobsOK',
         NEW new, \/ new = None /\ nextOp' = nextOp
                  \/ new = nextOp /\ nextOp \in Op /\ nextOp' = nextOp + 1,
         tracked' = [tracked EXCEPT ![i] = new],
         delivered' = [delivered EXCEPT ![i] = None],
         Supersede(i),
         IF tracked[i] = None THEN UNCHANGED outcomes
         ELSE PostOutcome(tracked[i], "cancelled"),
         UNCHANGED <<nextUntracked, requests, epoch, poster, responses>>
  PROVE  NotificationsInv'
<1> USE Numbers DEF NotificationsInv
<1> DEFINE old == tracked[i]
           gone == delivered[i]
<1>1. /\ outcomes' \in [Op -> Seq(Result)]
      /\ \A u \in Op \ {old} : outcomes'[u] = outcomes[u]
      /\ OneOutcomePerOperation'
  <2>1. CASE old = None
    BY <2>1 DEF OneOutcomePerOperation, NotificationsTypeOK
  <2>2. CASE old # None
    <3>1. old \in Op /\ outcomes[old] = <<>>
      BY <2>2 DEF TrackedOK, Untouched, NotificationsTypeOK
    <3>2. QED
      BY <2>2, <3>1, FirstOutcome DEF Result
  <2>3. QED
    BY <2>1, <2>2
<1>2. \A k \in Identifier :
        /\ tracked'[k] = IF k = i THEN new ELSE tracked[k]
        /\ delivered'[k] = IF k = i THEN None ELSE delivered[k]
  BY DEF NotificationsTypeOK
<1>3. old # None => old \in Op /\ old < nextOp
  BY Taken
<1>4. gone # None => gone \in Op /\ gone < nextOp
  BY Taken
<1>5. \A k \in Identifier \ {i} :
        /\ tracked[k] # None => tracked[k] # old /\ tracked[k] # gone
        /\ delivered[k] # None => delivered[k] # old /\ delivered[k] # gone
  BY Apart DEF TrackedOK, DeliveredOK
<1>6. \A u : u # old /\ u # gone /\ Standing(u) => Standing(u)'
  BY DEF Supersede, Standing
<1>7. NotificationsTypeOK'
  <2>1. new \in Op \cup {None} /\ nextOp' \in Nat /\ nextOp' >= 1
    BY DEF NotificationsTypeOK
  <2>2. tracked' \in [Identifier -> Op \cup {None}]
        /\ delivered' \in [Identifier -> Op \cup {None}]
    BY <2>1 DEF NotificationsTypeOK
  <2>3. QED
    BY <1>1, <2>1, <2>2 DEF NotificationsTypeOK
<1>8. old \notin requests
  <2>1. CASE old = None
    BY <2>1 DEF NotificationsTypeOK
  <2>2. CASE old # None
    BY <2>2 DEF TrackedOK
  <2>3. QED
    BY <2>1, <2>2
<1> HIDE DEF old, gone
<1>9. FreshOK'
  <2> SUFFICES ASSUME NEW t \in Op, t >= nextOp'
               PROVE  /\ Untouched(t)' /\ t \notin requests'
                      /\ \A k \in Identifier :
                           tracked'[k] # t /\ delivered'[k] # t
    BY DEF FreshOK
  <2>1. t \in Nat /\ t >= nextOp /\ t # new /\ t # None
    BY DEF NotificationsTypeOK
  <2>2. t # old /\ t # gone
    BY <1>3, <1>4, <2>1 DEF NotificationsTypeOK
  <2>3. Untouched(t) /\ t \notin requests
        /\ \A k \in Identifier : tracked[k] # t /\ delivered[k] # t
    BY <2>1 DEF FreshOK
  <2>4. Untouched(t)'
    BY <1>1, <1>6, <2>2, <2>3 DEF Untouched
  <2>5. QED
    BY <1>2, <2>1, <2>3, <2>4
<1>10. TrackedOK'
  <2> SUFFICES ASSUME NEW k \in Identifier, tracked'[k] # None
               PROVE  /\ Untouched(tracked[k])' /\ tracked'[k] \notin requests'
                      /\ \A l \in Identifier :
                           tracked'[l] = tracked'[k] => l = k
    BY DEF TrackedOK
  <2>1. CASE k = i
    <3>1. new = nextOp /\ nextOp \in Op /\ tracked'[k] = new
      BY <1>2, <2>1
    <3>2. /\ Untouched(new) /\ new \notin requests
          /\ \A l \in Identifier : tracked[l] # new
      BY <3>1 DEF FreshOK, NotificationsTypeOK
    <3>3. new # old /\ new # gone
      BY <1>3, <1>4, <3>1 DEF NotificationsTypeOK
    <3>4. Untouched(new)'
      BY <1>1, <1>6, <3>1, <3>2, <3>3 DEF Untouched
    <3>5. \A l \in Identifier : tracked'[l] = new => l = k
      BY <1>2, <2>1, <3>2
    <3>6. QED
      BY <3>1, <3>2, <3>4, <3>5
  <2>2. CASE k # i
    <3>1. /\ tracked'[k] = tracked[k] /\ tracked[k] \in Op
          /\ tracked[k] # old /\ tracked[k] # gone
      BY <1>2, <1>5, <2>2 DEF NotificationsTypeOK
    <3>2. /\ Untouched(tracked[k]) /\ tracked[k] \notin requests
          /\ \A l \in Identifier : tracked[l] = tracked[k] => l = k
      BY <3>1 DEF TrackedOK
    <3>3. tracked[k] # new
      BY <3>1 DEF FreshOK, NotificationsTypeOK
    <3>4. Untouched(tracked[k])'
      BY <1>1, <1>6, <3>1, <3>2 DEF Untouched
    <3>5. \A l \in Identifier : tracked'[l] = tracked[k] => l = k
      BY <1>2, <3>2, <3>3
    <3>6. QED
      BY <3>1, <3>2, <3>4, <3>5
  <2>3. QED
    BY <2>1, <2>2
<1>11. RequestsOK'
  BY <1>1, <1>8 DEF RequestsOK, NotificationsTypeOK
<1>12. DeliveredOK'
  <2> SUFFICES ASSUME NEW k \in Identifier \ {i}, delivered[k] # None
               PROVE  /\ outcomes'[delivered[k]] = <<"delivered">>
                      /\ responses'[delivered[k]] = 0
                      /\ (delivered[k] \in superseded'
                            => delivered[k] \in overtaken')
                      /\ \A l \in Identifier :
                           delivered'[l] = delivered[k] => l = k
    BY <1>2 DEF DeliveredOK
  <2>1. delivered[k] \in Op \ {old} /\ delivered[k] # gone
    BY <1>5 DEF NotificationsTypeOK
  <2>2. /\ outcomes'[delivered[k]] = <<"delivered">>
        /\ responses[delivered[k]] = 0
        /\ (delivered[k] \in superseded' => delivered[k] \in overtaken')
    BY <1>1, <1>6, <2>1 DEF DeliveredOK
  <2>3. \A l \in Identifier : delivered'[l] = delivered[k] => l = k
    BY <1>2 DEF DeliveredOK
  <2>4. QED
    BY <2>2, <2>3
<1>13. QED
  BY <1>1, <1>7, <1>9, <1>10, <1>11, <1>12 DEF ClosedOK
LEMMA PostTrackedStep ==
  ASSUME NotificationsInv, NEW i \in Identifier, PostTracked(i)
  PROVE  NotificationsInv'
<1>1. /\ poster /\ nextOp \in Op /\ nextOp \in Nat /\ nextOp' = nextOp + 1
      /\ UNCHANGED <<nextUntracked, requests, epoch, poster, responses>>
  BY Numbers DEF PostTracked, NotificationsInv, NotificationsTypeOK, Op
<1>2. CASE MayTrack(i)
  <2>1. /\ tracked' = [tracked EXCEPT ![i] = nextOp]
        /\ delivered' = [delivered EXCEPT ![i] = None]
        /\ Supersede(i)
        /\ jobs' = jobs \cup {Job("settings", i, nextOp, epoch)}
        /\ IF tracked[i] = None THEN UNCHANGED outcomes
           ELSE PostOutcome(tracked[i], "cancelled")
    BY <1>2 DEF PostTracked
  <2>2. "settings" \in TrackedStage
    BY DEF TrackedStage
  <2>3. JobsOK'
    BY <1>1, <2>1, <2>2, JobsStart DEF NotificationsInv
  <2>4. QED
    BY <1>1, <2>1, <2>3, Supersedes
<1>3. CASE ~MayTrack(i)
  <2>1. UNCHANGED <<tracked, delivered, superseded, overtaken, jobs,
                  outcomes>>
    BY <1>3 DEF PostTracked
  <2>2. NotificationsTypeOK'
    BY <1>1, <2>1 DEF NotificationsInv, NotificationsTypeOK
  <2>3. FreshOK'
    <3>1. ASSUME NEW t \in Op, t >= nextOp'
          PROVE  t >= nextOp
      BY <1>1, <3>1, Numbers
    <3>2. QED
      BY <1>1, <2>1, <3>1 DEF NotificationsInv, FreshOK, Untouched
  <2>4. QED
    BY <1>1, <2>1, <2>2, <2>3
    DEF NotificationsInv, JobsOK, TrackedOK, RequestsOK, DeliveredOK,
        ClosedOK, OneOutcomePerOperation, Untouched
<1>4. QED
  BY <1>2, <1>3

LEMMA RemoveStep ==
  ASSUME NotificationsInv, NEW i \in Identifier, Remove(i)
  PROVE  NotificationsInv'
<1>1. /\ poster
      /\ tracked' = [tracked EXCEPT ![i] = None]
      /\ delivered' = [delivered EXCEPT ![i] = None]
      /\ Supersede(i)
      /\ IF tracked[i] = None THEN UNCHANGED outcomes
         ELSE PostOutcome(tracked[i], "cancelled")
      /\ UNCHANGED <<nextUntracked, requests, epoch, nextOp, poster,
                     responses, jobs>>
  BY DEF Remove
<1>2. JobsOK'
  BY <1>1 DEF NotificationsInv, JobsOK
<1>3. QED
  BY <1>1, <1>2, Supersedes

\* A job whose record is still the identifier's.
LEMMA CurrentJob ==
  ASSUME NotificationsInv, NEW j \in jobs, j.stage \in TrackedStage
  PROVE  /\ j.id \in Identifier
         /\ IsCurrent(j) => tracked[j.id] # None /\ tracked[j.id] = j.token
BY Numbers DEF NotificationsInv, JobsOK, IsCurrent

LEMMA CompleteTrackedStep ==
  ASSUME NotificationsInv, NEW j \in jobs, j.stage \in TrackedStage,
         CompleteTracked(j),
         UNCHANGED <<nextUntracked, delivered, requests, epoch, nextOp, poster,
                     responses, superseded, overtaken>>
  PROVE  NotificationsInv'
<1>1. JobsOK'
  BY JobsDrop DEF NotificationsInv, CompleteTracked
<1>2. CASE IsCurrent(j)
  <2>1. /\ tracked' = [tracked EXCEPT ![j.id] = None]
        /\ PostOutcome(tracked[j.id], "failed")
    BY <1>2, CurrentJob DEF CompleteTracked
  <2>2. QED
    BY <1>1, <1>2, <2>1, CurrentJob, Settles DEF Result
<1>3. CASE ~IsCurrent(j)
  BY <1>1, <1>3, OnlyJobs
  DEF CompleteTracked, NotificationsInv, NotificationsTypeOK
<1>4. QED
  BY <1>2, <1>3

LEMMA ScheduleTrackedStep ==
  ASSUME NotificationsInv, NEW j \in jobs, j.stage \in TrackedStage,
         ScheduleTracked(j),
         UNCHANGED <<nextUntracked, delivered, requests, epoch, nextOp, poster,
                     responses, superseded, overtaken>>
  PROVE  NotificationsInv'
<1>1. "add" \in TrackedStage
  BY DEF TrackedStage
<1>2. JobsOK'
  BY <1>1, JobsDrop, JobsContinue DEF ScheduleTracked, NotificationsInv
<1>3. QED
  BY <1>2, OnlyJobs DEF ScheduleTracked, NotificationsInv, NotificationsTypeOK

LEMMA TrackedSteps ==
  ASSUME NotificationsInv, NEW j \in jobs,
         SettingsKnown(j) \/ AuthorizationKnown(j) \/ Added(j)
  PROVE  NotificationsInv'
<1>1. CASE SettingsKnown(j)
  <2>1. j.stage \in TrackedStage /\ "authorize" \in TrackedStage
    BY <1>1 DEF SettingsKnown, TrackedStage
  <2>2. UNCHANGED <<nextUntracked, delivered, requests, epoch, nextOp, poster,
                    responses, superseded, overtaken>>
    BY <1>1 DEF SettingsKnown
  <2>3. CASE Continue(j, "authorize") /\ UNCHANGED <<tracked, outcomes>>
    <3>1. JobsOK'
      BY <2>1, <2>3, JobsContinue DEF NotificationsInv
    <3>2. QED
      BY <2>2, <2>3, <3>1, OnlyJobs DEF NotificationsInv, NotificationsTypeOK
  <2>4. QED
    BY <1>1, <2>1, <2>2, <2>3, CompleteTrackedStep, ScheduleTrackedStep
    DEF SettingsKnown
<1>2. CASE AuthorizationKnown(j)
  <2>1. j.stage \in TrackedStage
    BY <1>2 DEF AuthorizationKnown, TrackedStage
  <2>2. QED
    BY <1>2, <2>1, CompleteTrackedStep, ScheduleTrackedStep
    DEF AuthorizationKnown
<1>3. CASE Added(j)
  <2>1. j.stage \in TrackedStage
    BY <1>3 DEF Added, TrackedStage
  <2>2. UNCHANGED <<nextUntracked, requests, epoch, nextOp, poster, responses,
                    superseded, overtaken>>
    BY <1>3 DEF Added
  <2>3. CASE CompleteTracked(j) /\ UNCHANGED delivered
    BY <2>1, <2>2, <2>3, CompleteTrackedStep
  <2>4. CASE /\ Drop(j) /\ IsCurrent(j)
             /\ tracked' = [tracked EXCEPT ![j.id] = None]
             /\ delivered' = [delivered EXCEPT ![j.id] = j.token]
             /\ PostOutcome(j.token, "delivered")
    <3>1. JobsOK'
      BY <2>4, JobsDrop DEF NotificationsInv
    <3>2. QED
      BY <2>1, <2>2, <2>4, <3>1, CurrentJob, Settles DEF Result
  <2>5. CASE /\ Drop(j) /\ ~IsCurrent(j)
             /\ UNCHANGED <<tracked, delivered, outcomes>>
    <3>1. JobsOK'
      BY <2>5, JobsDrop DEF NotificationsInv
    <3>2. QED
      BY <2>2, <2>5, <3>1, OnlyJobs DEF NotificationsInv, NotificationsTypeOK
  <2>6. QED
    BY <1>3, <2>3, <2>4, <2>5 DEF Added
<1>4. QED
  BY <1>1, <1>2, <1>3

LEMMA RespondStep ==
  ASSUME NotificationsInv, NEW i \in Identifier, Respond(i)
  PROVE  /\ NotificationsInv'
         /\ \A t \in Op : responses'[t] # responses[t] => t = delivered[i]
<1> USE Numbers DEF NotificationsInv
<1> DEFINE t == delivered[i]
<1>1. /\ t # None /\ t \in Op /\ t \in Nat /\ t < nextOp
      /\ outcomes[t] = <<"delivered">>
  BY Taken DEF Respond, DeliveredOK
<1>2. /\ delivered' = [delivered EXCEPT ![i] = None]
      /\ \/ responses' = [responses EXCEPT ![t] = @ + 1]
         \/ UNCHANGED responses
      /\ UNCHANGED <<nextUntracked, tracked, requests, epoch, nextOp, poster,
                     jobs, outcomes, superseded, overtaken>>
  BY DEF Respond
<1>3. /\ responses' \in [Op -> Nat]
      /\ \A u \in Op \ {t} : responses'[u] = responses[u]
      /\ \A k \in Identifier :
           delivered'[k] = IF k = i THEN None ELSE delivered[k]
  BY <1>1, <1>2 DEF NotificationsTypeOK
<1>4. \A k \in Identifier :
        /\ tracked[k] # t
        /\ k # i /\ delivered[k] # None => delivered[k] # t
  BY <1>1, Apart DEF DeliveredOK
<1> HIDE DEF t
<1>5. NotificationsTypeOK'
  BY <1>2, <1>3 DEF NotificationsTypeOK
<1>6. FreshOK'
  <2> SUFFICES ASSUME NEW u \in Op, u >= nextOp
               PROVE  /\ Untouched(u)' /\ u \notin requests
                      /\ \A k \in Identifier :
                           tracked[k] # u /\ delivered'[k] # u
    BY <1>2 DEF FreshOK
  <2>1. u # t /\ u # None
    BY <1>1 DEF NotificationsTypeOK
  <2>2. /\ Untouched(u) /\ u \notin requests
        /\ \A k \in Identifier : tracked[k] # u /\ delivered[k] # u
    BY DEF FreshOK
  <2>3. QED
    BY <1>2, <1>3, <2>1, <2>2 DEF Untouched
<1>7. TrackedOK'
  <2> SUFFICES ASSUME NEW k \in Identifier, tracked[k] # None
               PROVE  /\ Untouched(tracked[k])' /\ tracked[k] \notin requests
                      /\ \A l \in Identifier :
                           tracked[l] = tracked[k] => l = k
    BY <1>2 DEF TrackedOK
  <2>1. tracked[k] \in Op \ {t}
    BY <1>4 DEF NotificationsTypeOK
  <2>2. QED
    BY <1>2, <1>3, <2>1 DEF TrackedOK, Untouched
<1>8. DeliveredOK'
  <2> SUFFICES ASSUME NEW k \in Identifier \ {i}, delivered[k] # None
               PROVE  /\ outcomes[delivered[k]] = <<"delivered">>
                      /\ responses'[delivered[k]] = 0
                      /\ Standing(delivered[k])
                      /\ \A l \in Identifier :
                           delivered'[l] = delivered[k] => l = k
    BY <1>2, <1>3 DEF DeliveredOK
  <2>1. delivered[k] \in Op \ {t}
    BY <1>4 DEF NotificationsTypeOK
  <2>2. \A l \in Identifier : delivered'[l] = delivered[k] => l = k
    BY <1>3 DEF DeliveredOK
  <2>3. QED
    BY <1>3, <2>1, <2>2 DEF DeliveredOK
<1>9. QED
  BY <1>2, <1>3, <1>5, <1>6, <1>7, <1>8
  DEF t, JobsOK, RequestsOK, ClosedOK, OneOutcomePerOperation

LEMMA BridgeSteps ==
  ASSUME NotificationsInv, Shutdown \/ Reopen
  PROVE  NotificationsInv'
<1> USE Numbers DEF NotificationsInv
<1>1. CASE Shutdown
  <2>1. /\ epoch' = epoch + 1 /\ poster' = FALSE /\ requests' = {}
        /\ tracked' = [i \in Identifier |-> None]
        /\ delivered' = [i \in Identifier |-> None]
        /\ UNCHANGED <<nextUntracked, nextOp, jobs, outcomes, responses,
                       superseded, overtaken>>
    BY <1>1 DEF Shutdown, history
  <2>2. \A i \in Identifier : tracked'[i] = None /\ delivered'[i] = None
    BY <2>1
  <2>3. NotificationsTypeOK'
    BY <2>1 DEF NotificationsTypeOK
  <2>4. FreshOK'
    BY <2>1, <2>2 DEF FreshOK, Untouched, NotificationsTypeOK
  <2>5. QED
    BY <2>1, <2>2, <2>3, <2>4
    DEF JobsOK, TrackedOK, RequestsOK, DeliveredOK, ClosedOK,
        OneOutcomePerOperation
<1>2. CASE Reopen
  BY <1>2
  DEF Reopen, centerVars, history, NotificationsTypeOK, JobsOK, FreshOK,
      TrackedOK, RequestsOK, DeliveredOK, ClosedOK, OneOutcomePerOperation,
      Untouched
<1>3. QED
  BY <1>1, <1>2

-----------------------------------------------------------------------------
(* The theorems.                                                             *)

LEMMA NotificationsInitially ==
  Init => NotificationsInv
<1> SUFFICES ASSUME Init PROVE NotificationsInv
  OBVIOUS
<1> USE Numbers DEF Init
<1>1. /\ \A i \in Identifier : tracked[i] = None /\ delivered[i] = None
      /\ \A t \in Op : outcomes[t] = <<>> /\ responses[t] = 0
  OBVIOUS
<1>2. <<>> \in Seq(Result) /\ Len(<<>>) = 0
  OBVIOUS
<1>3. NotificationsTypeOK
  BY <1>2 DEF NotificationsTypeOK
<1>4. OneOutcomePerOperation
  BY <1>1 DEF OneOutcomePerOperation
<1>5. JobsOK /\ FreshOK /\ TrackedOK /\ RequestsOK /\ DeliveredOK /\ ClosedOK
  BY <1>1
  DEF JobsOK, FreshOK, TrackedOK, RequestsOK, DeliveredOK, ClosedOK, Untouched
<1>6. QED
  BY <1>3, <1>4, <1>5 DEF NotificationsInv

LEMMA NotificationsStep ==
  NotificationsInv /\ [Next]_vars => NotificationsInv'
<1> SUFFICES ASSUME NotificationsInv, [Next]_vars
             PROVE  NotificationsInv'
  OBVIOUS
<1>1. CASE UNCHANGED vars
  BY <1>1
  DEF vars, centerVars, history, NotificationsInv,
      NotificationsTypeOK, JobsOK,
      FreshOK, TrackedOK, RequestsOK, DeliveredOK, ClosedOK,
      OneOutcomePerOperation, Untouched
<1>2. QED
  BY <1>1, UntrackedSteps, BeginRequestStep, QueryStep, PostTrackedStep,
     RemoveStep, TrackedSteps, RespondStep, BridgeSteps
  DEF Next, Completion

\* An operation is in one place at a time and owes one result while it is
\* under way, through every interleaving of completions and calls.
THEOREM NotificationsInvariant == Spec => []NotificationsInv
BY NotificationsInitially, NotificationsStep, PTL DEF Spec

\* No operation gets two results, whichever of its completion, a newer post
\* and its removal comes first, in any epoch.
THEOREM AlwaysOneOutcome == Spec => []OneOutcomePerOperation
<1>1. NotificationsInv => OneOutcomePerOperation
  BY DEF NotificationsInv
<1>2. QED
  BY <1>1, NotificationsInvariant, PTL

\* Only what was reported as delivered gets a response, once, and nothing that
\* has been removed or replaced does, but for what an untracked post has
\* replaced in the center and left in the records.
THEOREM ResponseAlwaysFollowsDelivery ==
  Spec => ResponseFollowsDelivery
<1> DEFINE Follows ==
      \A t \in Op : responses'[t] # responses[t] =>
        /\ outcomes[t] = <<"delivered">>
        /\ responses[t] = 0
        /\ t \in superseded => t \in overtaken
<1>1. NotificationsInv /\ [Next]_vars
        => [Follows]_vars
  <2> SUFFICES ASSUME NotificationsInv, Next,
                      NEW t \in Op, responses'[t] # responses[t]
               PROVE  /\ outcomes[t] = <<"delivered">>
                      /\ responses[t] = 0
                      /\ Standing(t)
    OBVIOUS
  <2>1. PICK i \in Identifier : Respond(i)
    BY
    DEF Next, Completion, AskedUntracked, AddedUntracked,
        QueryAnswered,
        SettingsKnown, AuthorizationKnown, Added, Post, PostTracked, Remove,
        BeginRequest, Shutdown, Reopen, centerVars, history
  <2>2. t = delivered[i] /\ delivered[i] # None
    BY <2>1, RespondStep DEF Respond
  <2>3. QED
    BY <2>2 DEF NotificationsInv, DeliveredOK, Standing
<1>2. QED
  BY <1>1, NotificationsInvariant, PTL
     DEF Spec, ResponseFollowsDelivery
=============================================================================
