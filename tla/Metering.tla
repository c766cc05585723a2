------------------------------ MODULE Metering ------------------------------
(***************************************************************************)
(* Metering: the quota gate in front of sign-url, the usage check of POST   *)
(* /upload, and what moves the numbers they read: the writers of the job    *)
(* rows, billing, and the plan changes of the payments webhook.             *)
(*                                                                         *)
(* An upload has three durations.  The gate takes the one its client tells  *)
(* sign-url; the row has the one the client posts, until the worker's       *)
(* result replaces it; billing takes the worker's.  Nor does POST /upload   *)
(* ask for a link that was signed.  An upload is one id, posted once;       *)
(* JobLifecycle has ids posted again, crashes and lost writes.              *)
(***************************************************************************)
EXTENDS Integers, FiniteSets, Functions

CONSTANTS
  Users, Jobs, None,
  Customers,          \* the users Stripe knows, whose plan the webhook changes
  Owner,
  Timed,              \* the uploads whose call of sign-url says how long they are
  Declared,           \* the minutes it says; its body has no schema
  Stored,             \* the minutes POST /upload says
  Measured,           \* the minutes the worker finds, or 0 when its result has no duration
  Tiers,
  Written,            \* the subscription rows the webhook may write
  Quota,              \* PLANS[tier].monthlyQuotaMinutes
  InitialTier,        \* the plan a user has had from before
  Managed,            \* bound: the uploads that may be cancelled or deleted
  MaxRuns,            \* bound: activations of each upload's entry
  MaxPlanChanges      \* bound: changes of subscription rows and plans

\* A subscription as of its current period, which is valid until it ends and paid once a
\* payment succeeds in it.
Subscriptions ==
  [status : {"ACTIVE", "CANCELED", "PAST_DUE"}, cancelAtPeriodEnd : BOOLEAN,
   valid : BOOLEAN, paid : BOOLEAN]

ASSUME MeteringAssumption ==
  /\ Customers \subseteq Users /\ IsFiniteSet(Jobs)
  /\ Owner \in [Jobs -> Users] /\ Timed \subseteq Jobs /\ Managed \subseteq Jobs
  /\ Declared \in [Jobs -> Int] /\ Stored \in [Jobs -> Nat] /\ Measured \in [Jobs -> Nat]
  /\ {"FREE", "PRO"} \subseteq Tiers /\ Written \subseteq Subscriptions
  /\ Quota \in [Tiers -> Nat \ {0}]
  /\ InitialTier \in [Users -> Tiers]
  /\ MaxRuns \in [Jobs -> Nat] /\ MaxPlanChanges \in Nat

VARIABLES
  tier, used,       \* columns of the user; monthlyQuota goes with planTier
  sub,              \* the user's subscription, or None
  changes,          \* plan changes so far
  status, duration, \* columns of the row of an upload
  gate,             \* where its call of sign-url is
  read,             \* the user as read there
  ingest,           \* where its POST /upload is
  request,          \* where its owner's call to cancel or delete it is
  entry, runs,      \* its queue entry, and the activations of it
  activeEvents,     \* the activations whose 'active' event is on its way
  failedEvents,     \* the uploads whose 'failed' event is
  callback,         \* where the result of each activation is
  \* What happened so far; no code reads these.
  visible,          \* the minutes of each upload that were on the way when a gate summed up
  later,            \* the minutes of each upload billed since a gate read the user
  blind,            \* the gates that know no duration, or not the plan of today
  unseen            \* the minutes of each upload the last grant could not take into account

userVars  == <<tier, used, sub, changes>>
rowVars   == <<status, duration>>
gateVars  == <<gate, read, visible, later, blind>>
callVars  == <<ingest, request>>
queueVars == <<entry, runs, activeEvents, failedEvents>>
vars == <<userVars, rowVars, gateVars, callVars, queueVars, callback, unseen>>

JobsOf(u) == {j \in Jobs : Owner[j] = u}
Results == UNION {{j} \X (1..MaxRuns[j]) : j \in Jobs}
Current(j) == <<j, runs[j]>>

JobStatus == {"PENDING", "QUEUED", "PROCESSING", "COMPLETED", "FAILED", "CANCELLED"}

TypeOK ==
  /\ tier \in [Users -> Tiers] /\ used \in [Users -> Nat]
  /\ sub \in [Users -> Subscriptions \cup {None}]
  /\ changes \in 0..MaxPlanChanges
  /\ status \in [Jobs -> JobStatus \cup {"ABSENT"}] /\ duration \in [Jobs -> Nat]
  /\ gate \in [Jobs -> {"none", "sum", "subscription", "signed"}]
  /\ read \in [Jobs -> [tier : Tiers, used : Nat]]
  /\ ingest \in [Jobs -> {"none", "create", "add", "mark", "done"}]
  /\ request \in [Jobs -> {"none", "remove", "cancel", "delete"}]
  /\ entry \in [Jobs -> {"none", "waiting", "active", "done"}]
  /\ runs \in [Jobs -> Nat] /\ \A j \in Jobs : runs[j] <= MaxRuns[j]
  /\ activeEvents \subseteq Results /\ failedEvents \subseteq Jobs
  /\ callback \in [Results -> {"none", "succeeded", "failed", "bill", "billed", "done"}]
  /\ visible \in [Jobs -> [Jobs -> Nat]] /\ later \in [Jobs -> [Jobs -> Nat]]
  /\ blind \subseteq Jobs
  /\ unseen \in [Jobs -> Nat]

Unread == [tier |-> "FREE", used |-> 0]
PaidSubscription == [status |-> "ACTIVE", cancelAtPeriodEnd |-> FALSE, valid |-> TRUE, paid |-> TRUE]
Nothing == [j \in Jobs |-> 0]

Init ==
  /\ tier = InitialTier /\ used = [u \in Users |-> 0]
  /\ sub = [u \in Users |-> IF InitialTier[u] = "FREE" THEN None ELSE PaidSubscription]
  /\ changes = 0
  /\ status = [j \in Jobs |-> "ABSENT"] /\ duration = Nothing
  /\ gate = [j \in Jobs |-> "none"]
  /\ read = [j \in Jobs |-> Unread]
  /\ ingest = [j \in Jobs |-> "none"]
  /\ request = [j \in Jobs |-> "none"]
  /\ entry = [j \in Jobs |-> "none"] /\ runs = Nothing
  /\ activeEvents = {} /\ failedEvents = {}
  /\ callback = [r \in Results |-> "none"]
  /\ visible = [j \in Jobs |-> Nothing] /\ later = [j \in Jobs |-> Nothing]
  /\ blind = {}
  /\ unseen = Nothing

\* The first result that is billed settles what is due for an upload.
Billed(j) == \E r \in Results : r[1] = j /\ callback[r] = "billed"
\* Granted or posted, and not billed yet.
InFlight(j) == (gate[j] = "signed" \/ ingest[j] # "none") /\ ~Billed(j)
Due == [j \in Jobs |-> IF InFlight(j) THEN Measured[j] ELSE 0]

\* A gate that has read the user.
Reading(j, u) == Owner[j] = u /\ gate[j] \in {"sum", "subscription"}

-----------------------------------------------------------------------------
(* POST /upload/sign-url: checkTranscriptionQuota, then signUrl, which mints *)
(* the id.                                                                  *)

GateUser(j) ==
  /\ gate[j] = "none" /\ ingest[j] = "none"
  /\ gate' = [gate EXCEPT ![j] = "sum"]
  /\ LET u == Owner[j] IN read' = [read EXCEPT ![j] = [tier |-> tier[u], used |-> used[u]]]
  /\ blind' = IF j \in Timed THEN blind ELSE blind \cup {j}
  /\ UNCHANGED <<visible, later, userVars, rowVars, callVars, queueVars, callback, unseen>>

\* The rows the gate sums up, and a mutant of them.
ReservingQueued(u) == {k \in JobsOf(u) : status[k] = "QUEUED"}
Reserving(u) == {k \in JobsOf(u) : status[k] \in {"QUEUED", "PROCESSING"}}

\* A sum with a duration that was not given is NaN, and no NaN reaches the quota.
Exceeded(j) ==
  /\ j \in Timed
  /\ LET reserved == SumFunctionOnSet(duration, Reserving(Owner[j]))
     IN  read[j].used + reserved + Declared[j] >= Quota[read[j].tier]
UsedUp(j) == read[j].used >= Quota[read[j].tier]

\* What is queued or in process, by the rows of a user.
OnTheWay(u) ==
  [k \in Jobs |-> IF Owner[k] = u /\ status[k] \in {"QUEUED", "PROCESSING"} THEN duration[k] ELSE 0]

\* The call is over; a refused one may be made again.
Leave(j, outcome) ==
  /\ gate' = [gate EXCEPT ![j] = outcome]
  /\ read' = [read EXCEPT ![j] = Unread]
  /\ visible' = [visible EXCEPT ![j] = Nothing]
  /\ later' = [later EXCEPT ![j] = Nothing]
  /\ blind' = blind \ {j}

Refuse(j) == Leave(j, "none") /\ UNCHANGED unseen

Beyond(a, b) == IF a > b THEN a - b ELSE 0

\* The link is signed.  Unseen are what j takes beyond its declared minutes, and what the user's
\* uploads take, or have taken since the user was read, beyond the minutes that were summed up.
Admit(j, summed) ==
  /\ Leave(j, "signed")
  /\ unseen' = [k \in Jobs |->
       IF j \in blind THEN IF k = j THEN Measured[j] ELSE unseen[k]
       ELSE IF k = j THEN Beyond(Measured[j], Declared[j])
       ELSE IF Owner[k] = Owner[j] THEN Beyond(Due[k] + later[j][k], summed[k])
       ELSE unseen[k]]

GateReservation(j) ==
  /\ gate[j] = "sum"
  /\ \/ Exceeded(j) /\ Refuse(j)
     \/ /\ ~Exceeded(j) /\ read[j].tier = "PRO"
        /\ gate' = [gate EXCEPT ![j] = "subscription"]
        /\ visible' = [visible EXCEPT ![j] = OnTheWay(Owner[j])]
        /\ UNCHANGED <<read, later, blind, unseen>>
     \/ /\ ~Exceeded(j) /\ read[j].tier # "PRO"
        /\ IF UsedUp(j) THEN Refuse(j) ELSE Admit(j, OnTheWay(Owner[j]))
  /\ UNCHANGED <<userVars, rowVars, callVars, queueVars, callback>>

\* A subscription of a paid period, ended or not, lets PRO users through.
Entitled(s) ==
  /\ s # None
  /\ s.valid /\ (s.status = "ACTIVE" \/ (s.status = "CANCELED" /\ s.cancelAtPeriodEnd))
  /\ s.paid

GateSubscription(j) ==
  /\ gate[j] = "subscription"
  /\ IF Entitled(sub[Owner[j]]) /\ ~UsedUp(j) THEN Admit(j, visible[j]) ELSE Refuse(j)
  /\ UNCHANGED <<userVars, rowVars, callVars, queueVars, callback>>

-----------------------------------------------------------------------------
(* POST /upload: ingest, one write of it at a time.                         *)

\* The id is of a link that was signed, or of the client's own making.
IngestCheck(j) ==
  /\ gate[j] \in {"none", "signed"} /\ ingest[j] = "none"
  /\ used[Owner[j]] < Quota[tier[Owner[j]]]
  /\ ingest' = [ingest EXCEPT ![j] = "create"]
  /\ unseen' = IF gate[j] = "signed" THEN unseen ELSE [unseen EXCEPT ![j] = Measured[j]]
  /\ UNCHANGED <<request, userVars, rowVars, gateVars, queueVars, callback>>

IngestCreate(j) ==
  /\ ingest[j] = "create"
  /\ ingest' = [ingest EXCEPT ![j] = "add"]
  /\ status' = [status EXCEPT ![j] = "PENDING"]
  /\ duration' = [duration EXCEPT ![j] = Stored[j]]
  /\ UNCHANGED <<request, userVars, gateVars, queueVars, callback, unseen>>

Enqueue(j) ==
  /\ ingest[j] = "add"
  /\ ingest' = [ingest EXCEPT ![j] = "mark"]
  /\ entry' = [entry EXCEPT ![j] = "waiting"]
  /\ UNCHANGED <<request, userVars, rowVars, gateVars, runs, activeEvents, failedEvents, callback, unseen>>

\* An update of a row that is gone fails.
Write(j, s) ==
  status' = IF status[j] = "ABSENT" THEN status ELSE [status EXCEPT ![j] = s]

MarkAsQueued(j) ==
  /\ ingest[j] = "mark"
  /\ ingest' = [ingest EXCEPT ![j] = "done"]
  /\ Write(j, "QUEUED")
  /\ UNCHANGED <<request, userVars, duration, gateVars, queueVars, callback, unseen>>

-----------------------------------------------------------------------------
(* POST /jobs/:id/cancel and DELETE /jobs/:id, one call at a time.  Both     *)
(* decide on the row as it was read.                                        *)

Asks(j, pc) == request' = [request EXCEPT ![j] = pc]

\* The row has the id of the entry once it is marked as queued.
CancelRead(j) ==
  /\ j \in Managed /\ request[j] = "none"
  /\ status[j] \in {"PENDING", "QUEUED"}
  /\ Asks(j, IF ingest[j] = "done" THEN "remove" ELSE "cancel")
  /\ UNCHANGED <<ingest, userVars, rowVars, gateVars, queueVars, callback, unseen>>

\* An entry that is not removed, because the worker has it or for any other error, stays.
CancelRemove(j) ==
  /\ request[j] = "remove"
  /\ \/ entry[j] = "waiting" /\ entry' = [entry EXCEPT ![j] = "done"]
     \/ UNCHANGED entry
  /\ Asks(j, "cancel")
  /\ UNCHANGED <<ingest, userVars, rowVars, gateVars, runs, activeEvents, failedEvents, callback, unseen>>

\* A mutant of markAsCancelled: the spelling of the subscriptions' status.
CancelMarkCanceled(j) ==
  /\ request[j] = "cancel"
  /\ Write(j, "CANCELED")
  /\ Asks(j, "none")
  /\ UNCHANGED <<ingest, userVars, duration, gateVars, queueVars, callback, unseen>>

CancelMark(j) ==
  /\ request[j] = "cancel"
  /\ Write(j, "CANCELLED")
  /\ Asks(j, "none")
  /\ UNCHANGED <<ingest, userVars, duration, gateVars, queueVars, callback, unseen>>

DeleteRead(j) ==
  /\ j \in Managed /\ request[j] = "none"
  /\ status[j] \in {"PENDING", "COMPLETED", "FAILED", "CANCELLED"}
  /\ Asks(j, "delete")
  /\ UNCHANGED <<ingest, userVars, rowVars, gateVars, queueVars, callback, unseen>>

DeleteWrite(j) ==
  /\ request[j] = "delete"
  /\ status' = [status EXCEPT ![j] = "ABSENT"]
  /\ duration' = [duration EXCEPT ![j] = 0]
  /\ Asks(j, "none")
  /\ UNCHANGED <<ingest, userVars, gateVars, queueVars, callback, unseen>>

-----------------------------------------------------------------------------
(* BullMQ and the worker.                                                   *)

WorkerStarts(j) ==
  /\ entry[j] = "waiting" /\ runs[j] < MaxRuns[j]
  /\ entry' = [entry EXCEPT ![j] = "active"]
  /\ runs' = [runs EXCEPT ![j] = @ + 1]
  /\ activeEvents' = activeEvents \cup {<<j, runs[j] + 1>>}
  /\ UNCHANGED <<userVars, rowVars, gateVars, callVars, failedEvents, callback, unseen>>

\* The callback is answered before anything of it is applied.
WorkerPosts(j, outcome) ==
  /\ entry[j] = "active" /\ callback[Current(j)] = "none"
  /\ callback' = [callback EXCEPT ![Current(j)] = outcome]
  /\ UNCHANGED <<userVars, rowVars, gateVars, callVars, queueVars, unseen>>

\* It is done with a result posted, or its last attempt has failed.
WorkerEnds(j) ==
  /\ entry[j] = "active"
  /\ entry' = [entry EXCEPT ![j] = "done"]
  /\ \/ callback[Current(j)] # "none" /\ UNCHANGED failedEvents
     \/ failedEvents' = failedEvents \cup {j}
  /\ UNCHANGED <<userVars, rowVars, gateVars, callVars, runs, activeEvents, callback, unseen>>

\* It fails or stalls, and the entry goes back, a result posted or not.
WorkerRetries(j) ==
  /\ entry[j] = "active"
  /\ entry' = [entry EXCEPT ![j] = "waiting"]
  /\ UNCHANGED <<userVars, rowVars, gateVars, callVars, runs, activeEvents, failedEvents, callback, unseen>>

-----------------------------------------------------------------------------
(* The listeners, and applyCallbackResult.                                  *)

OnActive(r) ==
  /\ r \in activeEvents /\ activeEvents' = activeEvents \ {r}
  /\ Write(r[1], "PROCESSING")
  /\ UNCHANGED <<userVars, duration, gateVars, callVars, entry, runs, failedEvents, callback, unseen>>

OnFailed(j) ==
  /\ j \in failedEvents /\ failedEvents' = failedEvents \ {j}
  /\ Write(j, "FAILED")
  /\ UNCHANGED <<userVars, duration, gateVars, callVars, entry, runs, activeEvents, callback, unseen>>

\* The row is looked up and written; a result for a row that is gone ends there.
Complete(r) ==
  LET j == r[1]
      bills == status[j] # "ABSENT" /\ Measured[j] > 0 IN
  /\ callback[r] = "succeeded"
  /\ Write(j, "COMPLETED")
  /\ duration' = IF bills THEN [duration EXCEPT ![j] = Measured[j]] ELSE duration
  /\ callback' = [callback EXCEPT ![r] = IF bills THEN "bill" ELSE "done"]
  /\ UNCHANGED <<userVars, gateVars, callVars, queueVars, unseen>>

Fail(r) ==
  /\ callback[r] = "failed"
  /\ Write(r[1], "FAILED")
  /\ callback' = [callback EXCEPT ![r] = "done"]
  /\ UNCHANGED <<userVars, duration, gateVars, callVars, queueVars, unseen>>

\* No grant has taken a second result into account.
Bill(r) ==
  LET j == r[1] IN
  /\ callback[r] = "bill"
  /\ callback' = [callback EXCEPT ![r] = "billed"]
  /\ used' = [used EXCEPT ![Owner[j]] = @ + Measured[j]]
  /\ later' = [g \in Jobs |-> IF Reading(g, Owner[j]) THEN [later[g] EXCEPT ![j] = @ + Measured[j]]
                              ELSE later[g]]
  /\ unseen' = IF Billed(j) THEN [unseen EXCEPT ![j] = @ + Measured[j]] ELSE unseen
  /\ UNCHANGED <<tier, sub, changes, rowVars, gate, read, visible, blind, callVars, queueVars>>

-----------------------------------------------------------------------------
(* The payments webhook, and time.                                          *)

\* The row is written, or its period ends.
SubscriptionChanges(u) ==
  /\ changes < MaxPlanChanges /\ changes' = changes + 1
  /\ \E s \in Written : s # sub[u] /\ sub' = [sub EXCEPT ![u] = s]
  /\ UNCHANGED <<tier, used, rowVars, gateVars, callVars, queueVars, callback, unseen>>

updateUserPlan(u, t) == tier' = [tier EXCEPT ![u] = t] /\ used' = [used EXCEPT ![u] = 0]

\* What is in flight is still to be billed, to a usage that starts from nothing.
PlanChanges(u, t) ==
  /\ changes < MaxPlanChanges /\ changes' = changes + 1
  /\ updateUserPlan(u, t)
  /\ unseen' = [k \in Jobs |-> IF Owner[k] = u THEN Due[k] ELSE unseen[k]]
  /\ blind' = blind \cup {j \in Jobs : Reading(j, u)}
  /\ UNCHANGED <<sub, rowVars, gate, read, visible, later, callVars, queueVars, callback>>

-----------------------------------------------------------------------------
GateStep(j) == GateUser(j) \/ GateReservation(j) \/ GateSubscription(j)
IngestStep(j) == IngestCheck(j) \/ IngestCreate(j) \/ Enqueue(j) \/ MarkAsQueued(j)
RequestStep(j) == CancelRead(j) \/ CancelRemove(j) \/ CancelMark(j) \/ DeleteRead(j) \/ DeleteWrite(j)
WorkerStep(j) ==
  \/ WorkerStarts(j) \/ WorkerEnds(j) \/ WorkerRetries(j) \/ OnFailed(j)
  \/ \E outcome \in {"succeeded", "failed"} : WorkerPosts(j, outcome)
ResultStep(r) == OnActive(r) \/ Complete(r) \/ Fail(r) \/ Bill(r)

Next ==
  \/ \E j \in Jobs : GateStep(j) \/ IngestStep(j) \/ RequestStep(j) \/ WorkerStep(j)
  \/ \E r \in Results : ResultStep(r)
  \/ \E u \in Customers : SubscriptionChanges(u) \/ \E t \in Tiers : PlanChanges(u, t)

Spec == Init /\ [][Next]_vars

-----------------------------------------------------------------------------
\* The quota holds for what a user has used and what is in flight together, however gates,
\* uploads, results and plan changes interleave, but for the minutes the last grant could not
\* know of: an upload longer than its client told the gate or the row, or never signed; one not
\* queued or in process when the gate summed up; a second result; what a plan change forgot.
NoBlindOvershoot ==
  \A u \in Users :
    used[u] + SumFunctionOnSet(Due, JobsOf(u)) < Quota[tier[u]] + SumFunctionOnSet(unseen, JobsOf(u))
=============================================================================
