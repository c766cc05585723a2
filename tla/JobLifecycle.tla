---------------------------- MODULE JobLifecycle ----------------------------
(***************************************************************************)
(* A transcription job from upload to transcript: the Job and User rows in *)
(* Postgres, the BullMQ entry in Redis, the Python worker, and every code  *)
(* path of the API that writes them.                                       *)
(*                                                                         *)
(* The API is one Node process: a handler runs without interruption up to  *)
(* its next await, so each action is the code between two awaits, and the  *)
(* program counters (ingest, cancel, deletion, callback, report) say where *)
(* each call in flight stands.  Prisma updates are unconditional: they are *)
(* keyed by the job id alone and fail when the row is gone.                *)
(*                                                                         *)
(* BullMQ and the worker are not in the repository; they are modelled from *)
(* the options the producer passes, the events the API subscribes to and   *)
(* the routes the worker calls.                                            *)
(***************************************************************************)
EXTENDS Integers, FiniteSetsExt

CONSTANTS
  Jobs,          \* job ids: uuids minted by sign-url and sent back by the client
  Users,
  Owner,         \* [Jobs -> Users]: the user sign-url minted the id for
  Minutes,       \* [Jobs -> Nat]: durationSeconds / 60 as the worker reports it, 0 if absent
  Quota,         \* [Users -> Nat]: User.monthlyQuota
  Translated,    \* the jobs uploaded with a targetLanguage
  Managed,       \* bound: the jobs whose owner may cancel or delete them
  MaxAttempts,   \* config.QUEUE_MAX_RETRIES
  MaxPosts,      \* bound: POST /upload calls per job id
  MaxRuns,       \* bound: activations of a job's queue entry
  MaxFaults,     \* bound: crashes, I/O errors and stalls
  Reports        \* the progress values the worker may report, within 0..100

Posts  == 1..MaxPosts
Runs   == 1..MaxRuns
Calls  == Jobs \X Posts
Results == Jobs \X Runs

ASSUME BoundsAssumption ==
  /\ MaxAttempts \in Nat \ {0}
  /\ MaxPosts \in Nat /\ MaxRuns \in Nat /\ MaxFaults \in Nat
  /\ Reports \subseteq 0..100

ASSUME JobsAssumption ==
  /\ Owner \in [Jobs -> Users]
  /\ Minutes \in [Jobs -> Nat]
  /\ Quota \in [Users -> Nat]
  /\ Translated \subseteq Jobs
  /\ Managed \subseteq Jobs

VARIABLES
  status,        \* Job.status, "ABSENT" when there is no row
  bullId,        \* is Job.bullJobId set?
  progress,      \* Job.progress
  used,          \* User.usedMinutes
  transcripts,   \* the jobs that have a Transcription row (jobId is unique)
  entry,         \* the BullMQ entry of each job id
  fails,         \* failed attempts of the entry
  runs,          \* activations of the entry
  activeEvents,  \* 'active' events whose UPDATE has not been applied yet
  failedEvents,  \* 'failed' events whose UPDATE has not been applied yet
  ingest,        \* the POST /upload calls
  cancel,        \* the POST /jobs/:id/cancel call in flight
  deletion,      \* the DELETE /jobs/:id call in flight
  report,        \* the progress value of a POST /internal/.../progress in flight, or -1
  callback,      \* the result of each activation, posted to /internal/.../callback
  notices,       \* callbacks acknowledged whose mail is still to be sent
  faults,
  \* What happened so far; no code reads these.
  seen,          \* what has happened to the job id
  completed,     \* results that markAsCompleted recorded
  billed         \* results whose minutes were added to usedMinutes

rowVars   == <<status, bullId, progress>>
queueVars == <<entry, fails, runs>>
eventVars == <<activeEvents, failedEvents>>
callVars  == <<ingest, cancel, deletion, report, callback, notices>>
moneyVars == <<used, transcripts, completed, billed>>
vars == <<rowVars, queueVars, eventVars, callVars, moneyVars, faults, seen>>

JobStatus == {"PENDING", "QUEUED", "PROCESSING", "COMPLETED", "FAILED", "CANCELLED"}
Terminal  == {"COMPLETED", "FAILED", "CANCELLED"}
Causes    == {"enqueued", "activated", "succeeded", "failed", "cancelled"}

TypeOK ==
  /\ status \in [Jobs -> JobStatus \cup {"ABSENT"}]
  /\ bullId \in [Jobs -> BOOLEAN]
  /\ progress \in [Jobs -> 0..100]
  /\ used \in [Users -> Nat]
  /\ transcripts \subseteq Jobs
  /\ entry \in [Jobs -> {"none", "waiting", "active", "completed", "failed"}]
  /\ fails \in [Jobs -> 0..MaxAttempts]
  /\ runs \in [Jobs -> 0..MaxRuns]
  /\ activeEvents \in [Jobs -> Nat]
  /\ failedEvents \in [Jobs -> Nat]
  /\ ingest \in [Calls -> {"new", "create", "enqueue", "mark", "done"}]
  /\ cancel \in [Jobs -> {"idle", "remove", "mark"}]
  /\ deletion \in [Jobs -> {"idle", "delete"}]
  /\ report \in [Jobs -> Reports \cup {-1}]
  /\ callback \in [Results -> {"idle", "succeeded", "failed", "complete", "fail",
                               "bill", "publish", "done"}]
  /\ notices \subseteq Results
  /\ faults \in 0..MaxFaults
  /\ seen \in [Jobs -> SUBSET Causes]
  /\ completed \subseteq Results
  /\ billed \subseteq Results

Init ==
  /\ status = [j \in Jobs |-> "ABSENT"]
  /\ bullId = [j \in Jobs |-> FALSE]
  /\ progress = [j \in Jobs |-> 0]
  /\ used = [u \in Users |-> 0]
  /\ transcripts = {}
  /\ entry = [j \in Jobs |-> "none"]
  /\ fails = [j \in Jobs |-> 0]
  /\ runs = [j \in Jobs |-> 0]
  /\ activeEvents = [j \in Jobs |-> 0]
  /\ failedEvents = [j \in Jobs |-> 0]
  /\ ingest = [c \in Calls |-> "new"]
  /\ cancel = [j \in Jobs |-> "idle"]
  /\ deletion = [j \in Jobs |-> "idle"]
  /\ report = [j \in Jobs |-> -1]
  /\ callback = [r \in Results |-> "idle"]
  /\ notices = {}
  /\ faults = 0
  /\ seen = [j \in Jobs |-> {}]
  /\ completed = {}
  /\ billed = {}

-----------------------------------------------------------------------------
(* The jobs repository: one SQL statement each.  An update of a row that is *)
(* gone raises an error and changes nothing.                                *)

Exists(j) == status[j] # "ABSENT"

Happened(j, cause) == seen' = [seen EXCEPT ![j] = @ \cup {cause}]

CreateRow(j) ==
  /\ status' = [status EXCEPT ![j] = "PENDING"]
  /\ bullId' = [bullId EXCEPT ![j] = FALSE]
  /\ progress' = [progress EXCEPT ![j] = 0]

\* A mutant of MarkAsQueued: an upsert instead of an update.
MarkAsQueuedUpsert(j) ==
  /\ status' = [status EXCEPT ![j] = "QUEUED"]
  /\ bullId' = [bullId EXCEPT ![j] = TRUE]
  /\ UNCHANGED progress

MarkAsQueued(j) ==
  \/ /\ Exists(j)
     /\ status' = [status EXCEPT ![j] = "QUEUED"]
     /\ bullId' = [bullId EXCEPT ![j] = TRUE]
     /\ UNCHANGED progress
  \/ ~Exists(j) /\ UNCHANGED rowVars

MarkAsProcessing(j) ==
  \/ /\ Exists(j)
     /\ status' = [status EXCEPT ![j] = "PROCESSING"]
     /\ progress' = [progress EXCEPT ![j] = 5]
     /\ UNCHANGED bullId
  \/ ~Exists(j) /\ UNCHANGED rowVars

\* A mutant of Clamped: the upper clamp of updateProgress is dropped.
ClampedBelow(p) == p

Clamped(p) == IF p > 99 THEN 99 ELSE p

\* A mutant of UpdateProgress: the report is added instead of stored.
UpdateProgressAdds(j, p) ==
  \/ /\ Exists(j)
     /\ progress' = [progress EXCEPT ![j] = @ + Clamped(p)]
     /\ UNCHANGED <<status, bullId>>
  \/ ~Exists(j) /\ UNCHANGED rowVars

UpdateProgress(j, p) ==
  \/ /\ Exists(j)
     /\ progress' = [progress EXCEPT ![j] = Clamped(p)]
     /\ UNCHANGED <<status, bullId>>
  \/ ~Exists(j) /\ UNCHANGED rowVars

MarkAsCompleted(j) ==
  /\ status' = [status EXCEPT ![j] = "COMPLETED"]
  /\ progress' = [progress EXCEPT ![j] = 100]
  /\ UNCHANGED bullId

MarkAsFailed(j) ==
  \/ /\ Exists(j)
     /\ status' = [status EXCEPT ![j] = "FAILED"]
     /\ UNCHANGED <<bullId, progress>>
  \/ ~Exists(j) /\ UNCHANGED rowVars

MarkAsCancelled(j) ==
  \/ /\ Exists(j)
     /\ status' = [status EXCEPT ![j] = "CANCELLED"]
     /\ UNCHANGED <<bullId, progress>>
  \/ ~Exists(j) /\ UNCHANGED rowVars

DeleteRow(j) ==
  /\ status' = [status EXCEPT ![j] = "ABSENT"]
  /\ bullId' = [bullId EXCEPT ![j] = FALSE]
  /\ progress' = [progress EXCEPT ![j] = 0]

-----------------------------------------------------------------------------
(* POST /upload: UploadService.ingest.                                      *)

\* The usage check reads usedMinutes once; an exceeded quota rejects the call
\* without a trace, and the client may post again.
IngestCheck(c) ==
  /\ ingest[c] = "new"
  /\ used[Owner[c[1]]] < Quota[Owner[c[1]]]
  /\ ingest' = [ingest EXCEPT ![c] = "create"]
  /\ UNCHANGED <<rowVars, queueVars, eventVars, moneyVars, cancel, deletion, report,
                 callback, notices, faults, seen>>

\* The id is the client's: an insert of an id that has a row is refused.
IngestCreate(c) ==
  /\ ingest[c] = "create"
  /\ \/ /\ ~Exists(c[1])
        /\ CreateRow(c[1])
        /\ ingest' = [ingest EXCEPT ![c] = "enqueue"]
     \/ /\ Exists(c[1])
        /\ ingest' = [ingest EXCEPT ![c] = "done"]
        /\ UNCHANGED rowVars
  /\ UNCHANGED <<queueVars, eventVars, moneyVars, cancel, deletion, report,
                 callback, notices, faults, seen>>

\* A mutant of Enqueue: the entry is never added.
EnqueueNothing(j) == UNCHANGED <<entry, fails>>

\* queue.add with the job id as BullMQ id: BullMQ ignores an id it still holds.
Enqueue(j) ==
  \/ /\ entry[j] = "none"
     /\ entry' = [entry EXCEPT ![j] = "waiting"]
     /\ fails' = [fails EXCEPT ![j] = 0]
  \/ entry[j] # "none" /\ UNCHANGED <<entry, fails>>

IngestEnqueue(c) ==
  /\ ingest[c] = "enqueue"
  /\ Enqueue(c[1])
  /\ ingest' = [ingest EXCEPT ![c] = "mark"]
  /\ Happened(c[1], "enqueued")
  /\ UNCHANGED <<rowVars, runs, eventVars, moneyVars, cancel, deletion, report,
                 callback, notices, faults>>

IngestMark(c) ==
  /\ ingest[c] = "mark"
  /\ MarkAsQueued(c[1])
  /\ ingest' = [ingest EXCEPT ![c] = "done"]
  /\ UNCHANGED <<queueVars, eventVars, moneyVars, cancel, deletion, report,
                 callback, notices, faults, seen>>

-----------------------------------------------------------------------------
(* POST /jobs/:id/cancel and DELETE /jobs/:id: JobsService.cancel, delete.  *)
(* Both decide on the row as it was read, several awaits before they write. *)

CancelRead(j) ==
  /\ j \in Managed
  /\ cancel[j] = "idle"
  /\ status[j] \in {"PENDING", "QUEUED"}
  /\ cancel' = [cancel EXCEPT ![j] = IF bullId[j] THEN "remove" ELSE "mark"]
  /\ Happened(j, "cancelled")
  /\ UNCHANGED <<rowVars, queueVars, eventVars, moneyVars, ingest, deletion, report,
                 callback, notices, faults>>

\* job.remove() fails when the worker holds the entry; the error is caught.
CancelRemove(j) ==
  /\ cancel[j] = "remove"
  /\ \/ /\ entry[j] # "active"
        /\ entry' = [entry EXCEPT ![j] = "none"]
        /\ UNCHANGED faults
     \/ entry[j] = "active" /\ UNCHANGED <<entry, faults>>
     \/ /\ faults < MaxFaults
        /\ faults' = faults + 1
        /\ UNCHANGED entry
  /\ cancel' = [cancel EXCEPT ![j] = "mark"]
  /\ UNCHANGED <<rowVars, fails, runs, eventVars, moneyVars, ingest, deletion, report,
                 callback, notices, seen>>

CancelMark(j) ==
  /\ cancel[j] = "mark"
  /\ MarkAsCancelled(j)
  /\ cancel' = [cancel EXCEPT ![j] = "idle"]
  /\ UNCHANGED <<queueVars, eventVars, moneyVars, ingest, deletion, report,
                 callback, notices, faults, seen>>

DeleteRead(j) ==
  /\ j \in Managed
  /\ deletion[j] = "idle"
  /\ status[j] \in {"PENDING"} \cup Terminal
  /\ deletion' = [deletion EXCEPT ![j] = "delete"]
  /\ UNCHANGED <<rowVars, queueVars, eventVars, moneyVars, ingest, cancel, report,
                 callback, notices, faults, seen>>

DeleteWrite(j) ==
  /\ deletion[j] = "delete"
  /\ DeleteRow(j)
  /\ deletion' = [deletion EXCEPT ![j] = "idle"]
  /\ UNCHANGED <<queueVars, eventVars, moneyVars, ingest, cancel, report,
                 callback, notices, faults, seen>>

-----------------------------------------------------------------------------
(* BullMQ and the Python worker.                                            *)

WorkerStarts(j) ==
  /\ entry[j] = "waiting"
  /\ runs[j] < MaxRuns
  /\ entry' = [entry EXCEPT ![j] = "active"]
  /\ runs' = [runs EXCEPT ![j] = @ + 1]
  /\ activeEvents' = [activeEvents EXCEPT ![j] = @ + 1]
  /\ Happened(j, "activated")
  /\ UNCHANGED <<rowVars, fails, failedEvents, moneyVars, callVars, faults>>

\* One progress POST at a time; its UPDATE may be late.
WorkerProgress(j) ==
  /\ entry[j] = "active"
  /\ report[j] = -1
  /\ \E p \in Reports : report' = [report EXCEPT ![j] = p]
  /\ UNCHANGED <<rowVars, queueVars, eventVars, moneyVars, ingest, cancel, deletion,
                 callback, notices, faults, seen>>

\* The callback route answers before anything is applied, so the worker moves on.
WorkerPosts(j, outcome) ==
  LET r == <<j, runs[j]>> IN
  /\ entry[j] = "active"
  /\ callback[r] = "idle"
  /\ callback' = [callback EXCEPT ![r] = outcome]
  /\ notices' = notices \cup {r}
  /\ Happened(j, outcome)
  /\ UNCHANGED <<rowVars, queueVars, eventVars, moneyVars, ingest, cancel, deletion,
                 report, faults>>

\* removeOnComplete keeps the latest completed entry only.
WorkerCompletes(j) ==
  /\ entry[j] = "active"
  /\ callback[<<j, runs[j]>>] # "idle"
  /\ entry' = [k \in Jobs |-> IF k = j THEN "completed"
                              ELSE IF entry[k] = "completed" THEN "none" ELSE entry[k]]
  /\ UNCHANGED <<rowVars, fails, runs, eventVars, moneyVars, callVars, faults, seen>>

Exhausted(n) == n >= MaxAttempts

\* A failed attempt goes back to the queue until the attempts are used up; only
\* then does BullMQ emit 'failed'.
WorkerFails(j) ==
  /\ entry[j] = "active"
  /\ fails' = [fails EXCEPT ![j] = @ + 1]
  /\ \/ /\ ~Exhausted(fails[j] + 1)
        /\ entry' = [entry EXCEPT ![j] = "waiting"]
        /\ UNCHANGED <<failedEvents, seen>>
     \/ /\ Exhausted(fails[j] + 1)
        /\ entry' = [entry EXCEPT ![j] = "failed"]
        /\ failedEvents' = [failedEvents EXCEPT ![j] = @ + 1]
        /\ Happened(j, "failed")
  /\ UNCHANGED <<rowVars, runs, activeEvents, moneyVars, callVars, faults>>

\* The worker dies or loses its lock: BullMQ puts the entry back.
WorkerStalls(j) ==
  /\ entry[j] = "active"
  /\ faults < MaxFaults
  /\ faults' = faults + 1
  /\ entry' = [entry EXCEPT ![j] = "waiting"]
  /\ UNCHANGED <<rowVars, fails, runs, eventVars, moneyVars, callVars, seen>>

-----------------------------------------------------------------------------
(* The QueueEvents listeners.  The handlers are not serialised: an UPDATE    *)
(* may be applied long after its event, and in any order.                    *)

OnActive(j) ==
  /\ activeEvents[j] > 0
  /\ activeEvents' = [activeEvents EXCEPT ![j] = @ - 1]
  /\ MarkAsProcessing(j)
  /\ UNCHANGED <<queueVars, failedEvents, callVars, moneyVars, faults, seen>>

OnFailed(j) ==
  /\ failedEvents[j] > 0
  /\ failedEvents' = [failedEvents EXCEPT ![j] = @ - 1]
  /\ MarkAsFailed(j)
  /\ UNCHANGED <<queueVars, activeEvents, callVars, moneyVars, faults, seen>>

-----------------------------------------------------------------------------
(* POST /internal/jobs/:id/progress and /callback.                          *)

ProgressWrite(j) ==
  /\ report[j] # -1
  /\ UpdateProgress(j, report[j])
  /\ report' = [report EXCEPT ![j] = -1]
  /\ UNCHANGED <<queueVars, eventVars, moneyVars, ingest, cancel, deletion, callback,
                 notices, faults, seen>>

\* "Your Transcription Job is Completed!", once for each result that was posted.
sendUserConfirmationEmail(r) == r \in notices /\ notices' = notices \ {r}

\* The route's own lookup, mail and socket message run beside applyCallbackResult, whatever
\* the result says; they write nothing.
Notify(r) ==
  /\ sendUserConfirmationEmail(r)
  /\ UNCHANGED <<rowVars, queueVars, eventVars, moneyVars, ingest, cancel, deletion,
                 report, callback, faults, seen>>

Goto(r, pc) == callback' = [callback EXCEPT ![r] = pc]

\* A mutant of Verdict: result.success is ignored.
VerdictAlwaysGood(outcome) == "complete"

Verdict(outcome) == IF outcome = "succeeded" THEN "complete" ELSE "fail"

\* applyCallbackResult looks the job up first; a result for an unknown job is dropped.
CallbackRead(r) ==
  /\ callback[r] \in {"succeeded", "failed"}
  /\ \/ Exists(r[1]) /\ Goto(r, Verdict(callback[r]))
     \/ ~Exists(r[1]) /\ Goto(r, "done")
  /\ UNCHANGED <<rowVars, queueVars, eventVars, moneyVars, ingest, cancel, deletion,
                 report, notices, faults, seen>>

\* A mutant of AfterCompletion: the minutes are never billed.
AfterCompletionFree(j) == "publish"

AfterCompletion(j) == IF Minutes[j] > 0 THEN "bill" ELSE "publish"

\* markAsCompleted throws when the row was deleted in between, which ends the call.
CallbackComplete(r) ==
  /\ callback[r] = "complete"
  /\ \/ /\ Exists(r[1])
        /\ MarkAsCompleted(r[1])
        /\ completed' = completed \cup {r}
        /\ Goto(r, AfterCompletion(r[1]))
     \/ /\ ~Exists(r[1])
        /\ Goto(r, "done")
        /\ UNCHANGED <<rowVars, completed>>
  /\ UNCHANGED <<queueVars, eventVars, used, transcripts, billed, ingest, cancel,
                 deletion, report, notices, faults, seen>>

\* A mutant of IncrementUserMinutes: read-modify-write of a stale zero.
OverwriteUserMinutes(u, m) == used' = [used EXCEPT ![u] = m]

IncrementUserMinutes(u, m) == used' = [used EXCEPT ![u] = @ + m]

\* A mutant of AfterBilling: the billing is retried although it succeeded.
AfterBillingAgain(r) == "bill"

AfterBilling(r) == "publish"

CallbackBill(r) ==
  /\ callback[r] = "bill"
  /\ IncrementUserMinutes(Owner[r[1]], Minutes[r[1]])
  /\ billed' = billed \cup {r}
  /\ Goto(r, AfterBilling(r))
  /\ UNCHANGED <<rowVars, queueVars, eventVars, transcripts, completed, ingest, cancel,
                 deletion, report, notices, faults, seen>>

\* Download, translate and insert.  Without a target language `segments` is the whole
\* downloaded object, which has no map(): building the insert throws.  A second insert
\* for the same job breaks the unique jobId.
Publishable(j) == j \in Translated /\ j \notin transcripts

CallbackPublish(r) ==
  /\ callback[r] = "publish"
  /\ \/ Publishable(r[1]) /\ transcripts' = transcripts \cup {r[1]}
     \/ ~Publishable(r[1]) /\ UNCHANGED transcripts
  /\ Goto(r, "done")
  /\ UNCHANGED <<rowVars, queueVars, eventVars, used, completed, billed, ingest, cancel,
                 deletion, report, notices, faults, seen>>

CallbackFail(r) ==
  /\ callback[r] = "fail"
  /\ MarkAsFailed(r[1])
  /\ Goto(r, "done")
  /\ UNCHANGED <<queueVars, eventVars, moneyVars, ingest, cancel, deletion, report,
                 notices, faults, seen>>

-----------------------------------------------------------------------------
(* Faults.                                                                  *)

\* One call fails at an await (database, Redis, storage or translation error).  The
\* error is logged or answered; what the call did before stays done.
CallFails ==
  /\ faults < MaxFaults
  /\ faults' = faults + 1
  /\ \/ \E c \in Calls :
          /\ ingest[c] \in {"create", "enqueue", "mark"}
          /\ ingest' = [ingest EXCEPT ![c] = "done"]
          /\ UNCHANGED <<eventVars, cancel, deletion, report, callback, notices>>
     \/ \E j \in Jobs :
          /\ cancel[j] = "mark"
          /\ cancel' = [cancel EXCEPT ![j] = "idle"]
          /\ UNCHANGED <<eventVars, ingest, deletion, report, callback, notices>>
     \/ \E j \in Jobs :
          /\ deletion[j] = "delete"
          /\ deletion' = [deletion EXCEPT ![j] = "idle"]
          /\ UNCHANGED <<eventVars, ingest, cancel, report, callback, notices>>
     \/ \E j \in Jobs :
          /\ report[j] # -1
          /\ report' = [report EXCEPT ![j] = -1]
          /\ UNCHANGED <<eventVars, ingest, cancel, deletion, callback, notices>>
     \/ \E r \in Results :
          /\ callback[r] \notin {"idle", "done"}
          /\ Goto(r, "done")
          /\ UNCHANGED <<eventVars, ingest, cancel, deletion, report, notices>>
     \/ \E r \in notices :
          /\ notices' = notices \ {r}
          /\ UNCHANGED <<eventVars, ingest, cancel, deletion, report, callback>>
     \/ \E j \in Jobs :
          /\ activeEvents[j] > 0
          /\ activeEvents' = [activeEvents EXCEPT ![j] = @ - 1]
          /\ UNCHANGED <<failedEvents, callVars>>
     \/ \E j \in Jobs :
          /\ failedEvents[j] > 0
          /\ failedEvents' = [failedEvents EXCEPT ![j] = @ - 1]
          /\ UNCHANGED <<activeEvents, callVars>>
  /\ UNCHANGED <<rowVars, queueVars, moneyVars, seen>>

\* The process exits (a crash, an unhandled rejection, the forced shutdown) and starts
\* again: every call in flight is gone, and QueueEvents resumes at the stream's end.
Crash ==
  /\ faults < MaxFaults
  /\ faults' = faults + 1
  /\ ingest' = [c \in Calls |-> IF ingest[c] = "new" THEN "new" ELSE "done"]
  /\ cancel' = [j \in Jobs |-> "idle"]
  /\ deletion' = [j \in Jobs |-> "idle"]
  /\ report' = [j \in Jobs |-> -1]
  /\ callback' = [r \in Results |-> IF callback[r] = "idle" THEN "idle" ELSE "done"]
  /\ notices' = {}
  /\ activeEvents' = [j \in Jobs |-> 0]
  /\ failedEvents' = [j \in Jobs |-> 0]
  /\ UNCHANGED <<rowVars, queueVars, moneyVars, seen>>

-----------------------------------------------------------------------------
IngestStep(c)   == IngestCreate(c) \/ IngestEnqueue(c) \/ IngestMark(c)
CancelStep(j)   == CancelRemove(j) \/ CancelMark(j)
WorkerOutcome(j) ==
  \/ WorkerPosts(j, "succeeded") \/ WorkerPosts(j, "failed")
  \/ WorkerCompletes(j) \/ WorkerFails(j)
CallbackStep(r) ==
  \/ CallbackRead(r) \/ CallbackComplete(r) \/ CallbackBill(r)
  \/ CallbackPublish(r) \/ CallbackFail(r)

Next ==
  \/ \E c \in Calls : IngestCheck(c) \/ IngestStep(c)
  \/ \E j \in Jobs : CancelRead(j) \/ CancelStep(j) \/ DeleteRead(j) \/ DeleteWrite(j)
  \/ \E j \in Jobs :
       WorkerStarts(j) \/ WorkerProgress(j) \/ WorkerOutcome(j) \/ WorkerStalls(j)
  \/ \E j \in Jobs : OnActive(j) \/ OnFailed(j) \/ ProgressWrite(j)
  \/ \E r \in Results : Notify(r) \/ CallbackStep(r)
  \/ CallFails
  \/ Crash

Spec == Init /\ [][Next]_vars

\* A call in flight proceeds (the event loop turns), listeners apply what they
\* received, and a worker that takes entries also ends them, one way or the other.
\* Nothing obliges a client to call.
Fairness ==
  /\ \A c \in Calls : WF_vars(IngestStep(c))
  /\ \A j \in Jobs :
       /\ WF_vars(CancelStep(j)) /\ WF_vars(DeleteWrite(j))
       /\ WF_vars(WorkerStarts(j)) /\ WF_vars(WorkerOutcome(j))
       /\ WF_vars(OnActive(j)) /\ WF_vars(OnFailed(j)) /\ WF_vars(ProgressWrite(j))
  /\ \A r \in Results : WF_vars(CallbackStep(r)) /\ WF_vars(Notify(r))

FairSpec == Spec /\ Fairness

-----------------------------------------------------------------------------
(* Safety.                                                                  *)

\* What must have happened to a job id for its row to have status s.
CauseOf(s) ==
  CASE s = "QUEUED"     -> "enqueued"
    [] s = "PROCESSING" -> "activated"
    [] s = "COMPLETED"  -> "succeeded"
    [] s = "FAILED"     -> "failed"
    [] s = "CANCELLED"  -> "cancelled"

\* However late and out of order the writes of ingest, of the two queue listeners, of
\* cancel and of the callback land, a row never shows a status, or a BullMQ id, that
\* nothing accounts for: COMPLETED needs a success report, PROCESSING an activation, ...
StatusHasCause ==
  \A j \in Jobs :
    /\ status[j] \in JobStatus \ {"PENDING"} => CauseOf(status[j]) \in seen[j]
    /\ bullId[j] => "enqueued" \in seen[j]

\* Progress 100 is shown only for a job whose worker reported success, although the
\* worker may report 100 before it is done and reports may be applied late.
FullProgressIsEarned ==
  \A j \in Jobs : progress[j] = 100 => "succeeded" \in seen[j]

\* A transcript exists only for a job some result of which was recorded and, when the
\* result has minutes, billed: no crash or repeated callback gives one away.
TranscribedWasBilled ==
  \A j \in transcripts : \E r \in completed :
    /\ r[1] = j
    /\ Minutes[j] > 0 => r \in billed

ResultMinutes == [r \in Results |-> Minutes[r[1]]]

\* The minutes of a user are those of the results billed, each counted once, with
\* any number of callbacks for the user's jobs in flight.
UsageIsLedger ==
  \A u \in Users :
    used[u] = SumFunctionOnSet(ResultMinutes, {r \in billed : Owner[r[1]] = u})

\* A late write never brings a deleted job back: a row appears only as the insert of an
\* upload leaves it.
NoResurrection ==
  [][\A j \in Jobs :
       ~Exists(j) /\ Exists(j)' =>
         /\ status'[j] = "PENDING" /\ ~bullId'[j] /\ progress'[j] = 0
         /\ \E n \in Posts : ingest[<<j, n>>] = "create" /\ ingest'[<<j, n>>] = "enqueue"]_vars

\* The pipeline implements the ledger: a result is recorded before it is billed, billed at
\* most once, and published after that.
Ledger == INSTANCE JobLedger
LedgerSpec == Ledger!Spec

-----------------------------------------------------------------------------
(* Liveness, under FairSpec.                                                *)

\* Without faults, and with ids posted once, an accepted upload does not stay unanswered:
\* its row is gone or reaches a terminal status (it need not stay there).
UploadsSettle ==
  \A j \in Jobs : status[j] = "PENDING" ~> status[j] \in Terminal \cup {"ABSENT"}

\* Without faults a job that is shown as completed is also billed, and one that asked
\* for a translation gets its transcript.
CompletionIsDelivered ==
  \A j \in Jobs :
    status[j] = "COMPLETED" ~>
      /\ Minutes[j] > 0 => \E r \in billed : r[1] = j
      /\ j \in Translated => j \in transcripts

-----------------------------------------------------------------------------
(* What the repository says of its jobs, and the code does not keep.        *)

\* jobs.service.ts:102 says of cancel "Remove from BullMQ if queued": a job that is
\* cancelled is not started afterwards.
CancelledIsNotStarted ==
  [][\A j \in Jobs :
       status[j] = "CANCELLED" => ~(entry[j] = "waiting" /\ entry'[j] = "active")]_vars

\* The status COMPLETED, and internal.router.ts:331, which mails "Your Transcription Job is
\* Completed!": unless its owner deletes it, a completed job has a transcript in the end.
CompletedIsTranscribed ==
  \A j \in Jobs : status[j] = "COMPLETED" ~> j \in transcripts \/ ~Exists(j)
=============================================================================
