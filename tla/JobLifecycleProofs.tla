------------------------- MODULE JobLifecycleProofs -------------------------
(***************************************************************************)
(* Theorems about JobLifecycle, for every set of jobs and every bound.     *)
(***************************************************************************)
EXTENDS JobLifecycle, Sums

-----------------------------------------------------------------------------
(* Type correctness.  TypeOK is not inductive by itself: that an active     *)
(* entry has been activated, and that an entry still to be worked on has an *)
(* attempt left, keep the counters within their bounds.                     *)

QueueOK ==
  \A j \in Jobs :
    /\ entry[j] = "active" => runs[j] > 0
    /\ entry[j] \in {"waiting", "active"} => fails[j] < MaxAttempts

TypeInv == TypeOK /\ QueueOK

LEMMA TypeInit == Init => TypeInv
BY BoundsAssumption DEF Init, TypeInv, TypeOK, QueueOK, Calls, Results, Runs, JobStatus

LEMMA TypeIngest ==
  ASSUME TypeOK, NEW c \in Calls, IngestCheck(c) \/ IngestStep(c)
  PROVE  TypeOK'
<1> USE DEF rowVars, queueVars, eventVars, moneyVars, Happened
<1>j. c[1] \in Jobs
  BY DEF Calls
<1>1. CASE IngestCheck(c)
  BY <1>1 DEF IngestCheck, TypeOK
<1>2. CASE IngestCreate(c)
  <2>1. /\ status' \in [Jobs -> JobStatus \cup {"ABSENT"}]
        /\ bullId' \in [Jobs -> BOOLEAN]
        /\ progress' \in [Jobs -> 0..100]
    <3>1. CASE CreateRow(c[1])
      BY <3>1, <1>j DEF CreateRow, TypeOK, JobStatus
    <3>2. CASE UNCHANGED rowVars
      BY <3>2 DEF TypeOK
    <3> QED BY <1>2, <3>1, <3>2 DEF IngestCreate
  <2>2. ingest' \in [Calls -> {"new", "create", "enqueue", "mark", "done"}]
    BY <1>2 DEF IngestCreate, TypeOK
  <2> QED BY <1>2, <2>1, <2>2 DEF IngestCreate, TypeOK
<1>3. CASE IngestEnqueue(c)
  <2>1. /\ entry' \in [Jobs -> {"none", "waiting", "active", "completed", "failed"}]
        /\ fails' \in [Jobs -> 0..MaxAttempts]
    <3>1. entry \in [Jobs -> {"none", "waiting", "active", "completed", "failed"}]
      BY DEF TypeOK
    <3>2. fails \in [Jobs -> 0..MaxAttempts] /\ 0 \in 0..MaxAttempts
      BY BoundsAssumption DEF TypeOK
    <3>3. Enqueue(c[1])
      BY <1>3 DEF IngestEnqueue
    <3> QED BY <3>1, <3>2, <3>3 DEF Enqueue
  <2>2. ingest' \in [Calls -> {"new", "create", "enqueue", "mark", "done"}]
    BY <1>3 DEF IngestEnqueue, TypeOK
  <2>3. seen' \in [Jobs -> SUBSET Causes]
    BY <1>3, <1>j DEF IngestEnqueue, TypeOK, Causes
  <2>4. UNCHANGED <<rowVars, runs, eventVars, moneyVars, cancel, deletion, report, callback,
                    notices, faults>>
    BY <1>3 DEF IngestEnqueue
  <2> QED BY <2>1, <2>2, <2>3, <2>4 DEF TypeOK
<1>4. CASE IngestMark(c)
  <2>1. /\ status' \in [Jobs -> JobStatus \cup {"ABSENT"}]
        /\ bullId' \in [Jobs -> BOOLEAN]
        /\ progress' \in [Jobs -> 0..100]
    <3>1. MarkAsQueued(c[1])
      BY <1>4 DEF IngestMark
    <3>2. /\ status \in [Jobs -> JobStatus \cup {"ABSENT"}]
          /\ bullId \in [Jobs -> BOOLEAN]
          /\ progress \in [Jobs -> 0..100]
      BY DEF TypeOK
    <3>3. CASE UNCHANGED rowVars
      BY ONLY <3>2, <3>3 DEF rowVars
    <3>4. CASE /\ status' = [status EXCEPT ![c[1]] = "QUEUED"]
               /\ bullId' = [bullId EXCEPT ![c[1]] = TRUE]
               /\ UNCHANGED progress
      BY ONLY <3>2, <3>4 DEF JobStatus
    <3> QED BY ONLY <3>1, <3>3, <3>4 DEF MarkAsQueued
  <2>2. ingest' \in [Calls -> {"new", "create", "enqueue", "mark", "done"}]
    BY <1>4 DEF IngestMark, TypeOK
  <2>3. UNCHANGED <<queueVars, eventVars, moneyVars, cancel, deletion, report, callback,
                    notices, faults, seen>>
    BY <1>4 DEF IngestMark
  <2> QED BY ONLY TypeOK, <2>1, <2>2, <2>3 DEF TypeOK, rowVars, queueVars, eventVars, moneyVars
<1> QED BY <1>1, <1>2, <1>3, <1>4 DEF IngestStep

LEMMA TypeCancelDelete ==
  ASSUME TypeOK, NEW j \in Jobs,
         CancelRead(j) \/ CancelStep(j) \/ DeleteRead(j) \/ DeleteWrite(j)
  PROVE  TypeOK'
<1> USE DEF rowVars, queueVars, eventVars, moneyVars, Happened
<1>1. CASE CancelRead(j)
  <2>1. cancel' \in [Jobs -> {"idle", "remove", "mark"}]
    BY <1>1 DEF CancelRead, TypeOK
  <2>2. seen' \in [Jobs -> SUBSET Causes]
    BY <1>1 DEF CancelRead, TypeOK, Causes
  <2>3. UNCHANGED <<rowVars, queueVars, eventVars, moneyVars, ingest, deletion, report, callback,
                    notices, faults>>
    BY <1>1 DEF CancelRead
  <2> QED BY ONLY TypeOK, <2>1, <2>2, <2>3 DEF TypeOK, rowVars, queueVars, eventVars, moneyVars
<1>2. CASE CancelRemove(j)
  <2>1. /\ entry' \in [Jobs -> {"none", "waiting", "active", "completed", "failed"}]
        /\ cancel' \in [Jobs -> {"idle", "remove", "mark"}]
        /\ faults' \in 0..MaxFaults
    BY <1>2, BoundsAssumption DEF CancelRemove, TypeOK
  <2>2. UNCHANGED <<rowVars, runs, fails, eventVars, moneyVars, ingest, deletion, report,
                    callback, notices, seen>>
    BY <1>2 DEF CancelRemove
  <2> QED BY ONLY TypeOK, <2>1, <2>2 DEF TypeOK, rowVars, eventVars, moneyVars
<1>3. CASE CancelMark(j)
  BY <1>3 DEF CancelMark, MarkAsCancelled, TypeOK, JobStatus
<1>4. CASE DeleteRead(j)
  BY <1>4 DEF DeleteRead, TypeOK
<1>5. CASE DeleteWrite(j)
  BY <1>5 DEF DeleteWrite, DeleteRow, TypeOK
<1> QED BY <1>1, <1>2, <1>3, <1>4, <1>5 DEF CancelStep

LEMMA TypeWorker ==
  ASSUME TypeInv, NEW j \in Jobs,
         WorkerStarts(j) \/ WorkerProgress(j) \/ WorkerOutcome(j) \/ WorkerStalls(j)
  PROVE  TypeOK'
<1> USE DEF TypeInv, rowVars, queueVars, eventVars, callVars, moneyVars, Happened
<1>1. CASE WorkerStarts(j)
  BY <1>1, BoundsAssumption, SMTT(30) DEF WorkerStarts, TypeOK, Causes
<1>2. CASE WorkerProgress(j)
  BY <1>2 DEF WorkerProgress, TypeOK
<1>3. ASSUME NEW outcome \in {"succeeded", "failed"}, WorkerPosts(j, outcome)
      PROVE  TypeOK'
  <2>1. <<j, runs[j]>> \in Results
    BY <1>3, BoundsAssumption DEF WorkerPosts, TypeOK, QueueOK, Results, Runs
  <2>2. callback' \in [Results -> {"idle", "succeeded", "failed", "complete", "fail",
                                   "bill", "publish", "done"}]
    BY <1>3, <2>1 DEF WorkerPosts, TypeOK
  <2>3. notices' \subseteq Results
    BY <1>3, <2>1 DEF WorkerPosts, TypeOK
  <2>4. seen' \in [Jobs -> SUBSET Causes]
    BY <1>3 DEF WorkerPosts, TypeOK, Causes
  <2>5. UNCHANGED <<rowVars, queueVars, eventVars, moneyVars, ingest, cancel, deletion,
                    report, faults>>
    BY <1>3 DEF WorkerPosts
  <2> QED BY <2>2, <2>3, <2>4, <2>5 DEF TypeOK
<1>4. CASE WorkerCompletes(j)
  BY <1>4 DEF WorkerCompletes, TypeOK
<1>5. CASE WorkerFails(j)
  <2>1. fails[j] + 1 \in 0..MaxAttempts
    BY <1>5, BoundsAssumption DEF WorkerFails, TypeOK, QueueOK
  <2> QED BY <1>5, <2>1 DEF WorkerFails, TypeOK, Causes
<1>6. CASE WorkerStalls(j)
  BY <1>6, BoundsAssumption DEF WorkerStalls, TypeOK
<1> QED BY <1>1, <1>2, <1>3, <1>4, <1>5, <1>6 DEF WorkerOutcome

LEMMA TypeListener ==
  ASSUME TypeOK, NEW j \in Jobs, OnActive(j) \/ OnFailed(j) \/ ProgressWrite(j)
  PROVE  TypeOK'
<1> USE DEF rowVars, queueVars, eventVars, callVars, moneyVars
<1>1. CASE OnActive(j)
  BY <1>1 DEF OnActive, MarkAsProcessing, TypeOK, JobStatus
<1>2. CASE OnFailed(j)
  BY <1>2 DEF OnFailed, MarkAsFailed, TypeOK, JobStatus
<1>3. CASE ProgressWrite(j)
  <2>1. report[j] \in 0..100
    BY <1>3, BoundsAssumption DEF ProgressWrite, TypeOK
  <2>2. Clamped(report[j]) \in 0..100
    BY <2>1 DEF Clamped
  <2> QED BY <1>3, <2>2 DEF ProgressWrite, UpdateProgress, TypeOK
<1> QED BY <1>1, <1>2, <1>3

LEMMA TypeCallback ==
  ASSUME TypeOK, NEW r \in Results, Notify(r) \/ CallbackStep(r)
  PROVE  TypeOK'
<1> USE DEF rowVars, queueVars, eventVars, moneyVars, Goto
<1>j. r[1] \in Jobs
  BY DEF Results
<1>1. CASE Notify(r)
  BY <1>1, <1>j DEF Notify, sendUserConfirmationEmail, TypeOK
<1>2. CASE CallbackRead(r)
  BY <1>2 DEF CallbackRead, Verdict, TypeOK
<1>3. CASE CallbackComplete(r)
  BY <1>3, <1>j DEF CallbackComplete, MarkAsCompleted, AfterCompletion, TypeOK, JobStatus
<1>4. CASE CallbackBill(r)
  <2>1. used' \in [Users -> Nat]
    BY <1>4, <1>j, JobsAssumption DEF CallbackBill, IncrementUserMinutes, TypeOK
  <2> QED BY <1>4, <2>1 DEF CallbackBill, AfterBilling, TypeOK
<1>5. CASE CallbackPublish(r)
  BY <1>5, <1>j DEF CallbackPublish, TypeOK
<1>6. CASE CallbackFail(r)
  BY <1>6, <1>j DEF CallbackFail, MarkAsFailed, TypeOK, JobStatus
<1> QED BY <1>1, <1>2, <1>3, <1>4, <1>5, <1>6 DEF CallbackStep

LEMMA TypeFault ==
  ASSUME TypeOK, CallFails \/ Crash
  PROVE  TypeOK'
<1> USE BoundsAssumption DEF rowVars, queueVars, eventVars, callVars, moneyVars, Goto
<1>1. CASE CallFails
  <2>1. /\ ingest' \in [Calls -> {"new", "create", "enqueue", "mark", "done"}]
        /\ cancel' \in [Jobs -> {"idle", "remove", "mark"}]
        /\ deletion' \in [Jobs -> {"idle", "delete"}]
        /\ report' \in [Jobs -> Reports \cup {-1}]
        /\ notices' \subseteq Results
    BY <1>1 DEF CallFails, TypeOK
  <2>2. callback' \in [Results -> {"idle", "succeeded", "failed", "complete", "fail",
                                   "bill", "publish", "done"}]
    BY <1>1, SMTT(30) DEF CallFails, TypeOK
  <2>3. activeEvents' \in [Jobs -> Nat] /\ failedEvents' \in [Jobs -> Nat]
    BY <1>1 DEF CallFails, TypeOK
  <2> QED BY <1>1, <2>1, <2>2, <2>3, SMTT(30) DEF CallFails, TypeOK
<1>2. CASE Crash
  BY <1>2 DEF Crash, TypeOK
<1> QED BY <1>1, <1>2

\* Only ingest and the worker touch the queue, and cancel only removes from it.
LEMMA QueueStep ==
  ASSUME TypeInv, [Next]_vars
  PROVE  QueueOK'
<1> USE DEF TypeInv, QueueOK, queueVars
<1>1. ASSUME NEW c \in Calls, IngestEnqueue(c) PROVE QueueOK'
  BY <1>1, BoundsAssumption DEF IngestEnqueue, Enqueue, TypeOK, Calls
<1>2. ASSUME NEW j \in Jobs, CancelRemove(j) PROVE QueueOK'
  BY <1>2 DEF CancelRemove, TypeOK
<1>3. ASSUME NEW j \in Jobs, WorkerStarts(j) PROVE QueueOK'
  BY <1>3 DEF WorkerStarts, TypeOK
<1>4. ASSUME NEW j \in Jobs, WorkerCompletes(j) PROVE QueueOK'
  BY <1>4 DEF WorkerCompletes, TypeOK
<1>5. ASSUME NEW j \in Jobs, WorkerFails(j) PROVE QueueOK'
  BY <1>5, BoundsAssumption DEF WorkerFails, Exhausted, TypeOK
<1>6. ASSUME NEW j \in Jobs, WorkerStalls(j) PROVE QueueOK'
  BY <1>6 DEF WorkerStalls, TypeOK
<1>7. ASSUME UNCHANGED queueVars PROVE QueueOK'
  BY <1>7
<1>8. ASSUME NEW c \in Calls,
             IngestCheck(c) \/ IngestCreate(c) \/ IngestMark(c)
      PROVE  QueueOK'
  BY <1>7, <1>8 DEF IngestCheck, IngestCreate, IngestMark
<1>9. ASSUME NEW j \in Jobs,
             \/ CancelRead(j) \/ CancelMark(j) \/ DeleteRead(j) \/ DeleteWrite(j)
             \/ WorkerProgress(j) \/ OnActive(j) \/ OnFailed(j) \/ ProgressWrite(j)
             \/ WorkerPosts(j, "succeeded") \/ WorkerPosts(j, "failed")
      PROVE  QueueOK'
  BY <1>7, <1>9 DEF CancelRead, CancelMark, DeleteRead, DeleteWrite, WorkerProgress,
                    OnActive, OnFailed, ProgressWrite, WorkerPosts
<1>10. ASSUME NEW r \in Results, Notify(r) \/ CallbackStep(r) PROVE QueueOK'
  BY <1>7, <1>10 DEF Notify, sendUserConfirmationEmail, CallbackStep, CallbackRead,
                     CallbackComplete, CallbackBill, CallbackPublish, CallbackFail
<1>11. CASE CallFails \/ Crash \/ UNCHANGED vars
  BY <1>7, <1>11 DEF CallFails, Crash, vars
<1> QED BY <1>1, <1>2, <1>3, <1>4, <1>5, <1>6, <1>8, <1>9, <1>10, <1>11
        DEF Next, IngestStep, CancelStep, WorkerOutcome

LEMMA TypeStep ==
  ASSUME TypeInv, [Next]_vars
  PROVE  TypeInv'
<1>1. TypeOK'
  <2>1. CASE Next
    BY <2>1, TypeIngest, TypeCancelDelete, TypeWorker, TypeListener, TypeCallback, TypeFault
    DEF Next, TypeInv
  <2>2. CASE UNCHANGED vars
    BY <2>2 DEF vars, rowVars, queueVars, eventVars, callVars, moneyVars, TypeInv, TypeOK
  <2> QED BY <2>1, <2>2
<1> QED BY <1>1, QueueStep DEF TypeInv

LEMMA TypeInvariant == Spec => []TypeInv
BY TypeInit, TypeStep, PTL DEF Spec

\* Every variable keeps its type in every run: the attempts of an entry stay within
\* QUEUE_MAX_RETRIES, progress within 0..100, and no counter goes below zero.
THEOREM TypeCorrect == Spec => []TypeOK
<1>1. TypeInv => TypeOK
  BY DEF TypeInv
<1> QED BY <1>1, TypeInvariant, PTL

-----------------------------------------------------------------------------
(* Every status has a cause.  The row is written long after the event that  *)
(* justifies the write, so the invariant also covers the writes on the way: *)
(* a call at its last step, an event not yet applied, a result not yet read.*)

WriteHasCause ==
  /\ \A c \in Calls : ingest[c] = "mark" => "enqueued" \in seen[c[1]]
  /\ \A j \in Jobs :
       /\ cancel[j] # "idle" => "cancelled" \in seen[j]
       /\ activeEvents[j] > 0 => "activated" \in seen[j]
       /\ failedEvents[j] > 0 => "failed" \in seen[j]
  /\ \A r \in Results :
       /\ callback[r] \in {"succeeded", "complete"} => "succeeded" \in seen[r[1]]
       /\ callback[r] \in {"failed", "fail"} => "failed" \in seen[r[1]]

CauseInv == StatusHasCause /\ FullProgressIsEarned /\ WriteHasCause

LEMMA CauseOfStatus ==
  /\ CauseOf("QUEUED") = "enqueued"
  /\ CauseOf("PROCESSING") = "activated"
  /\ CauseOf("COMPLETED") = "succeeded"
  /\ CauseOf("FAILED") = "failed"
  /\ CauseOf("CANCELLED") = "cancelled"
BY DEF CauseOf

LEMMA CauseInit == Init => CauseInv
BY DEF Init, CauseInv, StatusHasCause, FullProgressIsEarned, WriteHasCause, JobStatus,
       Calls, Results

LEMMA CauseIngest ==
  ASSUME TypeOK, CauseInv, NEW c \in Calls, IngestCheck(c) \/ IngestStep(c)
  PROVE  CauseInv'
<1> USE CauseOfStatus DEF CauseInv, StatusHasCause, FullProgressIsEarned, WriteHasCause,
        JobStatus, rowVars, queueVars, eventVars, moneyVars, Happened
<1>j. c[1] \in Jobs
  BY DEF Calls
<1>1. CASE IngestCheck(c)
  BY <1>1, <1>j DEF IngestCheck, TypeOK
<1>2. CASE IngestCreate(c)
  BY <1>2, <1>j, SMTT(30) DEF IngestCreate, CreateRow, TypeOK
<1>3. CASE IngestEnqueue(c)
  <2>1. \A k \in Jobs : seen[k] \subseteq seen'[k]
    BY <1>3 DEF IngestEnqueue, TypeOK
  <2>2. StatusHasCause' /\ FullProgressIsEarned'
    BY <1>3, <2>1 DEF IngestEnqueue
  <2>3. \A d \in Calls : ingest'[d] = "mark" => "enqueued" \in seen'[d[1]]
    BY <1>3, <1>j, <2>1 DEF IngestEnqueue, TypeOK, Calls
  <2>4. WriteHasCause'
    BY <1>3, <2>1, <2>3 DEF IngestEnqueue, Results
  <2> QED BY <2>2, <2>4
<1>4. CASE IngestMark(c)
  BY <1>4, <1>j, SMTT(30) DEF IngestMark, MarkAsQueued, TypeOK
<1> QED BY <1>1, <1>2, <1>3, <1>4 DEF IngestStep

LEMMA CauseCancelDelete ==
  ASSUME TypeOK, CauseInv, NEW j \in Jobs,
         CancelRead(j) \/ CancelStep(j) \/ DeleteRead(j) \/ DeleteWrite(j)
  PROVE  CauseInv'
<1> USE CauseOfStatus DEF CauseInv, StatusHasCause, FullProgressIsEarned, WriteHasCause,
        JobStatus, rowVars, queueVars, eventVars, moneyVars, Happened
<1>1. CASE CancelRead(j)
  BY <1>1, SMTT(30) DEF CancelRead, TypeOK, Calls, Results
<1>2. CASE CancelRemove(j)
  BY <1>2 DEF CancelRemove, TypeOK
<1>3. CASE CancelMark(j)
  BY <1>3 DEF CancelMark, MarkAsCancelled, TypeOK
<1>4. CASE DeleteRead(j)
  BY <1>4 DEF DeleteRead, TypeOK
<1>5. CASE DeleteWrite(j)
  BY <1>5, SMTT(30) DEF DeleteWrite, DeleteRow, TypeOK
<1> QED BY <1>1, <1>2, <1>3, <1>4, <1>5 DEF CancelStep

LEMMA CauseWorker ==
  ASSUME TypeInv, CauseInv, NEW j \in Jobs,
         WorkerStarts(j) \/ WorkerProgress(j) \/ WorkerOutcome(j) \/ WorkerStalls(j)
  PROVE  CauseInv'
<1> USE CauseOfStatus DEF TypeInv, CauseInv, StatusHasCause, FullProgressIsEarned,
        WriteHasCause, rowVars, queueVars, eventVars, callVars, moneyVars, Happened
<1>1. CASE WorkerStarts(j)
  <2>1. \A k \in Jobs : seen[k] \subseteq seen'[k]
    BY <1>1 DEF WorkerStarts, TypeOK
  <2>2. StatusHasCause' /\ FullProgressIsEarned'
    BY <1>1, <2>1 DEF WorkerStarts
  <2>3. \A k \in Jobs : activeEvents'[k] > 0 => "activated" \in seen'[k]
    BY <1>1, <2>1 DEF WorkerStarts, TypeOK
  <2>4. WriteHasCause'
    BY <1>1, <2>1, <2>3 DEF WorkerStarts, Calls, Results
  <2> QED BY <2>2, <2>4
<1>2. CASE WorkerProgress(j)
  BY <1>2 DEF WorkerProgress, TypeOK
<1>3. ASSUME NEW outcome \in {"succeeded", "failed"}, WorkerPosts(j, outcome)
      PROVE  CauseInv'
  <2>1. \A k \in Jobs : seen[k] \subseteq seen'[k]
    BY <1>3 DEF WorkerPosts, TypeOK
  <2>2. StatusHasCause' /\ FullProgressIsEarned'
    BY <1>3, <2>1 DEF WorkerPosts
  <2>3. outcome \in seen'[j]
    BY <1>3 DEF WorkerPosts, TypeOK
  <2>4. \A r \in Results : callback'[r] = IF r = <<j, runs[j]>> THEN outcome ELSE callback[r]
    BY <1>3 DEF WorkerPosts, TypeOK
  <2>5. WriteHasCause'
    BY <1>3, <2>1, <2>3, <2>4 DEF WorkerPosts, Calls, Results
  <2> QED BY <2>2, <2>5
<1>4. CASE WorkerCompletes(j)
  BY <1>4 DEF WorkerCompletes
<1>5. CASE WorkerFails(j)
  <2>1. \A k \in Jobs : seen[k] \subseteq seen'[k]
    BY <1>5 DEF WorkerFails, TypeOK
  <2>2. StatusHasCause' /\ FullProgressIsEarned'
    BY <1>5, <2>1 DEF WorkerFails
  <2>3. \A k \in Jobs : failedEvents'[k] > 0 => "failed" \in seen'[k]
    BY <1>5, <2>1 DEF WorkerFails, TypeOK
  <2>4. WriteHasCause'
    BY <1>5, <2>1, <2>3 DEF WorkerFails, Calls, Results
  <2> QED BY <2>2, <2>4
<1>6. CASE WorkerStalls(j)
  BY <1>6 DEF WorkerStalls
<1> QED BY <1>1, <1>2, <1>3, <1>4, <1>5, <1>6 DEF WorkerOutcome

LEMMA CauseListener ==
  ASSUME TypeOK, CauseInv, NEW j \in Jobs,
         OnActive(j) \/ OnFailed(j) \/ ProgressWrite(j)
  PROVE  CauseInv'
<1> USE CauseOfStatus DEF CauseInv, StatusHasCause, FullProgressIsEarned, WriteHasCause,
        JobStatus, rowVars, queueVars, eventVars, callVars, moneyVars
<1>1. CASE OnActive(j)
  BY <1>1, SMTT(30) DEF OnActive, MarkAsProcessing, TypeOK
<1>2. CASE OnFailed(j)
  BY <1>2 DEF OnFailed, MarkAsFailed, TypeOK
<1>3. CASE ProgressWrite(j)
  <2>1. report[j] \in 0..100
    BY <1>3, BoundsAssumption DEF ProgressWrite, TypeOK
  <2>2. Clamped(report[j]) # 100
    BY <2>1 DEF Clamped
  <2> QED BY <1>3, <2>2 DEF ProgressWrite, UpdateProgress, TypeOK
<1> QED BY <1>1, <1>2, <1>3

LEMMA CauseCallback ==
  ASSUME TypeOK, CauseInv, NEW r \in Results, Notify(r) \/ CallbackStep(r)
  PROVE  CauseInv'
<1> USE CauseOfStatus DEF CauseInv, StatusHasCause, FullProgressIsEarned, WriteHasCause,
        JobStatus, rowVars, queueVars, eventVars, moneyVars, Goto
<1>j. r[1] \in Jobs
  BY DEF Results
<1>1. CASE Notify(r)
  BY <1>1 DEF Notify, sendUserConfirmationEmail
<1>2. CASE CallbackRead(r)
  BY <1>2 DEF CallbackRead, Verdict, TypeOK
<1>3. CASE CallbackComplete(r)
  BY <1>3, <1>j DEF CallbackComplete, MarkAsCompleted, AfterCompletion, TypeOK
<1>4. CASE CallbackBill(r)
  BY <1>4 DEF CallbackBill, AfterBilling, TypeOK
<1>5. CASE CallbackPublish(r)
  BY <1>5 DEF CallbackPublish, TypeOK
<1>6. CASE CallbackFail(r)
  BY <1>6, <1>j DEF CallbackFail, MarkAsFailed, TypeOK
<1> QED BY <1>1, <1>2, <1>3, <1>4, <1>5, <1>6 DEF CallbackStep

LEMMA CauseFault ==
  ASSUME TypeOK, CauseInv, CallFails \/ Crash
  PROVE  CauseInv'
<1> USE DEF CauseInv, StatusHasCause, FullProgressIsEarned, WriteHasCause,
        rowVars, queueVars, eventVars, callVars, moneyVars, Goto
<1>1. CASE CallFails
  <2>1. StatusHasCause' /\ FullProgressIsEarned'
    BY <1>1 DEF CallFails
  <2>2. /\ \A c \in Calls : ingest'[c] = "mark" => ingest[c] = "mark"
        /\ \A j \in Jobs : cancel'[j] # "idle" => cancel[j] # "idle"
    BY <1>1 DEF CallFails, TypeOK
  <2>3. \A r \in Results : callback'[r] # "done" => callback'[r] = callback[r]
    BY <1>1 DEF CallFails, TypeOK
  <2>4. \A j \in Jobs : /\ activeEvents'[j] > 0 => activeEvents[j] > 0
                        /\ failedEvents'[j] > 0 => failedEvents[j] > 0
    BY <1>1 DEF CallFails, TypeOK
  <2>5. seen' = seen
    BY <1>1 DEF CallFails
  <2>6. \A r \in Results :
          /\ callback'[r] \in {"succeeded", "complete"} => callback[r] \in {"succeeded", "complete"}
          /\ callback'[r] \in {"failed", "fail"} => callback[r] \in {"failed", "fail"}
    BY ONLY <2>3
  <2>7. WriteHasCause'
    BY ONLY CauseInv, <2>2, <2>4, <2>5, <2>6 DEF CauseInv, WriteHasCause
  <2> QED BY <2>1, <2>7
<1>2. CASE Crash
  BY <1>2 DEF Crash, TypeOK
<1> QED BY <1>1, <1>2

LEMMA CauseStep ==
  ASSUME TypeInv, CauseInv, [Next]_vars
  PROVE  CauseInv'
<1>1. CASE Next
  BY <1>1, CauseIngest, CauseCancelDelete, CauseWorker, CauseListener, CauseCallback,
     CauseFault
  DEF Next, TypeInv
<1>2. CASE UNCHANGED vars
  BY <1>2 DEF vars, rowVars, eventVars, callVars, CauseInv, StatusHasCause,
     FullProgressIsEarned, WriteHasCause
<1> QED BY <1>1, <1>2

LEMMA CauseInvariant == Spec => []CauseInv
BY TypeInvariant, CauseInit, CauseStep, PTL DEF Spec

\* Whatever order the writes of the upload, the queue listeners, cancel and the callback
\* land in, and whatever crashes: a row shows only a status something accounts for.
THEOREM StatusAlwaysHasCause == Spec => []StatusHasCause
<1>1. CauseInv => StatusHasCause
  BY DEF CauseInv
<1> QED BY <1>1, CauseInvariant, PTL

\* Progress 100 is never shown for a job whose worker has not reported success.
THEOREM FullProgressAlwaysEarned == Spec => []FullProgressIsEarned
<1>1. CauseInv => FullProgressIsEarned
  BY DEF CauseInv
<1> QED BY <1>1, CauseInvariant, PTL

-----------------------------------------------------------------------------
(* The pipeline implements JobLedger.  A result moves through the callback  *)
(* once, so what is recorded and billed of it can be read off where it      *)
(* stands; a result whose call failed stays as it was.                      *)

ResultOK(r) ==
  /\ r \in billed => r \in completed
  /\ callback[r] \in {"idle", "succeeded", "failed", "complete", "fail"} => r \notin completed
  /\ callback[r] \in {"bill", "publish"} => r \in completed
  /\ callback[r] = "bill" => r \notin billed /\ Minutes[r[1]] > 0
  /\ callback[r] = "publish" => (Minutes[r[1]] > 0 => r \in billed)

TranscriptsOK ==
  \A j \in transcripts : \E r \in completed :
    r[1] = j /\ (Minutes[j] > 0 => r \in billed)

LedgerInv == (\A r \in Results : ResultOK(r)) /\ TranscriptsOK

LEMMA LedgerInit == Init => LedgerInv /\ Ledger!Init
BY DEF Init, LedgerInv, ResultOK, TranscriptsOK, Ledger!Init, Results

\* The steps that leave the ledger's variables and every result's place alone.
LEMMA LedgerIdle ==
  ASSUME LedgerInv, UNCHANGED <<moneyVars, callback>>
  PROVE  LedgerInv' /\ UNCHANGED Ledger!ledger
BY DEF LedgerInv, ResultOK, TranscriptsOK, moneyVars, Ledger!ledger

LEMMA LedgerPosts ==
  ASSUME TypeInv, LedgerInv, NEW j \in Jobs, NEW outcome \in {"succeeded", "failed"},
         WorkerPosts(j, outcome)
  PROVE  LedgerInv' /\ UNCHANGED Ledger!ledger
<1> DEFINE p == <<j, runs[j]>>
<1>1. callback[p] = "idle" /\ UNCHANGED moneyVars
  BY DEF WorkerPosts
<1>2. \A r \in Results : callback'[r] = IF r = p THEN outcome ELSE callback[r]
  BY DEF WorkerPosts, TypeInv, TypeOK
<1>3. \A r \in Results : ResultOK(r)'
  BY <1>1, <1>2 DEF LedgerInv, ResultOK, moneyVars
<1>4. TranscriptsOK' /\ UNCHANGED Ledger!ledger
  BY <1>1 DEF LedgerInv, TranscriptsOK, moneyVars, Ledger!ledger
<1> QED BY <1>3, <1>4 DEF LedgerInv

LEMMA LedgerCallback ==
  ASSUME TypeInv, LedgerInv, NEW r \in Results, CallbackStep(r)
  PROVE  LedgerInv' /\ [Ledger!Next]_(Ledger!ledger)
<1> USE DEF TypeInv, LedgerInv, ResultOK, TranscriptsOK, moneyVars, Goto, Ledger!ledger
<1>j. r[1] \in Jobs /\ Minutes[r[1]] \in Nat
  BY JobsAssumption DEF Results
<1>1. CASE CallbackRead(r)
  BY <1>1 DEF CallbackRead, Verdict, TypeOK
<1>2. CASE CallbackComplete(r)
  <2>1. CASE Exists(r[1])
    <3>1. r \notin completed /\ completed' = completed \cup {r}
      BY <1>2, <2>1 DEF CallbackComplete
    <3>2. Ledger!Complete(r)
      BY <1>2, <3>1 DEF CallbackComplete, Ledger!Complete
    <3>3. callback' = [callback EXCEPT ![r] = AfterCompletion(r[1])]
      BY <1>2, <2>1 DEF CallbackComplete
    <3>4. r \notin billed
      BY <3>1
    <3>5. \A q \in Results : ResultOK(q)'
      BY <1>2, <1>j, <3>1, <3>3, <3>4 DEF CallbackComplete, AfterCompletion, TypeOK
    <3>6. TranscriptsOK'
      BY <1>2, <3>1 DEF CallbackComplete
    <3> QED BY <3>2, <3>5, <3>6 DEF Ledger!Next
  <2>2. CASE ~Exists(r[1])
    BY <1>2, <2>2 DEF CallbackComplete, TypeOK
  <2> QED BY <2>1, <2>2
<1>3. CASE CallbackBill(r)
  <2>1. r \in completed \ billed /\ Minutes[r[1]] > 0
    BY <1>3 DEF CallbackBill
  <2>2. Ledger!Bill(r)
    BY <1>3, <2>1 DEF CallbackBill, IncrementUserMinutes, Ledger!Bill
  <2>3. \A q \in Results : ResultOK(q)'
    BY <1>3, <2>1 DEF CallbackBill, AfterBilling, TypeOK
  <2>4. TranscriptsOK'
    BY <1>3 DEF CallbackBill
  <2> QED BY <2>2, <2>3, <2>4 DEF Ledger!Next
<1>4. CASE CallbackPublish(r)
  <2>1. r \in completed /\ (Minutes[r[1]] > 0 => r \in billed)
    BY <1>4 DEF CallbackPublish
  <2>2. \A q \in Results : ResultOK(q)'
    BY <1>4 DEF CallbackPublish, TypeOK
  <2>3. CASE Publishable(r[1])
    <3>1. transcripts' = transcripts \cup {r[1]} /\ r[1] \notin transcripts
      BY <1>4, <2>3 DEF CallbackPublish, Publishable
    <3>2. Ledger!Publish(r)
      BY <1>4, <2>1, <3>1 DEF CallbackPublish, Ledger!Publish, Ledger!Settled
    <3>3. TranscriptsOK'
      BY <1>4, <2>1, <3>1 DEF CallbackPublish
    <3> QED BY <2>2, <3>2, <3>3 DEF Ledger!Next
  <2>4. CASE ~Publishable(r[1])
    BY <1>4, <2>2, <2>4 DEF CallbackPublish
  <2> QED BY <2>3, <2>4
<1>5. CASE CallbackFail(r)
  BY <1>5 DEF CallbackFail, TypeOK
<1> QED BY <1>1, <1>2, <1>3, <1>4, <1>5 DEF CallbackStep

LEMMA LedgerFault ==
  ASSUME TypeInv, LedgerInv, CallFails \/ Crash
  PROVE  LedgerInv' /\ UNCHANGED Ledger!ledger
<1> USE DEF TypeInv, LedgerInv, moneyVars
<1>1. UNCHANGED <<used, transcripts, completed, billed>>
  BY DEF CallFails, Crash
<1>2. \A r \in Results : callback'[r] \in {callback[r], "done"}
  BY DEF CallFails, Crash, Goto, callVars, TypeOK
<1>3. \A r \in Results : ResultOK(r)'
  BY <1>1, <1>2 DEF ResultOK
<1> QED BY <1>1, <1>3 DEF TranscriptsOK, Ledger!ledger

LEMMA LedgerStep ==
  ASSUME TypeInv, LedgerInv, [Next]_vars
  PROVE  LedgerInv' /\ [Ledger!Next]_(Ledger!ledger)
<1> USE LedgerIdle DEF moneyVars, callVars
<1>1. ASSUME NEW c \in Calls, IngestCheck(c) \/ IngestStep(c)
      PROVE  UNCHANGED <<moneyVars, callback>>
  BY <1>1 DEF IngestCheck, IngestStep, IngestCreate, IngestEnqueue, IngestMark
<1>2. ASSUME NEW j \in Jobs,
             CancelRead(j) \/ CancelStep(j) \/ DeleteRead(j) \/ DeleteWrite(j)
      PROVE  UNCHANGED <<moneyVars, callback>>
  BY <1>2 DEF CancelRead, CancelStep, CancelRemove, CancelMark, DeleteRead, DeleteWrite
<1>3. ASSUME NEW j \in Jobs,
             \/ WorkerStarts(j) \/ WorkerProgress(j) \/ WorkerCompletes(j)
             \/ WorkerFails(j) \/ WorkerStalls(j)
      PROVE  UNCHANGED <<moneyVars, callback>>
  BY <1>3 DEF WorkerStarts, WorkerProgress, WorkerCompletes, WorkerFails, WorkerStalls
<1>4. ASSUME NEW j \in Jobs, OnActive(j) \/ OnFailed(j) \/ ProgressWrite(j)
      PROVE  UNCHANGED <<moneyVars, callback>>
  BY <1>4 DEF OnActive, OnFailed, ProgressWrite
<1>5. ASSUME NEW r \in Results, Notify(r)
      PROVE  UNCHANGED <<moneyVars, callback>>
  BY <1>5 DEF Notify, sendUserConfirmationEmail
<1>6. CASE UNCHANGED vars
  BY <1>6 DEF vars
<1> QED BY <1>1, <1>2, <1>3, <1>4, <1>5, <1>6, LedgerPosts, LedgerCallback, LedgerFault
        DEF Next, WorkerOutcome

LEMMA LedgerInvariant == Spec => []LedgerInv
BY TypeInvariant, LedgerInit, LedgerStep, PTL DEF Spec

\* Through retries, repeated callbacks and crashes a result is recorded before it is
\* billed, billed at most once, and published only after that.
THEOREM ImplementsLedger == Spec => LedgerSpec
<1>1. Init => Ledger!Init
  BY LedgerInit
<1>2. TypeInv /\ LedgerInv /\ [Next]_vars => [Ledger!Next]_(Ledger!ledger)
  BY LedgerStep
<1> QED BY <1>1, <1>2, TypeInvariant, LedgerInvariant, PTL
        DEF Spec, LedgerSpec, Ledger!Spec

\* No transcript exists for a job that was not recorded as completed and billed.
THEOREM TranscribedAlwaysBilled == Spec => []TranscribedWasBilled
<1>1. LedgerInv => TranscribedWasBilled
  BY DEF LedgerInv, TranscriptsOK, TranscribedWasBilled
<1> QED BY <1>1, LedgerInvariant, PTL

-----------------------------------------------------------------------------
(* The usage.  A result that is about to be billed has not been billed yet  *)
(* (LedgerInv), so it adds its minutes to the sum; and what has been billed *)
(* at any time is finite, so that there is a sum to add them to.            *)

BilledTo(u) == {r \in billed : Owner[r[1]] = u}

UsageInv == IsFiniteSet(billed) /\ UsageIsLedger

LEMMA UsageInit == Init => UsageInv
<1> SUFFICES ASSUME Init PROVE UsageInv
  OBVIOUS
<1>1. billed = {} /\ \A u \in Users : used[u] = 0 /\ {r \in billed : Owner[r[1]] = u} = {}
  BY DEF Init
<1> QED BY <1>1, FS_EmptySet, SumEmpty DEF UsageInv, UsageIsLedger

LEMMA UsageBill ==
  ASSUME TypeInv, LedgerInv, UsageInv, NEW r \in Results, CallbackBill(r)
  PROVE  UsageInv'
<1> DEFINE o == Owner[r[1]]
           m == Minutes[r[1]]
<1>1. /\ r[1] \in Jobs /\ o \in Users /\ m \in Nat
      /\ \A q \in Results : ResultMinutes[q] = Minutes[q[1]] /\ ResultMinutes[q] \in Nat
  BY JobsAssumption DEF Results, ResultMinutes
<1>2. r \notin billed /\ billed' = billed \cup {r} /\ billed \subseteq Results
  BY DEF CallbackBill, LedgerInv, ResultOK, TypeInv, TypeOK
<1>3. used' = [used EXCEPT ![o] = @ + m] /\ used \in [Users -> Nat]
  BY DEF CallbackBill, IncrementUserMinutes, TypeInv, TypeOK
<1>4. IsFiniteSet(billed')
  BY <1>2, FS_AddElement DEF UsageInv
<1>5. ASSUME NEW u \in Users
      PROVE  used'[u] = SumFunctionOnSet(ResultMinutes, BilledTo(u)')
  <2>1. used[u] = SumFunctionOnSet(ResultMinutes, BilledTo(u))
    BY DEF UsageInv, UsageIsLedger, BilledTo
  <2>2. BilledTo(u) \in SUBSET billed /\ IsFiniteSet(BilledTo(u)) /\ r \notin BilledTo(u)
    BY <1>2, FS_Subset DEF UsageInv, BilledTo
  <2>3. CASE u = o
    <3>1. BilledTo(u)' = BilledTo(u) \cup {r}
      BY <1>2, <2>3 DEF BilledTo
    <3>2. \A q \in BilledTo(u) \cup {r} : ResultMinutes[q] \in Nat
      BY <1>1, <1>2, <2>2
    <3>3. SumFunctionOnSet(ResultMinutes, BilledTo(u) \cup {r})
            = SumFunctionOnSet(ResultMinutes, BilledTo(u)) + ResultMinutes[r]
      BY <2>2, <3>2, SumAdd
    <3>4. used'[u] = used[u] + m
      BY <1>3, <2>3
    <3> QED BY <1>1, <2>1, <3>1, <3>3, <3>4
  <2>4. CASE u # o
    <3>1. BilledTo(u)' = BilledTo(u)
      BY <1>2, <2>4 DEF BilledTo
    <3>2. used'[u] = used[u]
      BY <1>3, <2>4
    <3> QED BY <2>1, <3>1, <3>2
  <2> QED BY <2>3, <2>4
<1> QED BY <1>4, <1>5 DEF UsageInv, UsageIsLedger, BilledTo

LEMMA UsageStep == TypeInv /\ LedgerInv /\ UsageInv /\ [Next]_vars => UsageInv'
<1> SUFFICES ASSUME TypeInv, LedgerInv, UsageInv, [Next]_vars PROVE UsageInv'
  OBVIOUS
<1> USE DEF moneyVars
<1>1. ASSUME UNCHANGED <<used, billed>> PROVE UsageInv'
  BY <1>1 DEF UsageInv, UsageIsLedger
<1>2. ASSUME NEW c \in Calls, IngestCheck(c) \/ IngestStep(c) PROVE UNCHANGED <<used, billed>>
  BY <1>2 DEF IngestCheck, IngestStep, IngestCreate, IngestEnqueue, IngestMark
<1>3. ASSUME NEW j \in Jobs,
             CancelRead(j) \/ CancelStep(j) \/ DeleteRead(j) \/ DeleteWrite(j)
      PROVE  UNCHANGED <<used, billed>>
  BY <1>3 DEF CancelRead, CancelStep, CancelRemove, CancelMark, DeleteRead, DeleteWrite
<1>4. ASSUME NEW j \in Jobs,
             WorkerStarts(j) \/ WorkerProgress(j) \/ WorkerOutcome(j) \/ WorkerStalls(j)
      PROVE  UNCHANGED <<used, billed>>
  BY <1>4 DEF WorkerStarts, WorkerProgress, WorkerOutcome, WorkerPosts, WorkerCompletes,
     WorkerFails, WorkerStalls
<1>5. ASSUME NEW j \in Jobs, OnActive(j) \/ OnFailed(j) \/ ProgressWrite(j)
      PROVE  UNCHANGED <<used, billed>>
  BY <1>5 DEF OnActive, OnFailed, ProgressWrite
<1>6. ASSUME NEW r \in Results,
             \/ Notify(r) \/ CallbackRead(r) \/ CallbackComplete(r)
             \/ CallbackPublish(r) \/ CallbackFail(r)
      PROVE  UNCHANGED <<used, billed>>
  BY <1>6 DEF Notify, sendUserConfirmationEmail, CallbackRead, CallbackComplete, CallbackPublish,
              CallbackFail
<1>7. CASE CallFails \/ Crash \/ UNCHANGED vars
  BY <1>1, <1>7 DEF CallFails, Crash, vars
<1> QED BY <1>1, <1>2, <1>3, <1>4, <1>5, <1>6, <1>7, UsageBill DEF Next, CallbackStep

\* With any number of callbacks in flight, with crashes and repeated results, the minutes a
\* user has used are those of the results billed to that user, each counted once.
THEOREM UsageAlwaysLedger == Spec => []UsageIsLedger
<1>1. UsageInv => UsageIsLedger
  BY DEF UsageInv
<1> QED BY <1>1, UsageInit, UsageStep, TypeInvariant, LedgerInvariant, PTL DEF Spec

-----------------------------------------------------------------------------
(* Deleted jobs.                                                            *)

\* Of all the writes that may still be on their way when a job is deleted, only the
\* insert of an upload makes a row appear.
THEOREM DeletedStaysDeleted == Spec => NoResurrection
<1> DEFINE Appears(j) ==
      ~Exists(j) /\ Exists(j)' =>
        /\ status'[j] = "PENDING" /\ ~bullId'[j] /\ progress'[j] = 0
        /\ \E n \in Posts : ingest[<<j, n>>] = "create" /\ ingest'[<<j, n>>] = "enqueue"
<1>1. ASSUME TypeInv, [Next]_vars, NEW j \in Jobs PROVE Appears(j)
  <2> USE <1>1 DEF TypeInv, rowVars, Exists
  <2>1. ASSUME NEW c \in Calls, IngestCreate(c) PROVE Appears(j)
    <3>1. c = <<c[1], c[2]>> /\ c[1] \in Jobs /\ c[2] \in Posts
      BY DEF Calls
    <3>2. CASE c[1] = j
      BY <2>1, <3>1, <3>2 DEF IngestCreate, CreateRow, TypeOK
    <3>3. CASE c[1] # j
      BY <2>1, <3>1, <3>3 DEF IngestCreate, CreateRow, TypeOK
    <3> QED BY <3>2, <3>3
  <2>2. ASSUME NEW c \in Calls, IngestMark(c) PROVE Appears(j)
    BY <2>2 DEF IngestMark, MarkAsQueued, TypeOK
  <2>3. ASSUME NEW k \in Jobs, CancelMark(k) \/ DeleteWrite(k) PROVE Appears(j)
    BY <2>3 DEF CancelMark, MarkAsCancelled, DeleteWrite, DeleteRow, TypeOK
  <2>4. ASSUME NEW k \in Jobs, OnActive(k) \/ OnFailed(k) PROVE Appears(j)
    BY <2>4 DEF OnActive, MarkAsProcessing, OnFailed, MarkAsFailed, TypeOK
  <2>5. ASSUME NEW r \in Results, CallbackComplete(r) \/ CallbackFail(r) PROVE Appears(j)
    BY <2>5 DEF CallbackComplete, MarkAsCompleted, CallbackFail, MarkAsFailed, TypeOK
  <2>6. ASSUME UNCHANGED status PROVE Appears(j)
    BY <2>6
  <2>7. ASSUME NEW c \in Calls, IngestCheck(c) \/ IngestEnqueue(c) PROVE UNCHANGED status
    BY <2>7 DEF IngestCheck, IngestEnqueue
  <2>8. ASSUME NEW k \in Jobs,
               \/ CancelRead(k) \/ CancelRemove(k) \/ DeleteRead(k) \/ WorkerStarts(k)
               \/ WorkerProgress(k) \/ WorkerOutcome(k) \/ WorkerStalls(k)
        PROVE  UNCHANGED status
    BY <2>8 DEF CancelRead, CancelRemove, DeleteRead, WorkerStarts, WorkerProgress,
       WorkerOutcome, WorkerPosts, WorkerCompletes, WorkerFails, WorkerStalls
  <2>9. ASSUME NEW k \in Jobs, ProgressWrite(k) PROVE UNCHANGED status
    BY <2>9 DEF ProgressWrite, UpdateProgress
  <2>10. ASSUME NEW r \in Results,
                Notify(r) \/ CallbackRead(r) \/ CallbackBill(r) \/ CallbackPublish(r)
         PROVE  UNCHANGED status
    BY <2>10 DEF Notify, sendUserConfirmationEmail, CallbackRead, CallbackBill, CallbackPublish
  <2>11. CASE CallFails \/ Crash \/ UNCHANGED vars
    BY <2>6, <2>11 DEF CallFails, Crash, vars
  <2> QED BY <2>1, <2>2, <2>3, <2>4, <2>5, <2>6, <2>7, <2>8, <2>9, <2>10, <2>11
          DEF Next, IngestStep, CancelStep, CallbackStep
<1>2. TypeInv /\ [Next]_vars =>
        [\A j \in Jobs :
           ~Exists(j) /\ Exists(j)' =>
             /\ status'[j] = "PENDING" /\ ~bullId'[j] /\ progress'[j] = 0
             /\ \E n \in Posts : ingest[<<j, n>>] = "create"
                                 /\ ingest'[<<j, n>>] = "enqueue"]_vars
  BY <1>1
<1> QED BY <1>2, TypeInvariant, PTL DEF Spec, NoResurrection
=============================================================================
