# A formal model of audio-api

TLA+ modules, TLC configurations and TLAPS proofs for the transcription API in this
repository: an Express/TypeScript service that stores jobs and users in Postgres (through
Prisma), hands jobs to a Python Whisper worker through a BullMQ queue in Redis, receives the
worker's results on internal routes, sells plans through Stripe, and translates and formats
transcripts.

## The system

| Component | State it keeps | Operations | Talks to |
|---|---|---|---|
| upload (`modules/upload`) | the `Job` row it inserts | `signUrl`, `ingest` | quota gate, jobs repository, queue producer |
| jobs (`modules/jobs`) | `Job.status`, `progress`, `bullJobId`; `User.usedMinutes` | `cancel`, `delete`, `applyCallbackResult`, `updateProgress`, the repository's `markAs...` | queue, storage, translation, transcriptions |
| queue producer (`queue/producers`) | the BullMQ entry, one per job id | `enqueue`, `cancelJob`, priority, metrics | Redis |
| queue listeners (`queue/consumers`) | none | on `active`: `markAsProcessing`; on `failed`: `markAsFailed` | Redis stream, jobs repository |
| internal routes (`modules/internal`) | none | `progress`, `callback` | called by the worker; jobs service, mail, sockets |
| payments (`modules/payments`, `infrastructure/stripe`) | `Subscription`, `Payment`, `User.planTier`, `monthlyQuota`, `usedMinutes` | checkout, portal, the webhook's five events | Stripe |
| quota gate (`checkTranscriptionQuota`) | none | admits `sign-url` by plan, period, payment and reserved minutes | jobs, users, subscriptions |
| auth, users (`modules/auth`, `modules/users`) | `User`, `RefreshToken`, `VerificationToken` | sign-up, verify, resend, login, refresh, logout, logout-all, password change, account deletion | mail |
| transcriptions (`modules/transcription`) | `Transcription`, its segments, words and quotes | insert by callback or client, edit, delete, translate, search | jobs, translate |
| translate, subtitles (`shared/utils`, `modules/subtitles`) | none | `translateAll`: groups, batches, fallback; SRT, VTT, ASS and TXT files | Google Translate |
| billing, admin, support | support tickets | overviews and listings, ticket status | - |
| process (`server.ts`, `app.ts`) | the connections | bootstrap, shutdown, exit on an unhandled rejection | - |

What is hard in it:

* **Interleaving at awaits.** The API is one Node process; a handler runs alone until its next
  `await`, and every database statement is one. `cancel`, `delete`, `ingest`, the listeners and
  the callback all read a row, wait, and then write it *unconditionally*, keyed by id alone.
* **Order.** The worker's callback, the queue's `active` and `failed` events and the progress
  reports reach the row by three ways that are not ordered with each other. Stripe's events
  carry snapshots that may arrive in any order.
* **Partial failure and crashes.** Both the callback and the webhook acknowledge first and work
  later, in several writes without a transaction; what a crash interrupts is not resumed.
* **Retries.** BullMQ runs a job again after a failed or stalled attempt, so a job may have
  several results.

* **Positions and roundings.** A transcript is cut by language and into requests of limited
  size, and put together again; times of a subtitle are rounded once per file format.

What makes the accounts correct: what was logged out or deleted stays so, whatever calls are
under way; a session has one token; the newest activation link works until it expires. What
makes the quota correct: it is exceeded only by minutes the last grant could not know of. What
makes the queue correct: a paid upload waits for another only as far as its user's other uploads
make up the difference of the priorities. What makes
transcripts correct: every line is there once, at its time, in one language.

What makes the payments correct: a user has no plan that was not sold to that user, and keeps
it until a subscription ends; a row says of its subscription only what was true; a payment is
recorded once, and only if it was collected; events handled in order leave the user with what
Stripe sold.

What makes the jobs correct: a row shows only what some event of the job accounts for; minutes
are billed for recorded results, each once; a transcript exists only for a recorded and billed
result; a deleted job stays deleted; an accepted upload is answered.

## Modules

| Module | What it is |
|---|---|
| `JobLedger` | Abstract specification: results are recorded, then billed at most once, then published. |
| `JobLifecycle` | The pipeline itself; extends nothing of the project, implements `JobLedger`. |
| `JobLifecycleProofs` | Theorems about `JobLifecycle`. |
| `MCJobLifecycle` | Values of the constants for TLC. |
| `Entitlement` | Abstract specification: a plan is granted as sold, revoked after an end; a payment is recorded as collected. |
| `Payments` | The subscription rows, the payments and the user's plan against Stripe; implements `Entitlement`. |
| `PaymentsProofs` | Theorems about `Payments`; its last part is about events handled in order. |
| `MCPayments` | Values of the constants for TLC, and the constraint of `settled`. |
| `Accounts` | Sign-up, log-in, refresh, log-out, e-mail verification, deletion of an account. |
| `AccountsProofs` | Theorems about `Accounts`. |
| `MCAccounts` | Values of the constants for TLC. |
| `Metering` | The quota gate, the usage check, billing and plan changes, over many uploads and the three durations of each. |
| `MeteringProofs` | Theorems about `Metering`; extends `Sums`. |
| `MCMetering` | Values of the constants for TLC. |
| `Priorities` | What the producer counts when it adds an upload, and what the worker takes next. |
| `PrioritiesProofs` | Theorems about `Priorities`. |
| `MCPriorities` | Values of the constants for TLC. |
| `Subtitles` | Operators: timestamps, cues and files of the four formats. |
| `SubtitlesProofs` | Theorems about `Subtitles`. |
| `Transcripts` | Rows of transcriptions, `translateAll` and its requests; extends `Subtitles`. |
| `TranscriptsProofs` | Theorems about `Transcripts`; extends `SubtitlesProofs` and `Sums`. |
| `MCTranscripts` | Values of the constants for TLC. |
| `Sums` | Lemmas on sums over finite sets, used by three of the proof modules. |

`JobLifecycle` has one upload with all that can go wrong in it. `Metering` has many, and of each what
moves the numbers the gate reads: it takes from `JobLifecycle` which statements write the row and in
which order they may come, and from `Payments` the rows and plans the webhook writes. `Priorities`
takes `enqueue` apart, which is one step in the other two. `Transcripts` begins where the callback of
`JobLifecycle` is about to publish.

### JobLifecycle

State. `status`, `bullId` and `progress` are the columns of the `Job` row (`"ABSENT"` is no
row), `used` is `User.usedMinutes`, `transcripts` the job ids in `Transcription`. `entry`,
`fails` and `runs` are the BullMQ entry of an id. `activeEvents` and `failedEvents` count
events whose handler has not applied its UPDATE. `ingest`, `cancel`, `deletion`, `report`,
`callback` and `notices` are the program counters of the calls in flight: the value is the
statement the call is about to run. `completed`, `billed` and `seen` are history, read by the
properties only.

Actions. `IngestCheck`, `IngestCreate`, `IngestEnqueue`, `IngestMark` are the four awaits of
`UploadService.ingest`; `CancelRead`, `CancelRemove`, `CancelMark` those of `cancel`;
`DeleteRead`, `DeleteWrite` those of `delete`; `CallbackRead`, `CallbackComplete`,
`CallbackBill`, `CallbackPublish`, `CallbackFail` those of `applyCallbackResult`; `Notify` is
the rest of the callback route, which runs beside it; `ProgressWrite` the progress route;
`OnActive` and `OnFailed` the queue listeners. Each calls the repository operator of the
source's name (`MarkAsQueued`, `MarkAsCompleted`, ...); an update of a row that is gone fails
and, like the code, ends or continues the call as its `catch` says. `CallFails` is an I/O error
at any await, `Crash` the exit of the process with everything in flight.

`Worker...` are external: BullMQ and the Python worker are modelled from what `src/` fixes of
them, namely the job id as entry id, `attempts`, `removeOnComplete: {count: 1}`, the events
the API subscribes to and the routes the worker calls. A worker posts its result before it
completes the entry and may post and then fail.

Abstractions. A result is the pair of a job and an activation. Minutes are natural numbers (the
code divides seconds by 60 in floating point). Download, translation and insert of a transcript
are one step (`Transcripts` takes it apart). Timestamps, `retryCount`, mail texts, socket rooms, the ownership check (an id is
minted for one user by `sign-url`) and read-only routes are left out. Minutes never go down here:
the reset by `updateUserPlan` is in `Metering`, the deletion of a transcript in `Transcripts`, that
of an account in `Accounts`.

Runs.

| Run | Instance | Shows |
|---|---|---|
| `jobs` | 1 job: posted once, activated twice, 2 faults; or posted twice, activated once, a report of 100, 1 fault; 1 attempt, a quota of 1 | `LedgerSpec`, `TranscribedWasBilled`, `UsageIsLedger`, `TypeOK`, `StatusHasCause`, `FullProgressIsEarned`, `NoResurrection` |
| `live` | 1 job, 1 post, 2 attempts, 2 activations, no fault | `UploadsSettle`, `CompletionIsDelivered` |
| `cancelled` | 1 job | **violated**: a cancelled job is started |
| `untranslated` | 1 job without target language | **violated**: a completed job never gets its transcript |

Bounds. `MaxPosts`, `MaxRuns` and `MaxFaults` count the uploads of an id, the activations of its
entry and the faults of a behaviour; `Reports` is the set of progress values; `Managed` the jobs
that may be cancelled or deleted. One job is enough for the properties of a row, since no
statement writes two rows; two activations give two results in flight, which bill one user side
by side; two posts give an id that is deleted and comes back. Several jobs of a user are in
`Metering`. One fault places one crash or error at every await. The constraint `RetryOrRepost` of
`MCJobLifecycle` keeps the two histories of `jobs` apart, since together they take too long: with one
attempt the second activation comes from a stall, which takes one of its two faults and leaves the row
and the entry as a failed attempt that is retried does (`live` has that one). The theorems need neither
the constraint nor the bounds. Nothing is left to do when all posts are over, so deadlock is not checked.

Fairness. `Fairness` gives weak fairness to each step of a call in flight (the event loop
turns), to the listeners, and to the worker, which takes entries and ends what it took, one way
or the other. Clients are never obliged to call. Liveness is claimed without faults only: the
code has no recovery, a job whose ingest crashed between insert and enqueue stays `PENDING`.
`UploadsSettle` says that a terminal status is reached, not that it is kept: a late
`markAsQueued` or `active` may overwrite it.

Findings.

1. `cancelled`: `cancel` removes the queue entry only if the row it read has a `bullJobId`,
   which `ingest` stores after it has enqueued the job. A cancel in between leaves an entry that
   the worker takes.
2. `untranslated`: without a target language `applyCallbackResult` hands the whole downloaded
   object over as the segments, and the insert throws, after completion, billing and mail.

Not modelled, but read on the way: the callback route sends "Your Transcription Job is Completed!"
(`internal.router.ts:331`) without looking at `success`.

### Payments

State. `rowSub` and `rowStatus` are the user's `Subscription` row (`userId` is unique), `plan`
and `customer` the columns `planTier` and `stripeCustomerId` of `User`, `payments` the
`stripeInvoiceId`s in `Payment`. `state`, `tier`, `period` and `sent` are Stripe's: the status
and plan of each subscription, how many of its invoices are paid, and the events so far.
`checkout` and `cust` are the calls of `createCheckoutSession`, `pc`, `ev` and `snap` the webhook
requests: the statement about to run, the event, and the Stripe subscription it works with. An
element of `Subs` is a checkout call together with the customer and the subscription it may lead
to. `sold`, `been`, `downgraded`, `overlap` and `orderly` are history.

Actions. `CheckoutReadUser`, `CheckoutCheckRow`, `CheckoutCreateCustomer`,
`CheckoutSaveCustomer`, `CheckoutCreateSession` are the awaits of `createCheckoutSession`.
`Deliver` is the arrival of a webhook request, which answers 200 before anything else; `Entry`
is the `switch` on the event type. `Fetch`, `Upsert`, `UpdatePlan`, `FindRow`, `FindPayment`,
`CreatePayment`, `Cancel`, `Downgrade`, `MarkPastDue` are the awaits of the handlers; those of
`_syncSubscription` and of the payment's record are shared, and `AfterSync` says where each
caller goes on, after an error too, since `_syncSubscription` swallows it. A completed checkout
runs two handlers in turn (`fetch1`, `upsert1`, `plan1` are the first). `HandlerFails` is an
error of any of these awaits, `Crash` the exit of the process.

`Stripe...` are external: the statuses a subscription goes through and the events of the kinds
the webhook handles. `Deliver` picks any event sent so far, so that events are late, repeated,
reordered or never handled. `StripePlanChanges` goes through the billing portal, which shows the
subscriptions of the customer the user row names.

Abstractions. Four of Stripe's eight statuses (trials, pauses, expiry and `unpaid` have the same
shape as one of these); a price carries its plan, so that `planTierFromPrice` never falls back;
period dates and amounts are left out. `updateUserPlan` also sets `usedMinutes` to 0, which
`Metering` has.

Runs.

| Run | Instance | Shows |
|---|---|---|
| `events` | 1 user, 2 subscriptions, 2 plans, 2 webhook requests at once, 4 events, 3 deliveries, 1 fault | `TypeOK`, `PaidPlanHasSubscription`, `RowWasTrue`, `EntitlementSpec` |
| `settled` | 1 user, 2 subscriptions, 2 plans, 7 events handled in order, no fault | `SettledInSync` |
| `two` | 2 subscriptions | **violated**: a user has two live subscriptions |
| `stale` | 1 subscription | **violated**: a plan comes back after the downgrade |

Bounds. Rows of different users never meet, so one user is enough; two subscriptions let one
follow or overlap the other. Four events are a paid checkout (three) and an end or a second,
unpaid checkout; three deliveries of any of them repeat, swap or drop some. Seven events are a
subscription, its end and a second subscription. `settled` keeps to orderly histories with
`CONSTRAINT OrderlySoFar`: `SettledInSync` says nothing of the others, and `orderly` never
becomes true again. The webhook requests are symmetric. When all events are sent and handled
nothing is left to do, so deadlock is not checked.

Fairness. None: no liveness is claimed. What the webhook has acknowledged and then lost is never
handled, and the code has no reconciliation; `SettledInSync` states as safety what holds when
every event has been handled.

Findings.

1. `two`: `createCheckoutSession` refuses a user whose row is `ACTIVE`, and the row becomes so
   only when the webhook has handled a payment. Two sessions opened before are both paid.
2. `stale`: `handleSubscriptionUpdated` writes the snapshot of its event whatever happened since;
   one that is overtaken by, or delivered after, the `deleted` event gives the plan back to a
   user who was downgraded.

### Accounts

State. `account`, `created` and `verified` are the columns of `User`, `tokens` the `RefreshToken`
rows, `link` the user's `VerificationToken` row (`userId` is unique). `now` is the clock, in the
seconds a JWT counts. `at`, `who`, `held` and `ref` are the requests in flight: the await, the
user, the refresh token and the link in hand. `access` and `mailed` are what clients have: access
tokens, which no database row can revoke, and links. `latest`, `ended`, `forked` and `crossed` are
history.

A refresh token is a JWT of the user and the second it was signed in, nothing else varies. Two
tokens signed for one user in one second are therefore the same text, the column is unique, and
the second insert fails (`Storable`). Sessions are not in the code: a refresh carries the number
of the token it used up, a log-in opens a new one.

Actions. `SignUp`, `createUser`, `Sign`, `saveRefreshToken`, `sendEmailAccountCreation` are the
awaits of sign-up; `Login` and `Me` go on at `Sign`; `RefreshFind`, `RefreshDrop`, `RefreshPurge`
are those of refresh, which then goes on at `Sign`; `Logout`, `LogoutAll` and `DeleteAccount` have
one write. `VerifyFind`, `deleteLink`, `markVerified` are the awaits of `verifyToken`,
`ResendFind` and `ResendUpsert` those of `resendVerification`. `Tick` moves the clock.

Abstractions. The comparison of passwords, the change of a password (it leaves the sessions as
they are), the profile, the text of mails and errors of the mail service are left out. An address
signs up once. Each request that fails, fails at the statement that refuses.

Run `accounts`: 1 user, 2 requests at once, 3 instants, each a day, tokens of life 1 and 2, links
of life 0 (they expire with the next tick), 3 links, 2 sessions: `TypeOK`, `LogoutIsFinal`,
`OneTokenPerSession`, `NewestLinkWorks`. Users share nothing, so one is enough; the hazards are
pairs of calls; three instants let a token be alive, then expired, and leave time for
another; three links are one of the sign-up, one that overtakes an expiry, and one more. The
requests are symmetric. Time ends, so deadlock is not checked.

What the properties leave out, they name: `LogoutIsFinal` the sessions a call was carrying when
they were logged out (a refresh past its look-up stores a new token after log-out of all
sessions), `OneTokenPerSession` two overlapping refreshes of one session (both get a pair), and
`NewestLinkWorks` a link stored while an expired one is being deleted by the id it shares with it.
These are races of the code, stated as the exact exceptions that make the rest hold.

### Metering

State. `tier`, `used` and `sub` are the user and the subscription (the quota goes with the plan,
the code writes them together), `status` and `duration` the row of a job. `gate` and `read` are the
call of `sign-url` and the user it read, `ingest` the call of POST /upload, `request` the owner's call
to cancel or delete, `entry` and `runs` what BullMQ has, `activeEvents` and `failedEvents` what the
listeners have not handled, `callback` the result of each activation. `visible`, `later`, `blind` and
`unseen` are history.

An upload has three durations, which nothing ties together. The gate adds the one in the body of
`sign-url` (`Declared`; none for uploads outside `Timed`). POST /upload stores the one in its own body
(`Stored`), and that is what later gates add up. `markAsCompleted` replaces it by the worker's
(`Measured`), and that is what is billed. Nor does POST /upload ask for a link that was signed: the
gate is commented out there, so `IngestCheck` takes an id from the gate or one the client made up.

Actions. `GateUser`, `GateReservation` and `GateSubscription` are the awaits of
`checkTranscriptionQuota`; `IngestCheck`, `IngestCreate`, `Enqueue` and `MarkAsQueued` those of `ingest`;
`CancelRead`, `CancelRemove`, `CancelMark`, `DeleteRead` and `DeleteWrite` those of `cancel` and `delete`,
which decide on the row as it was read, and go on whether or not the entry could be removed;
`WorkerStarts`, `WorkerPosts`, `WorkerEnds` and `WorkerRetries` the worker, which may post a result and be
run again; `OnActive`, `OnFailed`, `Complete`, `Fail` and `Bill` the listeners and the callback;
`SubscriptionChanges` and `PlanChanges` the webhook's writes and the end of a period. The sum over the
rows is the library's `SumFunctionOnSet`.

`NoBlindOvershoot` says that what a user has used and has in flight (`Due`: signed or posted, and not
billed yet, at the measured duration) stays below the quota plus `unseen`. `unseen` is kept for each
upload, so that it excuses minutes and not uploads:

* of an upload that is granted, what it takes beyond its declared minutes;
* of the user's other uploads, at each grant, what they take, or have been billed since the gate read
  the user, beyond the minutes of their rows the gate summed up: signed and not posted, `PENDING`,
  completed and not billed, cancelled with the entry still there, stored too short;
* all of an upload that was never signed, or was signed by a gate that had no duration or had read
  the user before a plan change (`blind`);
* of an upload with a second result, that result;
* what was in flight when a plan change set the usage to 0.

A grant replaces what was unseen of the user's uploads: an overshoot is not carried on past a gate that
saw it. What is left for the code to get right is that the gate adds the three numbers, counts the rows
of both states, and refuses at the quota and not only beyond it, by the plan it read; and that no order of
grants, uploads, retries, late writes, cancellations, bills and resets adds up to more than the excuses
of each.

Abstractions. Minutes are whole. An id is posted once, and one call to cancel or delete it is under way
at a time; crashes and failed writes are in `JobLifecycle`. The queue has no order.

Read on the way: `usedMinutes` is reset by `updateUserPlan` alone, `quotaResetAt` is never read, while
the catalogue says "60 min/month" (`billing.service.ts:26`).

Run `metering`: a paying user with quotas of 4 (PRO) and 2 (FREE), and two uploads: `honest` says, stores
and takes 2 minutes; `other` says 1, stores 2 and takes 3. One change of plan or subscription:
`TypeOK`, `NoBlindOvershoot`. Two uploads are what two gates, or a gate and a result, can overlook.
`other` may be activated twice, has two results, and may be cancelled or deleted; `honest` gets as far as
the queue (`MaxRuns` 0), where it is in the sum of every gate, which keeps the state space within reach.
Uploads without a duration are in the theorem only. Every upload comes to an end, so deadlock
is not checked.

### Priorities

State. `call` is where the producer is with an upload, `lists` the lists it waits for, `ahead` what it has
counted; `entry`, `runs` and `queue` are what BullMQ has. `company` and `moved` are history: the user's other
uploads in line while an upload was counted, and those that changed their place meanwhile.

Actions. `GetJobPriority` asks for the waiting and the active entries at once (`Promise.all`), `Answer` is
one of the two answers, in either order, `Add` is `queue.add`; entries start, end, stall, come back from
their backoff and are cancelled between any two of them. `WorkerStarts` takes the entry that BullMQ would:
a stalled one, which is put back without its priority, else the smallest priority, then the oldest
(`First`). `Listed` is what `getWaiting` finds: BullMQ keeps waiting entries that have a priority in a set
of their own, which `getWaiting` does not list in its present versions, so the answer may be any number
from those without one to all.

`PaidFirst` says when a paid upload may be passed over by another: only if its user had as many other
uploads in line *while it was counted* as the priorities are apart, one that moved in that time counting
twice. They may be done by the time it is passed over: the count is of the past. Without `moved` it is
violated: an upload counted as waiting, and then, started in between, as active, makes two of one.

Abstractions. `Plan` is the plan the upload read; ids are posted once. `getQueueStatus` compares with
`"pro"` where the plans are `"PRO"`, in a value that is only logged, and `checkJobCap` has no caller: both
are left out.

Run `priorities`: a free user with 1 upload and a paying one with 2, priorities 2 apart (in the code they
are 1 and 5), 2 activations of each: `TypeOK`, `PaidFirst`. With one other upload only one that is counted
twice makes up the difference, so the run has both sides of the bound. The paid uploads are symmetric.
Uploads come to an end, so deadlock is not checked.

### Transcripts and Subtitles

State. `transcription` are the rows with their segments (`jobId` is unique, and so is `segmentId`
within a row), `created` the ids given out. `step`, `about` and `work` are the runs of
`translateAll`, one of each callback and each translate call: `groups` left, `batches` left of the
group, `groupDone` positions of it done, `results` by position.

Actions. `CallbackDownloads` and `TranslateReads` enter `translateAll`; `NextGroup` takes a group of
one source language (or copies it when that is the target), `TranslateBatch` is a request that
succeeds, `TranslateOneByOne` one that fails, or comes back with another number of lines, and the
requests of the fallback; `GroupDone` ends a group. `CallbackPublishes` and `TranslateStores` are
the transactions that follow; `Create` and `Delete` the client's. Segments are read in the order of
their `segmentId` (`findByIdWithSegment`, `findByJobIdWithSegments`), whatever order they were stored
in; `Subtitle` is what `SubtitleService.create` makes of them. `Subtitles` has no state:
`formatSubtitle` of the segments, with timestamps in milliseconds (the precision of the columns).
`Math.round(seconds * 100)` in doubles may round a tie down, so `TiesUp` says which ones it rounds
up and is any set.

`TranscriptsAssumption` says of the data only what the code fixes: a post by a client carries neither
original texts nor languages (`CreateTranscriptionSegmentSchema` has neither), and the original text of a recorded
segment, if it has one, is of the same line as its text.

Abstractions. A text is the line it says and its language; Google answers a text with the same
line. The requests of one fallback are one step. Words (which publishing drops), quotes, the PATCH
of a row's own text and counts, search and lists are left out. One callback per job (repeats are in
`JobLifecycle`).

Run `transcripts`: 1 job of 5 segments in two languages, a client's post of 2 segments for the same
job, 2 translate calls, requests of at most 3 characters or 2 items, 2 rows, 2 failed requests:
`TypeOK`, `LinesStayInPlace`, `OneTranslation`, `RequestsFit`, `CuesInOrder`. Five segments give a
group that is not contiguous and takes several batches, one of them of a text of 4 characters, over
the limit by itself; the
times lie at ties, minutes and hours, where fields carry. Calls come to an end, so deadlock is
not checked.

Read on the way: the character limit counts `text` while translate calls send `originalText`
(`RequestsFit` says so); the fallback asks for `text` whatever the batch had asked for; all stored
segments carry the language of the result, so that a translation into it skips every segment, and
a TXT file of it has empty lines; a row that a client posted first makes the insert of the callback
fail; the answer of a translate call is of its own texts, while the re-read rows may be another
call's; `searchDialogueForUser` names a table and columns the schema does not have.

## Proofs

`JobLifecycleProofs` proves, for every set of jobs, users, quotas and bounds that satisfies
`BoundsAssumption` and `JobsAssumption`:

* `TypeCorrect`: `Spec => []TypeOK`. `TypeOK` is not inductive: that `fails` stays within
  `MaxAttempts` needs that an entry still to be worked on has an attempt left, and that a posted
  result is a `Result` needs that an active entry has been activated. `QueueOK` says both.
* `StatusAlwaysHasCause`, `FullProgressAlwaysEarned`: by `CauseInv`, which adds what each
  pending write will need (`WriteHasCause`): a call about to mark a row queued has enqueued it,
  an event not yet applied was caused, a callback about to complete was a success.
* `ImplementsLedger`: `Spec => LedgerSpec`, with the identity as refinement mapping on the four
  ledger variables. `LedgerInv` ties each callback's program counter to the ledger: a callback
  at `bill` is recorded and not billed, one at `publish` is settled.
* `TranscribedAlwaysBilled`: from `LedgerInv`.
* `DeletedStaysDeleted`: `Spec => NoResurrection`, from the actions alone.

* `UsageAlwaysLedger`: `Spec => []UsageIsLedger`. `LedgerInv` gives that a callback at `bill` is
  not billed yet; so each billing adds a new result to the set, and `Sums` that the sum grows by its
  minutes.

`Sums` proves of the library's `SumFunctionOnSet`, which is defined by recursion, that over finite
sets the sum of nothing is 0, that any element may be taken out first, that sums of disjoint sets and
of two functions add up, and that a sum grows with its terms. The induction theorems of the library cannot be used here (their hypothesis is an operator),
so each lemma takes a smallest subset on which it fails and shows that there is none (`Smallest`).

`PaymentsProofs` proves, for every set of users, subscriptions, plans and webhook requests and
every bound that satisfies `PaymentsAssumption`:

* `TypeCorrect`, `PlanNeedsRow`, `RowsAreTrue`: `Spec => []TypeOK`, `[]PaidPlanHasSubscription`,
  `[]RowWasTrue`. None is inductive. `IInv` adds what Stripe's state says of itself (`StripeOK`),
  what is true of an event from its sending on (`Told`: its status was the subscription's, its
  plan was sold if active, its invoice is paid, an end is final), and what a handler knows at each
  step (`Knows`: at `plan` its snapshot is active and there is a row, at `downgrade` its event is
  an end, at `create` its invoice exists). Stripe only moves `Forward`, which keeps `Told` and
  `Knows`; a handler moves only itself (`GoesOn`, `ReturnsKeeps`, `AfterSyncKeeps`).
* `ImplementsEntitlement`: `Spec => EntitlementSpec`. The market of `Entitlement` is read off
  Stripe's state (`ended`, `collected`); `UpdatePlan` is a `Grant`, `Downgrade` a `Revoke`,
  `CreatePayment` a `Record` or a stutter, every step of Stripe a `Trade`.

Its last part proves `SettledAlwaysInSync`: `Spec => []SettledInSync`, under the same
assumptions. The difficulty is that a handler fetches the subscription as it is *now*: it runs ahead
of the events, and what it writes may be newer than what it handles. `SInv` has two parts, on top of
`IInv`:

* `LogOK`, of the events alone, whether handled or not. The newest event of a user who never had two
  live subscriptions tells how the user stands at Stripe, and either shows a live subscription or is
  an end (`NewestTells`); an end comes after an event that shows its subscription, with no other
  subscription of the user in between (`EndFollows`).
* `OrderOK`, while events are handled in order and without faults. One handler runs at a time
  (`OneByOne`); a row names the subscription that the last events show (`RowShows`), so that an
  end finds its row; when the newest event of a user is handled the user is in sync
  (`NewestHandled`), and while it is being handled `Doing` says how far the handler has got: its
  snapshot is the present state, after the upsert the row is active, after the plan everything is.

Whatever an earlier handler wrote too early, the handler of the newest event writes again: that is
why nothing has to be said of the rows before it.

`AccountsProofs` proves, for every set of users and requests, all lifetimes and bounds that satisfy
`AccountsAssumption`:

* `TypeCorrect`: `Spec => []TypeOK`, by `TypeInv`, which adds what each call has in hand at each
  await (`CallOK`).
* `LogoutIsFinalHolds`: by `SessionInv`: a session has one user, no session is numbered beyond
  `opened`, and a token some call holds is of a session that has not ended, unless the account is
  gone (and then nothing can be stored, `Storable`).
* `OneTokenPerSessionHolds`: by `RotationInv`: outside `forked`, a session has one token stored or in
  the hands of one call, but for the token that a refresh has found and not yet deleted.
* `NewestLinkWorksHolds`: by `LinkInv`: a call about to clear an expired link away finds under its id
  the link it read, or one that is in `crossed`; a call about to erase a used link is of a user who
  is verified by then.

`MeteringProofs` proves, for every set of users, uploads, durations, plans and quotas that satisfies
`MeteringAssumption` (which ties no duration to another, and lets a declared one be negative):

* `TypeCorrect`: `Spec => []TypeOK`.
* `NoBlindOvershootHolds`: `Spec => []NoBlindOvershoot`. It is not inductive: a gate grants by numbers it
  read before. `MeterInv` adds that an upload that was not posted has left no trace (`PostedFirst`), that
  what a gate read is what the user has but for what was billed since (`ReadInv`), and that what passed
  the sum would fit together with what was visible (`SumInv`). `AdmitFits` is the heart of it: each
  upload's minutes due and billed later are covered by what was summed up of it and what is unseen,
  so their sums are (`TotalCovered`). `BillInv` moves minutes from due to used, and to `later` of the
  gates that are reading; most other steps change neither side (`QuietStep`).

`PrioritiesProofs` proves, for every set of users and uploads and all priorities that satisfy
`PrioritiesAssumption`:

* `TypeCorrect`: `Spec => []TypeOK`, which bounds the count by twice the user's other uploads.
* `PaidFirstHolds`: `Spec => PaidFirst`. `PriorityInv` says that after the first of the two
  answers, an upload that was counted and can be counted again has moved (`HalfCounted`), so that both
  together are at most `company` and `moved`; and that what waits is in the queue. The entry that `First` takes has the smallest priority, so the one passed over
  had counted at least as many as the priorities of the plans are apart.

`SubtitlesProofs` proves, for all times and whichever way ties round:

* `TimestampsKeepOrder`: the fields of a timestamp are in their ranges, and a later time never gets an
  earlier timestamp. `Cut` shows that the remainders the code takes of the whole time are those of
  a clock; `FieldsOrdered` compares two clocks.
* `CuesFollowSegments`: segments that follow each other give cues that do.
* `BySegmentIdSorts`, a lemma: reading by `segmentId` gives every segment once, in that order.

`TranscriptsProofs` proves, for every set of jobs and calls, whatever is recorded or posted within
`TranscriptsAssumption`, and every limit of a request, `Spec => []TypeOK` (`TypeCorrect`),
`[]LinesStayInPlace` (`LinesAlwaysInPlace`), `[]OneTranslation` (`OneTranslationAlways`) and
`[]RequestsFit` (`RequestsAlwaysFit`). Two things carry it:

* What the operators give: `GroupsCover`, every position is in a group, and groups are of one
  language; `MakeBatches`, the batches are consecutive cuts of the group, none of them empty, each
  within the limits but for a single text; `CutsFlatten`, put together they are the group again. The
  last two are about folds, which are reached by `Recursion`: a function defined from 0 up exists, for
  there is no least number at which it could fail (`Least`).
* `IInv`: a position without a result is still to be asked for, one with a result has that of its own
  segment (`RunOK`: `Waiting`, `Settled`); the batches are the rest of the first group (`BatchesOK`);
  a callback works on what was recorded (`CallbackOK`); what a call has read is what its row still is,
  as long as there is one (`CallOK`); rows are their source, each line once, in one language and
  of one translation (`RowsOK`). None of the four properties is inductive without it: they speak of
  finished runs and stored rows, and a run is finished by steps that each fill some positions only.

`CuesAlwaysInOrder` proves `Spec => []CuesInOrder` under `SpokenInTime`: segments end after they
start and follow each other by their `segmentId`. The code checks neither; it is what Whisper gives and
what the run's recordings satisfy, the posted ones in another order.

Model-checked only: `UploadsSettle` and `CompletionIsDelivered`, which are liveness properties and so
out of the prover's reach. Every invariant, action property and refinement that a passing run checks
is a theorem.

## Hazards

`PROJECT.json` lists what is hard to test in this code, each at its line, with the properties that would
catch it going wrong. One without properties is one the code does not guard against: its note says what
happens then, and which property excepts or permits it. The models have these behaviours all the same, and
the properties are what holds in spite of them.

## Not modelled

* Support tickets: inserted, mailed on a best-effort basis and overwritten with any of three
  statuses, without a protocol.
* Administration, the billing overview, lists and searches: they read.
* Sockets, storage, logging, validation and error formatting: I/O and formatting. Their failures are
  `CallFails` and `Notify` of `JobLifecycle`.
* The change of a password and of a name: one column, which nothing else here reads.
* Bootstrap and the wiring of middleware; the exits of the process are `Crash`.

## Plan

Open:

1. `CuesInOrder` for TXT files, which have lines and no times.
2. Larger instances: two users in `Accounts`, two jobs in `Transcripts`, uploads without a
   duration in `Metering`. The theorems already cover them.
