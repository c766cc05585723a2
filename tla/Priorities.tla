----------------------------- MODULE Priorities -----------------------------
(***************************************************************************)
(* The priority of a transcription in the BullMQ queue: what the producer   *)
(* counts when an upload is added, what the worker takes next, and what     *)
(* moves entries while the producer counts.                                 *)
(*                                                                         *)
(* The producer asks for the waiting and for the active entries at once and *)
(* adds its own when both answers are there; entries come, go and change    *)
(* their place in between.  BullMQ is not in the repository.                *)
(***************************************************************************)
EXTENDS Naturals, FiniteSets, SequencesExt

CONSTANTS
  Users, Jobs,
  Owner,              \* of each upload
  Plan,               \* user.planTier as the upload read it
  ProBase, OtherBase, \* the priorities of a user with nothing in the queue; the smaller is first
  MaxRuns             \* bound: activations of an entry

ASSUME PrioritiesAssumption ==
  /\ IsFiniteSet(Jobs) /\ Owner \in [Jobs -> Users]
  /\ {ProBase, OtherBase, MaxRuns} \subseteq Nat

VARIABLES
  call,     \* where the producer is with an upload
  lists,    \* the lists it has asked for and not got yet
  ahead,    \* the uploads of the user it has counted so far
  entry,    \* the place of the upload's entry in BullMQ
  runs,     \* activations of the entry
  queue,    \* the waiting entries, in the order they came
  \* What happened so far; no code reads these.
  company,  \* the user's other uploads that were in line while an upload was counted
  moved     \* those that changed their place in the meantime

callVars  == <<call, lists, ahead>>
entryVars == <<entry, runs, queue>>
ghostVars == <<company, moved>>
vars == <<callVars, entryVars, ghostVars>>

JobsOf(u) == {j \in Jobs : Owner[j] = u}
Others(j) == JobsOf(Owner[j]) \ {j}

\* "stalled": back from a worker that lost it, in a list of its own without a priority.
Places == {"none", "waiting", "active", "delayed", "stalled", "done"}
\* The places where an upload is in line for the worker or with it.
InLine == {"waiting", "active", "stalled"}

TypeOK ==
  /\ call \in [Jobs -> {"none", "list", "add", "mark", "done"}]
  /\ lists \in [Jobs -> SUBSET {"waiting", "active"}]
  /\ ahead \in [Jobs -> Nat] /\ \A j \in Jobs : ahead[j] <= 2 * Cardinality(Others(j))
  /\ entry \in [Jobs -> Places]
  /\ runs \in [Jobs -> 0..MaxRuns]
  /\ queue \in Seq(Jobs)
  /\ company \in [Jobs -> SUBSET Jobs] /\ moved \in [Jobs -> SUBSET Jobs]

Init ==
  /\ call = [j \in Jobs |-> "none"]
  /\ lists = [j \in Jobs |-> {}]
  /\ ahead = [j \in Jobs |-> 0]
  /\ entry = [j \in Jobs |-> "none"]
  /\ runs = [j \in Jobs |-> 0]
  /\ queue = <<>>
  /\ company = [j \in Jobs |-> {}] /\ moved = [j \in Jobs |-> {}]

-----------------------------------------------------------------------------
(* The entries change their places.                                         *)

\* The uploads whose count goes on and has to do with j.
Counting(j) == {k \in Others(j) : call[k] = "list"}

\* The entry of j goes to a place; where a count goes on, it has been in line, and has moved
\* there if it had been in line before.
Move(j, place) ==
  /\ entry' = [entry EXCEPT ![j] = place]
  /\ company' = [k \in Jobs |-> IF k \in Counting(j) /\ place \in InLine
                                THEN company[k] \cup {j} ELSE company[k]]
  /\ moved' = [k \in Jobs |-> IF k \in Counting(j) /\ place \in InLine /\ j \in company[k]
                              THEN moved[k] \cup {j} ELSE moved[k]]

Dequeue(j) == \E i \in DOMAIN queue : queue[i] = j /\ queue' = RemoveAt(queue, i)

-----------------------------------------------------------------------------
(* UploadService.ingest: enqueue, and then the row gets the id of the entry. *)

GetJobPriority(j) ==
  /\ call[j] = "none"
  /\ call' = [call EXCEPT ![j] = "list"]
  /\ lists' = [lists EXCEPT ![j] = {"waiting", "active"}]
  /\ company' = [company EXCEPT ![j] = {k \in Others(j) : entry[k] \in InLine}]
  /\ UNCHANGED <<ahead, entryVars, moved>>

\* The user's entries in some places, and a mutant of it: without the filter, everybody's.
WithAnybodys(u, places) == Cardinality({k \in Jobs : entry[k] \in places})
With(u, places) == Cardinality({k \in JobsOf(u) : entry[k] \in places})

\* BullMQ keeps waiting entries that have a priority apart from those it lists as waiting, and
\* the stalled ones with the latter; a version that lists both is allowed for.
Listed(j, list) ==
  IF list = "active" THEN {With(Owner[j], {"active"})}
  ELSE With(Owner[j], {"stalled"})..With(Owner[j], {"stalled", "waiting"})

\* Promise.all: one of the two answers; the call goes on with the second.
Answer(j, list) ==
  /\ call[j] = "list" /\ list \in lists[j]
  /\ lists' = [lists EXCEPT ![j] = @ \ {list}]
  /\ \E n \in Listed(j, list) : ahead' = [ahead EXCEPT ![j] = @ + n]
  /\ call' = [call EXCEPT ![j] = IF lists'[j] = {} THEN "add" ELSE "list"]
  /\ UNCHANGED <<entryVars, ghostVars>>

\* A mutant of priorityByPlan: the name of the plan as getQueueStatus writes it.
priorityByPlanName(p) == IF p = "pro" THEN ProBase ELSE OtherBase
priorityByPlan(p) == IF p = "PRO" THEN ProBase ELSE OtherBase
priority(j) == priorityByPlan(Plan[j]) + ahead[j]

Add(j) ==
  /\ call[j] = "add"
  /\ call' = [call EXCEPT ![j] = "mark"]
  /\ queue' = Append(queue, j)
  /\ Move(j, "waiting")
  /\ UNCHANGED <<lists, ahead, runs>>

MarkAsQueued(j) ==
  /\ call[j] = "mark"
  /\ call' = [call EXCEPT ![j] = "done"]
  /\ UNCHANGED <<lists, ahead, entryVars, ghostVars>>

-----------------------------------------------------------------------------
(* The worker and BullMQ.                                                   *)

\* The entry at i has the smallest priority, and is the oldest of those.
First(i) ==
  \A k \in DOMAIN queue : k # i =>
    \/ priority(queue[i]) < priority(queue[k])
    \/ priority(queue[i]) = priority(queue[k]) /\ i < k

\* Entries without a priority come before those with one.
WorkerStarts(j) ==
  /\ \/ entry[j] = "stalled" /\ UNCHANGED queue
     \/ /\ entry[j] = "waiting" /\ \A k \in Jobs : entry[k] # "stalled"
        /\ \E i \in DOMAIN queue : queue[i] = j /\ First(i)
        /\ Dequeue(j)
  /\ runs[j] < MaxRuns
  /\ runs' = [runs EXCEPT ![j] = @ + 1]
  /\ Move(j, "active")
  /\ UNCHANGED callVars

\* The attempt ends: with a result, or with an error, after which the entry waits for its
\* backoff unless its attempts are used up.
WorkerEnds(j) ==
  /\ entry[j] = "active"
  /\ Move(j, "done") \/ Move(j, "delayed")
  /\ UNCHANGED <<callVars, runs, queue>>

WorkerStalls(j) ==
  /\ entry[j] = "active"
  /\ Move(j, "stalled")
  /\ UNCHANGED <<callVars, runs, queue>>

\* The backoff is over: the entry comes last among those of its priority.
Promote(j) ==
  /\ entry[j] = "delayed"
  /\ queue' = Append(queue, j)
  /\ Move(j, "waiting")
  /\ UNCHANGED <<callVars, runs>>

\* POST /jobs/:id/cancel, once the row has the id of the entry and whatever its status was when
\* it was read; an active entry is locked.
CancelJob(j) ==
  /\ call[j] = "done" /\ entry[j] \in {"waiting", "delayed", "stalled"}
  /\ IF entry[j] = "waiting" THEN Dequeue(j) ELSE UNCHANGED queue
  /\ Move(j, "done")
  /\ UNCHANGED <<callVars, runs>>

-----------------------------------------------------------------------------
Produce(j) ==
  GetJobPriority(j) \/ (\E list \in {"waiting", "active"} : Answer(j, list)) \/ Add(j) \/ MarkAsQueued(j)
Work(j) == WorkerStarts(j) \/ WorkerEnds(j) \/ WorkerStalls(j) \/ Promote(j) \/ CancelJob(j)

Next == \E j \in Jobs : Produce(j) \/ Work(j)

Spec == Init /\ [][Next]_vars

-----------------------------------------------------------------------------
\* "Priority queue": when a worker takes a waiting upload of another plan while one of a PRO
\* user waits, that user had at least as many other uploads in line while the waiting one was
\* counted as the priorities are apart, one that changed its place meanwhile counting twice.
PaidFirst ==
  [][\A f, p \in Jobs :
       entry[f] = "waiting" /\ entry'[f] = "active" /\ entry[p] = "waiting"
         /\ Plan[f] # "PRO" /\ Plan[p] = "PRO"
         => Cardinality(company[p]) + Cardinality(moved[p]) >= OtherBase - ProBase]_vars
=============================================================================
