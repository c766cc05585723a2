------------------------------ MODULE JobLedger ------------------------------
(***************************************************************************)
(* What the job pipeline owes its users, without the pipeline: a result    *)
(* the worker reports may be recorded, a recorded result may be billed,    *)
(* once, and a transcript appears only for a job whose result was recorded *)
(* and, when it has minutes, billed.  Nothing is promised to happen.       *)
(***************************************************************************)
EXTENDS Integers

CONSTANTS Jobs, Users, Owner, Minutes, Results   \* a result is <<job, activation>>

VARIABLES
  completed,     \* the results recorded on their job
  billed,        \* the results whose minutes were added to the owner's usage
  used,          \* the minutes each user has used
  transcripts    \* the jobs with a transcript

ledger == <<completed, billed, used, transcripts>>

Init ==
  /\ completed = {}
  /\ billed = {}
  /\ used = [u \in Users |-> 0]
  /\ transcripts = {}

Complete(r) ==
  /\ r \notin completed
  /\ completed' = completed \cup {r}
  /\ UNCHANGED <<billed, used, transcripts>>

Bill(r) ==
  /\ r \in completed \ billed
  /\ Minutes[r[1]] > 0
  /\ billed' = billed \cup {r}
  /\ used' = [used EXCEPT ![Owner[r[1]]] = @ + Minutes[r[1]]]
  /\ UNCHANGED <<completed, transcripts>>

\* The result r has been recorded and, if there is anything to bill, billed.
Settled(r) == r \in completed /\ (Minutes[r[1]] > 0 => r \in billed)

Publish(r) ==
  /\ Settled(r)
  /\ r[1] \notin transcripts
  /\ transcripts' = transcripts \cup {r[1]}
  /\ UNCHANGED <<completed, billed, used>>

Next == \E r \in Results : Complete(r) \/ Bill(r) \/ Publish(r)

Spec == Init /\ [][Next]_ledger
=============================================================================
