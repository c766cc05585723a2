--------------------------- MODULE MCJobLifecycle ---------------------------
(* Instances of JobLifecycle for TLC.                                       *)
EXTENDS JobLifecycle, TLC

CONSTANTS u1, j1, j2

\* One user owns the jobs.
OneOwner == [j \in Jobs |-> u1]
OneMinute == [j \in Jobs |-> 1]
\* After the first bill the user's next upload is refused.
SmallQuota == [u \in Users |-> 1]
LargeQuota == [u \in Users |-> 10]
\* Two histories in one run, each as far as it goes: one upload whose entry is activated
\* twice, and an id that is posted twice, with progress reports and at most one fault.
RetryOrRepost ==
  \/ /\ \A c \in Calls : c[2] > 1 => ingest[c] = "new"
     /\ \A j \in Jobs : report[j] = -1
  \/ faults <= 1 /\ \A j \in Jobs : runs[j] <= 1
=============================================================================
