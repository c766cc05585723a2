--------------------------- MODULE MCTranscripts ---------------------------
(* Instances of Transcripts for TLC.                                        *)
EXTENDS Transcripts

CONSTANTS j1, c1, c2

\* A recording in two languages; each line starts where the one before ends.  What a client
\* posts is in another order.
MCBase == [l \in Languages |-> IF l = "pt-BR" THEN "pt" ELSE l]
MCChars == [t \in Texts |-> IF t.line = 1 THEN 4 ELSE IF t.line = 3 THEN 3 ELSE IF t.line = 4 THEN 2 ELSE 1]
In(i) == IF i = 2 THEN "pt" ELSE "en"
At == <<3594, 59992, 59996, 3599995, 3600005, 3600015>>
MCRecorded ==
  [j \in Jobs |-> [i \in 1..5 |->
     [segmentId |-> i - 1, startTime |-> At[i], endTime |-> At[i + 1], language |-> In(i),
      text |-> [line |-> i, language |-> In(i)], originalText |-> [line |-> i, language |-> In(i)]]]]
MCPosted ==
  [j \in Jobs |-> [i \in 1..2 |->
     [MCRecorded[j][3 - i] EXCEPT !.language = None, !.originalText = None]]]
MCSpoken == [j \in Jobs |-> "en"]
MCTarget == [j \in Jobs |-> "pt-BR"]
=============================================================================
