----------------------------- MODULE Subtitles -----------------------------
(***************************************************************************)
(* Subtitles: what formatSubtitle makes of the segments of a transcription. *)
(* Times are in milliseconds, the precision of their columns; a time in a   *)
(* file is a record of its fields, a file the sequence of its cues.         *)
(***************************************************************************)
EXTENDS Naturals, FiniteSets, SequencesExt

\* The times half way between two centiseconds that Math.round(seconds * 100) rounds up: the
\* product of doubles may fall just short of the half (1.005 * 100 does).
CONSTANT TiesUp

Formats == {"SRT", "VTT", "ASS", "TXT"}
Timed == Formats \ {"TXT"}

toSrtTimestamp(ms) ==
  [h |-> ms \div 3600000, m |-> (ms % 3600000) \div 60000, s |-> (ms % 60000) \div 1000,
   fraction |-> ms % 1000]
toVttTimestamp(ms) == toSrtTimestamp(ms)

Centiseconds(ms) ==
  IF ms % 10 > 5 \/ (ms % 10 = 5 /\ ms \in TiesUp) THEN ms \div 10 + 1 ELSE ms \div 10

\* The form with a rounding in each field: 59,996 ms would end in a hundred centiseconds.
toAssTimestampByField(ms) ==
  [h |-> ms \div 3600000, m |-> (ms % 3600000) \div 60000, s |-> (ms % 60000) \div 1000,
   fraction |-> Centiseconds(ms % 1000)]
toAssTimestamp(ms) ==
  LET cs == Centiseconds(ms) IN
  [h |-> cs \div 360000, m |-> (cs % 360000) \div 6000, s |-> (cs % 6000) \div 100,
   fraction |-> cs % 100]

Timestamp(format, ms) ==
  CASE format = "SRT" -> toSrtTimestamp(ms)
    [] format = "VTT" -> toVttTimestamp(ms)
    [] format = "ASS" -> toAssTimestamp(ms)

\* The elements of S in the order of their keys, of which no two are the same.
InOrder(S, key) ==
  [r \in 1..Cardinality(S) |-> CHOOSE x \in S : Cardinality({y \in S : key[y] <= key[x]}) = r]
BySegmentId(segments) ==
  InOrder(Range(segments), [segment \in Range(segments) |-> segment.segmentId])

Line(segment, translate) == IF translate THEN segment.translatedText ELSE segment.text

buildTranscript(segments, translate) ==
  LET sorted == BySegmentId(segments)
  IN  [i \in DOMAIN sorted |-> [text |-> Line(sorted[i], translate)]]

\* buildSrt, buildVtt and buildAss.
buildCues(segments, format, translate) ==
  [i \in DOMAIN segments |-> [start |-> Timestamp(format, segments[i].startTime),
                              end   |-> Timestamp(format, segments[i].endTime),
                              text  |-> Line(segments[i], translate)]]

formatSubtitle(segments, format, translate) ==
  IF format = "TXT" THEN buildTranscript(segments, translate)
  ELSE buildCues(segments, format, translate)

-----------------------------------------------------------------------------
\* The order a player reads.
NotAfter(a, b) ==
  \/ a.h < b.h
  \/ a.h = b.h /\ a.m < b.m
  \/ a.h = b.h /\ a.m = b.m /\ a.s < b.s
  \/ a.h = b.h /\ a.m = b.m /\ a.s = b.s /\ a.fraction <= b.fraction

Readable(format, t) ==
  t.m < 60 /\ t.s < 60 /\ t.fraction < (IF format = "ASS" THEN 100 ELSE 1000)
=============================================================================
