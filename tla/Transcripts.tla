---------------------------- MODULE Transcripts ----------------------------
(***************************************************************************)
(* Transcripts: the transcription of a job from the worker's result or a    *)
(* client to its row, its translations, its deletion and its files.         *)
(*                                                                         *)
(* translateAll runs within a callback, on the worker's segments, and within *)
(* POST /transcriptions/:id/translate, on the stored ones.  Its requests to  *)
(* Google are steps; everything else may happen between them.               *)
(***************************************************************************)
EXTENDS Subtitles

CONSTANTS
  Jobs, Calls,        \* callbacks, one of each job, and translate calls
  None,
  Lines,              \* what was said, line by line
  Languages, Base,    \* of each language tag ("pt" of "pt-BR")
  Chars,              \* the length of a text
  Recorded,           \* the segments of each job the worker uploaded
  Spoken, Target,     \* of each job: the language of the result, and the one asked for
  Posted,             \* the segments of each job a client may post
  Wanted,             \* the languages translate calls ask for
  MaxChars, MaxItems, \* of a request to Google
  MaxTranscriptions,  \* bound: rows created
  MaxFailures         \* bound: requests with a batch that fail without need

Texts == [line : Lines, language : Languages]
Segments ==
  [segmentId : Nat, startTime : Nat, endTime : Nat, language : Languages \cup {None},
   text : Texts, originalText : Texts \cup {None}]

Rows ==
  [segmentId : Nat, startTime : Nat, endTime : Nat, language : Languages \cup {None},
   text : Texts, originalText : Texts \cup {None},
   translatedText : Texts \cup {None}, translatedBy : Calls \cup {None}]
Transcriptions == [job : Jobs, segments : Seq(Rows)]
Results ==
  [segmentId : Nat, startTime : Nat, endTime : Nat, text : Texts,
   originalText : Texts \cup {None}, translatedText : Texts \cup {None}]

ASSUME TranscriptsAssumption ==
  /\ None \notin Languages \cup Texts \cup Calls \cup Transcriptions \cup Results
  /\ Jobs \cap Calls = {}
  /\ Base \in [Languages -> Languages] /\ Chars \in [Texts -> Nat]
  /\ Recorded \in [Jobs -> Seq(Segments)] /\ Posted \in [Jobs -> Seq(Segments)]
  /\ \A j \in Jobs : \A s \in Range(Recorded[j]) :
       s.originalText = None \/ s.originalText.line = s.text.line
  /\ \A j \in Jobs : \A s \in Range(Posted[j]) : s.originalText = None /\ s.language = None
  /\ Spoken \in [Jobs -> Languages] /\ Target \in [Jobs -> Languages]
  /\ Wanted \subseteq Languages
  /\ {MaxChars, MaxItems, MaxTranscriptions, MaxFailures} \subseteq Nat /\ MaxItems > 0

Runs == Jobs \cup Calls  \* of translateAll

VARIABLES
  transcription,  \* the rows by id, with their segments
  created,        \* ids given out
  step,           \* of each callback and call
  about,          \* the row a call translates
  work,           \* what translateAll has in hand
  failures,
  byClient        \* history: the rows a client posted

vars == <<transcription, created, step, about, work, failures, byClient>>

Ids == 1..MaxTranscriptions

NoWork ==
  [segments |-> <<>>, target |-> None, translateSub |-> FALSE, groups |-> <<>>,
   batches |-> <<>>, groupDone |-> 0, results |-> <<>>]

Init ==
  /\ transcription = [t \in Ids |-> None] /\ created = 0 /\ byClient = {}
  /\ step = [p \in Runs |-> "idle"]
  /\ about = [c \in Calls |-> None]
  /\ work = [p \in Runs |-> NoWork]
  /\ failures = 0

findByJobId(j) == {t \in Ids : transcription[t] # None /\ transcription[t].job = j}

-----------------------------------------------------------------------------
(* translateAll.                                                            *)

\* The groups in the order their languages come up, each with its positions.
groupBySourceLanguage(segments) ==
  LET group(i) == {k \in DOMAIN segments : segments[k].language = segments[i].language}
      positions(i) == InOrder(group(i), [k \in group(i) |-> k])
      groups == {positions(i) : i \in DOMAIN segments}
  IN  InOrder(groups, [g \in groups |-> Head(g)])

TotalChars(segments, batch) ==
  SumFunctionOnSet([b \in DOMAIN batch |-> Chars[segments[batch[b]].text]], DOMAIN batch)

FullBefore(segments, batch, i) == TotalChars(segments, batch) > MaxChars \/ Len(batch) >= MaxItems
Full(segments, batch, i) ==
  \/ TotalChars(segments, batch) + Chars[segments[i].text] > MaxChars
  \/ Len(batch) >= MaxItems

Put(segments, batches, i) ==
  IF batches = <<>> \/ Full(segments, Last(batches), i) THEN Append(batches, <<i>>)
  ELSE [batches EXCEPT ![Len(batches)] = Append(@, i)]

makeBatches(segments, group) ==
  LET upTo[n \in 0..Len(group)] == IF n = 0 THEN <<>> ELSE Put(segments, upTo[n - 1], group[n])
  IN  upTo[Len(group)]

translateAll(p, segments, target, translateSub) ==
  work' = [work EXCEPT ![p] =
    [NoWork EXCEPT !.segments = segments, !.target = target, !.translateSub = translateSub,
                   !.groups = groupBySourceLanguage(segments),
                   !.results = [i \in DOMAIN segments |-> None]]]

\* A result without a translated text leaves the column alone.
Result(segment, text, translatedText) ==
  [segmentId |-> segment.segmentId, startTime |-> segment.startTime, endTime |-> segment.endTime,
   originalText |-> segment.originalText, text |-> text, translatedText |-> translatedText]

SameLanguage(source, target) == source # None /\ Base[source] = Base[target]

NextGroup(p) ==
  /\ step[p] = "group" /\ work[p].groups # <<>>
  /\ LET w == work[p]
         indexed == Head(w.groups)
     IN IF SameLanguage(w.segments[Head(indexed)].language, w.target)
        THEN /\ work' = [work EXCEPT
                  ![p].groups = Tail(w.groups),
                  ![p].results = [i \in DOMAIN w.results |->
                     IF i \in Range(indexed) THEN Result(w.segments[i], w.segments[i].text, None)
                     ELSE w.results[i]]]
             /\ UNCHANGED step
        ELSE /\ work' = [work EXCEPT ![p].batches = makeBatches(w.segments, indexed),
                                     ![p].groupDone = 0]
             /\ step' = [step EXCEPT ![p] = "batch"]
  /\ UNCHANGED <<transcription, created, about, failures, byClient>>

To(text, target) == [text EXCEPT !.language = target]
Asked(w, segment) == IF w.translateSub THEN segment.originalText ELSE segment.text

\* What the batch is answered goes to the positions it came from.
WrittenAtStart(w, texts) ==
  LET batch == Head(w.batches)
      indexed == Head(w.groups)
      place(b) == indexed[b]
  IN  [i \in DOMAIN w.results |->
         IF \E b \in DOMAIN batch : place(b) = i
         THEN LET b == CHOOSE b \in DOMAIN batch : place(b) = i
                  segment == w.segments[batch[b]]
              IN  IF w.translateSub THEN Result(segment, segment.text, texts[b])
                  ELSE Result(segment, texts[b], None)
         ELSE w.results[i]]
Written(w, texts) ==
  LET batch == Head(w.batches)
      indexed == Head(w.groups)
      place(b) == indexed[w.groupDone + b]
  IN  [i \in DOMAIN w.results |->
         IF \E b \in DOMAIN batch : place(b) = i
         THEN LET b == CHOOSE b \in DOMAIN batch : place(b) = i
                  segment == w.segments[batch[b]]
              IN  IF w.translateSub THEN Result(segment, segment.text, texts[b])
                  ELSE Result(segment, texts[b], None)
         ELSE w.results[i]]

BatchDone(p, texts) ==
  work' = [work EXCEPT ![p].results = Written(work[p], texts),
                       ![p].groupDone = @ + Len(Head(work[p].batches)),
                       ![p].batches = Tail(@)]

\* No request with a missing text is answered.
Complete(w) == \A b \in DOMAIN Head(w.batches) : Asked(w, w.segments[Head(w.batches)[b]]) # None

TranslateBatch(p) ==
  /\ step[p] = "batch" /\ work[p].batches # <<>>
  /\ Complete(work[p])
  /\ LET w == work[p]
         batch == Head(w.batches)
     IN BatchDone(p, [b \in DOMAIN batch |-> To(Asked(w, w.segments[batch[b]]), w.target)])
  /\ UNCHANGED <<transcription, created, step, about, failures, byClient>>

\* The batch fails or comes back misaligned.  Each text is asked for by itself, and kept when
\* that fails too: the text, whatever the batch had asked for.
TranslateOneByOne(p) ==
  /\ step[p] = "batch" /\ work[p].batches # <<>>
  /\ IF Complete(work[p]) THEN failures < MaxFailures /\ failures' = failures + 1
     ELSE UNCHANGED failures
  /\ LET w == work[p]
         batch == Head(w.batches)
         text(b) == w.segments[batch[b]].text
     IN \E kept \in SUBSET DOMAIN batch :
          BatchDone(p, [b \in DOMAIN batch |-> IF b \in kept THEN text(b) ELSE To(text(b), w.target)])
  /\ UNCHANGED <<transcription, created, step, about, byClient>>

GroupDone(p) ==
  /\ step[p] = "batch" /\ work[p].batches = <<>>
  /\ work' = [work EXCEPT ![p].groups = Tail(@)]
  /\ step' = [step EXCEPT ![p] = "group"]
  /\ UNCHANGED <<transcription, created, about, failures, byClient>>

\* The caller goes on.
Translated(p) == step[p] = "group" /\ work[p].groups = <<>>

-----------------------------------------------------------------------------
(* The rows.                                                                *)

\* One transaction; a second row of the job or a segmentId of its own twice undoes it.
UniqueSegments(j, segments) ==
  \A i, k \in DOMAIN segments : i # k => segments[i].segmentId # segments[k].segmentId
Unique(j, segments) ==
  /\ findByJobId(j) = {}
  /\ \A i, k \in DOMAIN segments : i # k => segments[i].segmentId # segments[k].segmentId

\* A new row has no translated text.
NewRow(segment) ==
  [segmentId |-> segment.segmentId, startTime |-> segment.startTime, endTime |-> segment.endTime,
   language |-> segment.language, text |-> segment.text, originalText |-> segment.originalText,
   translatedText |-> None, translatedBy |-> None]
create(j, segments) ==
  /\ created' = created + 1
  /\ transcription' = [transcription EXCEPT ![created + 1] =
       [job |-> j, segments |-> [i \in DOMAIN segments |-> NewRow(segments[i])]]]

\* The segments as they are read: in the order of the segmentId, in whatever order they came.
findByIdWithSegment(t) == BySegmentId(transcription[t].segments)
findByJobIdWithSegments(j) == findByIdWithSegment(CHOOSE t \in Ids : t \in findByJobId(j))

mapSegment(rows) ==
  [i \in DOMAIN rows |->
     [segmentId |-> rows[i].segmentId, startTime |-> rows[i].startTime, endTime |-> rows[i].endTime,
      text |-> rows[i].text, originalText |-> rows[i].originalText, language |-> rows[i].language]]

\* POST /subtitle/:id: a job with a transcription of at least one segment has a file in
\* every format.
HasSubtitle(j) == \E t \in findByJobId(j) : transcription[t].segments # <<>>
Subtitle(j, format) == formatSubtitle(mapSegment(findByJobIdWithSegments(j)), format, FALSE)

\* POST /transcriptions: no segment has an original text or a language.
Create(j) ==
  /\ created < MaxTranscriptions /\ Unique(j, Posted[j])
  /\ create(j, Posted[j])
  /\ byClient' = byClient \cup {created + 1}
  /\ UNCHANGED <<step, about, work, failures>>

Delete(t) ==
  /\ transcription[t] # None
  /\ transcription' = [transcription EXCEPT ![t] = None]
  /\ UNCHANGED <<created, step, about, work, failures, byClient>>

-----------------------------------------------------------------------------
(* The callback: download, translateAll and insert.                         *)

CallbackDownloads(j) ==
  /\ step[j] = "idle"
  /\ step' = [step EXCEPT ![j] = "group"]
  /\ translateAll(j, Recorded[j], Target[j], FALSE)
  /\ UNCHANGED <<transcription, created, about, failures, byClient>>

\* translateAll drops the language of a segment; the result's is the one for all.
buildCreateTranscriptionInput(j, segments) ==
  [i \in DOMAIN segments |->
     [segmentId |-> segments[i].segmentId, startTime |-> segments[i].startTime,
      endTime |-> segments[i].endTime, text |-> segments[i].text,
      originalText |-> segments[i].originalText, language |-> Spoken[j]]]

CallbackPublishes(j) ==
  /\ Translated(j)
  /\ LET segments == buildCreateTranscriptionInput(j, work[j].results) IN
     IF Unique(j, segments) THEN created < MaxTranscriptions /\ create(j, segments)
     ELSE UNCHANGED <<transcription, created>>
  /\ step' = [step EXCEPT ![j] = "done"]
  /\ work' = [work EXCEPT ![j] = NoWork]
  /\ UNCHANGED <<about, failures, byClient>>

-----------------------------------------------------------------------------
(* POST /transcriptions/:id/translate: read, translateAll and store. *)

TranslateReads(c) ==
  /\ step[c] = "idle"
  /\ \E t \in Ids, target \in Wanted :
       /\ transcription[t] # None
       /\ about' = [about EXCEPT ![c] = t]
       /\ translateAll(c, mapSegment(findByIdWithSegment(t)), target, TRUE)
  /\ step' = [step EXCEPT ![c] = "group"]
  /\ UNCHANGED <<transcription, created, failures, byClient>>

Updated(c, segment) ==
  LET w == work[c]
      k == CHOOSE k \in DOMAIN w.results : w.results[k].segmentId = segment.segmentId
      text == w.results[k].translatedText
  IN  IF text = None THEN segment
      ELSE [segment EXCEPT !.translatedText = text, !.translatedBy = c]

\* One transaction, which fails when a row is gone.
updateTranslatedSegmentsHalf(c) ==
  LET t == about[c] IN
  \E last \in DOMAIN transcription[t].segments :
    transcription' = [transcription EXCEPT ![t].segments =
      [i \in DOMAIN @ |-> IF i <= last THEN Updated(c, @[i]) ELSE @[i]]]
updateTranslatedSegments(c) ==
  LET t == about[c] IN
  transcription' = [transcription EXCEPT ![t].segments = [i \in DOMAIN @ |-> Updated(c, @[i])]]

TranslateStores(c) ==
  /\ Translated(c)
  /\ IF transcription[about[c]] = None
     THEN UNCHANGED transcription
     ELSE updateTranslatedSegments(c)
  /\ step' = [step EXCEPT ![c] = "done"]
  /\ work' = [work EXCEPT ![c] = NoWork]
  /\ UNCHANGED <<created, about, failures, byClient>>

-----------------------------------------------------------------------------
RunStep(p) == NextGroup(p) \/ TranslateBatch(p) \/ TranslateOneByOne(p) \/ GroupDone(p)

Next ==
  \/ \E p \in Runs : RunStep(p)
  \/ \E j \in Jobs : CallbackDownloads(j) \/ CallbackPublishes(j) \/ Create(j)
  \/ \E c \in Calls : TranslateReads(c) \/ TranslateStores(c)
  \/ \E t \in Ids : Delete(t)

Spec == Init /\ [][Next]_vars

-----------------------------------------------------------------------------
TypeOK ==
  /\ transcription \in [Ids -> Transcriptions \cup {None}]
  /\ created \in 0..MaxTranscriptions
  /\ \A t \in Ids : transcription[t] # None => t <= created
  /\ \A j \in Jobs : \A t, u \in findByJobId(j) : t = u
  /\ step \in [Runs -> {"idle", "group", "batch", "done"}]
  /\ about \in [Calls -> Ids \cup {None}]
  /\ work \in [Runs -> [segments : Seq(Segments), target : Languages \cup {None},
                        translateSub : BOOLEAN, groups : Seq(Seq(Nat)), batches : Seq(Seq(Nat)),
                        groupDone : Nat, results : Seq(Results \cup {None})]]
  /\ \A p \in Runs : DOMAIN work[p].results = DOMAIN work[p].segments
  /\ failures \in 0..MaxFailures
  /\ byClient \subseteq 1..created

InPlace(r, s) ==
  /\ r.segmentId = s.segmentId /\ r.startTime = s.startTime /\ r.endTime = s.endTime
  /\ r.originalText = s.originalText /\ r.text.line = s.text.line
  /\ r.translatedText = None \/ r.translatedText.line = s.text.line

Source(t) == IF t \in byClient THEN Posted[transcription[t].job] ELSE Recorded[transcription[t].job]

\* "Map back to the original position", "never drop a line": whatever languages a recording
\* mixes, however it is cut into requests and whichever of them fail, what translateAll returns
\* and what is stored has every line once, at its time, with texts of that line alone.
LinesStayInPlace ==
  /\ \A p \in Runs : Translated(p) =>
       \A i \in DOMAIN work[p].segments :
         work[p].results[i] # None /\ InPlace(work[p].results[i], work[p].segments[i])
  /\ \A t \in Ids : transcription[t] # None =>
       /\ Len(transcription[t].segments) = Len(Source(t))
       /\ \A s \in Range(Source(t)) : \E r \in Range(transcription[t].segments) : InPlace(r, s)

\* The translated texts of a transcription are all of one request, or there are none: requests
\* for different languages may interleave with each other, with callbacks and deletions, and a
\* request skips the segments that are in its language already.
OneTranslation ==
  \A t \in Ids : transcription[t] # None =>
    \A r, s \in Range(transcription[t].segments) : r.translatedBy = s.translatedBy

\* "Stay under request limits": what a callback asks of Google, unless one text is over the
\* limit by itself; and the requests of a group ask for all of it, in order.
RequestsFit ==
  \A p \in Runs : step[p] = "batch" =>
    LET w == work[p]
        indexed == Head(w.groups)
    IN  /\ FlattenSeq(w.batches) = SubSeq(indexed, w.groupDone + 1, Len(indexed))
        /\ \A batch \in Range(w.batches) :
             /\ Len(batch) \in 1..MaxItems
             /\ ~w.translateSub => Len(batch) = 1 \/ TotalChars(w.segments, batch) <= MaxChars

\* A player shows the lines one after the other in every format, however their times round and
\* in whatever order they were posted.
CuesInOrder ==
  \A j \in Jobs, format \in Timed : HasSubtitle(j) =>
    LET cues == Subtitle(j, format) IN
    \A i, k \in DOMAIN cues :
      /\ Readable(format, cues[i].start) /\ Readable(format, cues[i].end)
      /\ NotAfter(cues[i].start, cues[i].end)
      /\ i < k => NotAfter(cues[i].end, cues[k].start)
=============================================================================
