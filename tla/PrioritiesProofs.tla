-------------------------- MODULE PrioritiesProofs --------------------------
(* Theorems about Priorities, for any uploads and any base priorities.      *)
EXTENDS Priorities, SequenceTheorems, FiniteSetTheorems, TLAPS

\* TypeOK but for the bound of what is counted.
PriorityType ==
  /\ call \in [Jobs -> {"none", "list", "add", "mark", "done"}]
  /\ lists \in [Jobs -> SUBSET {"waiting", "active"}]
  /\ ahead \in [Jobs -> Nat]
  /\ entry \in [Jobs -> Places]
  /\ runs \in [Jobs -> 0..MaxRuns]
  /\ queue \in Seq(Jobs)
  /\ company \in [Jobs -> SUBSET Jobs] /\ moved \in [Jobs -> SUBSET Jobs]

\* The queue has the waiting entries.
QueueInv == \A j \in Jobs : entry[j] = "waiting" => \E i \in DOMAIN queue : queue[i] = j

\* Who has moved was in line, and all of them are other uploads of the user.
CompanyInv == \A j \in Jobs : company[j] \subseteq Others(j) /\ moved[j] \subseteq company[j]

\* While j is counted it has no entry, and those in line are known.
LineInv ==
  \A j \in Jobs :
    /\ call[j] \in {"none", "list", "add"} => entry[j] = "none"
    /\ call[j] = "list" => {k \in Others(j) : entry[k] \in InLine} \subseteq company[j]

\* The places of the entries in a list.
At(list) == IF list = "active" THEN {"active"} ELSE {"waiting", "stalled"}

\* With one list to come: those counted that could be counted again have moved.
HalfCounted(j, list) ==
  \E W \in SUBSET company[j] :
    /\ ahead[j] <= Cardinality(W)
    /\ \A k \in W : entry[k] \in At(list) => k \in moved[j]

Counted(j) == ahead[j] <= Cardinality(company[j]) + Cardinality(moved[j])

CountInv ==
  \A j \in Jobs :
    /\ call[j] = "none" => ahead[j] = 0 /\ moved[j] = {}
    /\ call[j] = "list" =>
         \/ lists[j] = {"waiting", "active"} /\ ahead[j] = 0
         \/ \E list \in {"waiting", "active"} : lists[j] = {list} /\ HalfCounted(j, list)
    /\ call[j] \in {"add", "mark", "done"} => Counted(j)

PriorityInv == PriorityType /\ QueueInv /\ CompanyInv /\ LineInv /\ CountInv

-----------------------------------------------------------------------------
(* Finite sets, and sequences without an element.                           *)

LEMMA JobSets ==
  ASSUME NEW S \in SUBSET Jobs
  PROVE  /\ IsFiniteSet(S) /\ Cardinality(S) \in Nat
         /\ \A T \in SUBSET S : Cardinality(T) <= Cardinality(S)
<1>1. IsFiniteSet(S)
  BY PrioritiesAssumption, FS_Subset
<1> QED BY <1>1, FS_Subset, FS_CardinalityType

\* Two sets that overlap in what has moved.
LEMMA CountTwice ==
  ASSUME NEW C \in SUBSET Jobs, NEW W \in SUBSET C, NEW V \in SUBSET C,
         NEW M \in SUBSET Jobs, W \cap V \subseteq M
  PROVE  Cardinality(W) + Cardinality(V) <= Cardinality(C) + Cardinality(M)
<1>1. IsFiniteSet(W) /\ IsFiniteSet(V)
  BY JobSets
<1>2. Cardinality(W \cup V) = Cardinality(W) + Cardinality(V) - Cardinality(W \cap V)
  BY <1>1, FS_Union
<1>3. Cardinality(W \cup V) <= Cardinality(C) /\ Cardinality(W \cap V) <= Cardinality(M)
  <2>1. W \cup V \in SUBSET C /\ W \cap V \in SUBSET M
    OBVIOUS
  <2> QED BY <2>1, JobSets
<1>4. {Cardinality(W), Cardinality(V), Cardinality(W \cup V), Cardinality(W \cap V),
       Cardinality(C), Cardinality(M)} \subseteq Nat
  <2>1. {W, V, W \cup V, W \cap V, C, M} \subseteq SUBSET Jobs
    OBVIOUS
  <2> QED BY <2>1, JobSets
<1> QED BY <1>2, <1>3, <1>4

LEMMA Shift ==
  ASSUME NEW l \in Nat, NEW i \in 1..l, NEW k \in 1..l, k > i
  PROVE  /\ k - 1 \in 1..(l - 1) /\ k - 1 \in 1..((i - 1) + (l - i)) /\ ~(k - 1 <= i - 1)
         /\ (k - 1) - (i - 1) = k - i /\ k - i \in 1..(l - i) /\ i + (k - i) = k
OBVIOUS

\* The queue without one entry still has the others.
LEMMA Dequeued ==
  ASSUME queue \in Seq(Jobs), NEW i \in DOMAIN queue, queue' = RemoveAt(queue, i)
  PROVE  /\ queue' \in Seq(Jobs)
         /\ \A k \in DOMAIN queue : k # i => \E m \in DOMAIN queue' : queue'[m] = queue[k]
<1> DEFINE a == SubSeq(queue, 1, i - 1)
           b == SubSeq(queue, i + 1, Len(queue))
<1>1. i \in 1..Len(queue) /\ Len(queue) \in Nat /\ DOMAIN queue = 1..Len(queue)
  BY LenProperties
<1>2. \A k \in 1..Len(queue) : queue[k] \in Jobs
  BY ElementOfSeq
<1>3. /\ a \in Seq(Jobs) /\ Len(a) = i - 1
      /\ \A k \in 1..(i - 1) : a[k] = queue[k]
  <2>1. \A k \in 1..(i - 1) : queue[k] \in Jobs
    BY <1>1, <1>2
  <2>2. /\ a \in Seq(Jobs) /\ Len(a) = IF 1 <= i - 1 THEN (i - 1) - 1 + 1 ELSE 0
        /\ \A k \in 1..((i - 1) - 1 + 1) : a[k] = queue[1 + k - 1]
    <3>1. 1 \in Int /\ i - 1 \in Int
      BY <1>1
    <3> QED BY <2>1, <3>1, SubSeqProperties
  <2> HIDE DEF a
  <2> QED BY <1>1, <2>2
<1>4. /\ b \in Seq(Jobs) /\ Len(b) = Len(queue) - i
      /\ \A k \in 1..(Len(queue) - i) : b[k] = queue[i + k]
  <2>1. \A k \in (i + 1)..Len(queue) : queue[k] \in Jobs
    BY <1>1, <1>2
  <2>2. /\ b \in Seq(Jobs) /\ Len(b) = IF i + 1 <= Len(queue) THEN Len(queue) - (i + 1) + 1 ELSE 0
        /\ \A k \in 1..(Len(queue) - (i + 1) + 1) : b[k] = queue[(i + 1) + k - 1]
    <3>1. i + 1 \in Int /\ Len(queue) \in Int
      BY <1>1
    <3> QED BY <2>1, <3>1, SubSeqProperties
  <2>3. /\ Len(queue) - (i + 1) + 1 = Len(queue) - i
        /\ \A k \in 1..(Len(queue) - i) : (i + 1) + k - 1 = i + k
        /\ i + 1 > Len(queue) => Len(queue) - i = 0
    BY <1>1
  <2> HIDE DEF b
  <2>4. Len(b) = Len(queue) - i
    BY ONLY <1>1, <2>2, <2>3
  <2>5. \A k \in 1..(Len(queue) - i) : b[k] = queue[i + k]
    BY ONLY <2>2, <2>3
  <2> QED BY <2>2, <2>4, <2>5
<1>5. queue' = a \o b
  BY DEF RemoveAt
<1> HIDE DEF a, b
<1>6. /\ queue' \in Seq(Jobs) /\ Len(queue') = Len(a) + Len(b)
      /\ \A m \in 1..(Len(a) + Len(b)) : queue'[m] = IF m <= Len(a) THEN a[m] ELSE b[m - Len(a)]
  <2>1. /\ a \o b \in Seq(Jobs) /\ Len(a \o b) = Len(a) + Len(b)
        /\ \A m \in 1..(Len(a) + Len(b)) : (a \o b)[m] = IF m <= Len(a) THEN a[m] ELSE b[m - Len(a)]
    BY ONLY <1>3, <1>4, ConcatProperties
  <2> QED BY ONLY <1>5, <2>1
<1>7. DOMAIN queue' = 1..(Len(queue) - 1)
  BY <1>1, <1>3, <1>4, <1>6, LenProperties
<1>8. ASSUME NEW k \in DOMAIN queue, k # i
      PROVE  \E m \in DOMAIN queue' : queue'[m] = queue[k]
  <2>1. CASE k < i
    <3>1. k \in DOMAIN queue' /\ queue'[k] = queue[k]
      BY <1>1, <1>3, <1>4, <1>6, <1>7, <2>1
    <3> QED BY <3>1
  <2>2. CASE k > i
    <3>0. /\ i \in 1..Len(queue) /\ k \in 1..Len(queue) /\ Len(queue) \in Nat
          /\ Len(a) = i - 1 /\ Len(b) = Len(queue) - i
      BY <1>1, <1>3, <1>4
    <3>1. /\ k - 1 \in 1..(Len(queue) - 1) /\ k - 1 \in 1..(Len(a) + Len(b)) /\ ~(k - 1 <= Len(a))
          /\ (k - 1) - Len(a) = k - i /\ k - i \in 1..(Len(queue) - i) /\ i + (k - i) = k
      <4>1. LET l == Len(queue) IN
              /\ k - 1 \in 1..(l - 1) /\ k - 1 \in 1..((i - 1) + (l - i)) /\ ~(k - 1 <= i - 1)
              /\ (k - 1) - (i - 1) = k - i /\ k - i \in 1..(l - i) /\ i + (k - i) = k
        BY ONLY <3>0, <2>2, Shift
      <4> QED BY ONLY <3>0, <4>1
    <3>2. queue'[k - 1] = b[(k - 1) - Len(a)]
      BY ONLY <1>6, <3>1
    <3>3. b[k - i] = queue[i + (k - i)]
      BY ONLY <1>4, <3>1
    <3>4. queue'[k - 1] = queue[k]
      BY ONLY <3>1, <3>2, <3>3
    <3> QED BY ONLY <1>7, <3>1, <3>4
  <2> QED BY <1>1, <1>8, <2>1, <2>2
<1> QED BY <1>6, <1>8

-----------------------------------------------------------------------------
(* An entry that changes its place.                                         *)

\* What it does to the counts that go on: one counted already has moved when it comes to a place
\* that is still to be listed.
LEMMA MoveKeeps ==
  ASSUME PriorityInv, NEW j \in Jobs, NEW place \in Places, Move(j, place),
         call[j] \in {"add", "mark", "done"}, call'[j] \in {"mark", "done"},
         \A k \in Jobs : k # j => call'[k] = call[k],
         UNCHANGED <<lists, ahead>>
  PROVE  /\ entry' \in [Jobs -> Places]
         /\ company' \in [Jobs -> SUBSET Jobs] /\ moved' \in [Jobs -> SUBSET Jobs]
         /\ CompanyInv' /\ LineInv' /\ CountInv'
<1>0. PriorityType /\ CompanyInv /\ LineInv /\ CountInv
  BY DEF PriorityInv
<1>1. /\ entry' = [entry EXCEPT ![j] = place]
      /\ \A k \in Jobs :
           /\ company'[k] = IF k \in Counting(j) /\ place \in InLine THEN company[k] \cup {j} ELSE company[k]
           /\ moved'[k] = IF k \in Counting(j) /\ place \in InLine /\ j \in company[k]
                          THEN moved[k] \cup {j} ELSE moved[k]
  BY DEF Move
<1>2. /\ entry' \in [Jobs -> Places]
      /\ company' \in [Jobs -> SUBSET Jobs] /\ moved' \in [Jobs -> SUBSET Jobs]
  BY <1>0, <1>1 DEF Move, PriorityType
<1>3. /\ entry'[j] = place
      /\ \A k \in Jobs : k # j => entry'[k] = entry[k]
  BY <1>0, <1>1 DEF PriorityType
<1>4. \A k \in Jobs : k \in Counting(j) => j \in Others(k) /\ call[k] = "list" /\ k # j
  BY DEF Counting, Others, JobsOf
<1>5. \A k : Others(k)' = Others(k)
  BY DEF Others, JobsOf
<1>6. \A k \in Jobs : call[k] = "list" /\ j \in Others(k) => k \in Counting(j)
  BY DEF Counting, Others, JobsOf
<1>7. CompanyInv'
  BY <1>0, <1>1, <1>4, <1>5 DEF CompanyInv
<1>8. LineInv'
  <2> SUFFICES ASSUME NEW k \in Jobs
               PROVE  /\ call'[k] \in {"none", "list", "add"} => entry'[k] = "none"
                      /\ call'[k] = "list" => {i \in Others(k) : entry'[i] \in InLine} \subseteq company'[k]
    BY <1>5 DEF LineInv
  <2>1. CASE k = j
    BY <2>1
  <2>2. CASE k # j
    <3>1. call'[k] = call[k] /\ entry'[k] = entry[k]
      BY <1>3, <2>2
    <3>2. ASSUME call[k] = "list", NEW i \in Others(k), entry'[i] \in InLine
          PROVE  i \in company'[k]
      <4>1. CASE i = j
        BY <1>1, <1>3, <1>6, <3>2, <4>1
      <4>2. CASE i # j
        <5>1. i \in Jobs /\ entry'[i] = entry[i]
          BY <1>3, <4>2 DEF Others, JobsOf
        <5>2. i \in company[k]
          BY <1>0, <3>2, <5>1 DEF LineInv
        <5> QED BY <1>1, <5>2
      <4> QED BY <4>1, <4>2
    <3> QED BY <1>0, <3>1, <3>2 DEF LineInv
  <2> QED BY <2>1, <2>2
<1>9. CountInv'
  <2> SUFFICES ASSUME NEW k \in Jobs
               PROVE  /\ call'[k] = "none" => ahead'[k] = 0 /\ moved'[k] = {}
                      /\ call'[k] = "list" =>
                           \/ lists'[k] = {"waiting", "active"} /\ ahead'[k] = 0
                           \/ \E list \in {"waiting", "active"} : lists'[k] = {list} /\ HalfCounted(k, list)'
                      /\ call'[k] \in {"add", "mark", "done"} => Counted(k)'
    BY DEF CountInv
  <2>1. CASE call[k] = "list"
    <3>1. k # j /\ call'[k] = "list" /\ lists'[k] = lists[k] /\ ahead'[k] = ahead[k]
      BY <2>1
    <3>2. CASE lists[k] = {"waiting", "active"} /\ ahead[k] = 0
      BY <3>1, <3>2
    <3>3. CASE \E list \in {"waiting", "active"} : lists[k] = {list} /\ HalfCounted(k, list)
      <4>1. PICK list \in {"waiting", "active"} : lists[k] = {list} /\ HalfCounted(k, list)
        BY <3>3
      <4>2. PICK W \in SUBSET company[k] :
              /\ ahead[k] <= Cardinality(W)
              /\ \A i \in W : entry[i] \in At(list) => i \in moved[k]
        BY <4>1 DEF HalfCounted
      <4>3. W \in SUBSET company'[k]
        BY <1>1, <4>2
      <4>4. ASSUME NEW i \in W, entry'[i] \in At(list)
            PROVE  i \in moved'[k]
        <5>1. i \in Others(k) /\ i \in company[k] /\ i \in Jobs
          BY <1>0, <4>2 DEF CompanyInv, Others, JobsOf
        <5>2. CASE i = j
          <6>1. place \in InLine
            BY <1>3, <4>4, <5>2 DEF At, InLine
          <6>2. k \in Counting(j)
            BY <1>6, <2>1, <5>1, <5>2
          <6> QED BY <1>1, <5>1, <5>2, <6>1, <6>2
        <5>3. CASE i # j
          BY <1>1, <1>3, <4>2, <4>4, <5>1, <5>3
        <5> QED BY <5>2, <5>3
      <4>5. HalfCounted(k, list)'
        BY <3>1, <4>2, <4>3, <4>4 DEF HalfCounted, At
      <4> QED BY <3>1, <4>1, <4>5
    <3> QED BY <1>0, <2>1, <3>1, <3>2, <3>3 DEF CountInv
  <2>2. CASE call[k] # "list"
    <3>1. k \notin Counting(j)
      BY <1>4, <2>2
    <3>2. company'[k] = company[k] /\ moved'[k] = moved[k] /\ ahead'[k] = ahead[k]
      BY <1>1, <3>1
    <3>3. call'[k] \in {"add", "mark", "done"} => Counted(k)
      BY <1>0, <2>2 DEF CountInv, PriorityType
    <3>4. call'[k] = "none" => call[k] = "none"
      OBVIOUS
    <3>5. call'[k] # "list"
      BY <2>2
    <3> QED BY <1>0, <3>2, <3>3, <3>4, <3>5 DEF CountInv, Counted
  <2> QED BY <2>1, <2>2
<1> QED BY <1>2, <1>7, <1>8, <1>9

\* An entry leaves the queue for another place.
LEMMA QueueWithout ==
  ASSUME PriorityInv, NEW j \in Jobs, entry[j] = "waiting", Dequeue(j),
         NEW place \in Places \ {"waiting"}, entry' = [entry EXCEPT ![j] = place]
  PROVE  queue' \in Seq(Jobs) /\ QueueInv'
<1>0. PriorityType /\ QueueInv /\ queue \in Seq(Jobs)
  BY DEF PriorityInv, PriorityType
<1>1. PICK i \in DOMAIN queue : queue[i] = j /\ queue' = RemoveAt(queue, i)
  BY DEF Dequeue
<1>2. /\ queue' \in Seq(Jobs)
      /\ \A k \in DOMAIN queue : k # i => \E m \in DOMAIN queue' : queue'[m] = queue[k]
  BY <1>0, <1>1, Dequeued
<1>3. ASSUME NEW k \in Jobs, entry'[k] = "waiting"
      PROVE  \E m \in DOMAIN queue' : queue'[m] = k
  <2>1. k # j /\ entry[k] = "waiting"
    BY <1>0, <1>3 DEF PriorityType
  <2>2. PICK m \in DOMAIN queue : queue[m] = k
    BY <1>0, <2>1 DEF QueueInv
  <2> QED BY <1>1, <1>2, <2>1, <2>2
<1> QED BY <1>2, <1>3 DEF QueueInv

\* An entry comes last.
LEMMA QueueWith ==
  ASSUME PriorityInv, NEW j \in Jobs, queue' = Append(queue, j),
         entry' = [entry EXCEPT ![j] = "waiting"]
  PROVE  queue' \in Seq(Jobs) /\ QueueInv'
<1>0. PriorityType /\ QueueInv /\ queue \in Seq(Jobs)
  BY DEF PriorityInv, PriorityType
<1>1. /\ queue' \in Seq(Jobs) /\ Len(queue') = Len(queue) + 1 /\ Len(queue) \in Nat
      /\ \A i \in 1..Len(queue) : queue'[i] = queue[i]
      /\ queue'[Len(queue) + 1] = j
  BY <1>0, AppendProperties, LenProperties
<1>2. DOMAIN queue' = 1..(Len(queue) + 1) /\ DOMAIN queue = 1..Len(queue)
  BY <1>0, <1>1, LenProperties
<1>3. ASSUME NEW k \in Jobs, entry'[k] = "waiting"
      PROVE  \E m \in DOMAIN queue' : queue'[m] = k
  <2>1. CASE k = j
    BY <1>1, <1>2, <2>1
  <2>2. CASE k # j
    <3>1. entry[k] = "waiting"
      BY <1>0, <1>3, <2>2 DEF PriorityType
    <3>2. PICK m \in DOMAIN queue : queue[m] = k
      BY <1>0, <3>1 DEF QueueInv
    <3>3. m \in DOMAIN queue' /\ queue'[m] = k
      BY <1>1, <1>2, <3>2
    <3> QED BY <3>3
  <2> QED BY <2>1, <2>2
<1> QED BY <1>1, <1>3 DEF QueueInv

\* No entry begins to wait.
LEMMA QueueKept ==
  ASSUME PriorityInv, NEW j \in Jobs, UNCHANGED queue,
         NEW place \in Places \ {"waiting"}, entry' = [entry EXCEPT ![j] = place]
  PROVE  queue' \in Seq(Jobs) /\ QueueInv'
<1>1. \A k \in Jobs : entry'[k] = "waiting" => entry[k] = "waiting"
  BY DEF PriorityInv, PriorityType
<1> QED BY <1>1 DEF PriorityInv, PriorityType, QueueInv

-----------------------------------------------------------------------------
(* The steps.                                                               *)

LEMMA ProducerKeeps ==
  ASSUME PriorityInv, NEW j \in Jobs, Produce(j)
  PROVE  PriorityInv'
<1> USE DEF callVars, entryVars, ghostVars
<1>0. PriorityType /\ QueueInv /\ CompanyInv /\ LineInv /\ CountInv
  BY DEF PriorityInv
<1>o. /\ \A k : Others(k)' = Others(k)
      /\ \A k : Others(k) \in SUBSET Jobs
  BY DEF Others, JobsOf
<1>1. CASE GetJobPriority(j)
  <2> DEFINE Now == {k \in Others(j) : entry[k] \in InLine}
  <2>1. /\ call[j] = "none" /\ call' = [call EXCEPT ![j] = "list"]
        /\ lists' = [lists EXCEPT ![j] = {"waiting", "active"}]
        /\ company' = [company EXCEPT ![j] = Now]
        /\ UNCHANGED <<ahead, entryVars, moved>>
    BY <1>1 DEF GetJobPriority
  <2>2. Now \in SUBSET Others(j) /\ Others(j) \in SUBSET Jobs
    BY <1>o
  <2> HIDE DEF Now
  <2>3. PriorityType' /\ QueueInv'
    BY <1>0, <2>1, <2>2 DEF PriorityType, QueueInv
  <2>4. /\ call'[j] = "list" /\ lists'[j] = {"waiting", "active"} /\ company'[j] = Now
        /\ ahead[j] = 0 /\ moved[j] = {} /\ entry[j] = "none"
    BY <1>0, <2>1 DEF PriorityType, CountInv, LineInv
  <2>5. \A k \in Jobs : k # j => call'[k] = call[k] /\ lists'[k] = lists[k] /\ company'[k] = company[k]
    BY <1>0, <2>1 DEF PriorityType
  <2>6. CompanyInv'
    BY <1>0, <1>o, <2>1, <2>2, <2>4, <2>5 DEF CompanyInv
  <2>7. LineInv'
    BY <1>0, <1>o, <2>1, <2>4, <2>5 DEF LineInv, Now
  <2>8. CountInv'
    <3>1. \A k \in Jobs : k # j => \A list : HalfCounted(k, list)' <=> HalfCounted(k, list)
      BY <2>1, <2>5 DEF HalfCounted
    <3>2. \A k \in Jobs : k # j => (Counted(k)' <=> Counted(k))
      BY <2>1, <2>5 DEF Counted
    <3> QED BY <1>0, <2>1, <2>4, <2>5, <3>1, <3>2 DEF CountInv
  <2> QED BY <2>3, <2>6, <2>7, <2>8 DEF PriorityInv
<1>2. ASSUME NEW list \in {"waiting", "active"}, Answer(j, list)
      PROVE  PriorityInv'
  <2>1. /\ call[j] = "list" /\ list \in lists[j]
        /\ lists' = [lists EXCEPT ![j] = @ \ {list}]
        /\ call' = [call EXCEPT ![j] = IF lists'[j] = {} THEN "add" ELSE "list"]
        /\ UNCHANGED <<entryVars, ghostVars>>
    BY <1>2 DEF Answer
  <2>2. PICK n \in Listed(j, list) : ahead' = [ahead EXCEPT ![j] = @ + n]
    BY <1>2 DEF Answer
  <2> DEFINE V == {k \in JobsOf(Owner[j]) : entry[k] \in At(list)}
  <2>3. /\ V \in SUBSET company[j] /\ company[j] \in SUBSET Jobs /\ moved[j] \in SUBSET Jobs
        /\ entry[j] = "none"
    <3>1. entry[j] = "none"
      BY <1>0, <2>1 DEF LineInv
    <3>2. V \subseteq {k \in Others(j) : entry[k] \in InLine}
      BY <3>1 DEF At, InLine, Others
    <3> QED BY <1>0, <2>1, <3>1, <3>2 DEF LineInv, PriorityType
  <2>4. V \in SUBSET Jobs /\ Cardinality(V) \in Nat
    BY <2>3, JobSets DEF JobsOf
  <2>5. n \in Nat /\ n <= Cardinality(V)
    <3>1. CASE list = "active"
      <4>1. n = Cardinality(V)
        BY <2>2, <3>1 DEF Listed, With, At
      <4> QED BY <2>4, <4>1
    <3>2. CASE list = "waiting"
      <4> DEFINE S == {k \in JobsOf(Owner[j]) : entry[k] \in {"stalled"}}
                 T == {k \in JobsOf(Owner[j]) : entry[k] \in {"stalled", "waiting"}}
      <4>1. n \in Cardinality(S)..Cardinality(T)
        BY <2>2, <3>2 DEF Listed, With
      <4>2. T = V /\ S \in SUBSET Jobs
        BY <3>2 DEF At, JobsOf
      <4>3. Cardinality(S) \in Nat
        BY <4>2, JobSets
      <4> QED BY <2>4, <4>1, <4>2, <4>3
    <3> QED BY <3>1, <3>2
  <2> HIDE DEF V
  <2>6. ahead[j] \in Nat /\ ahead'[j] = ahead[j] + n /\ ahead' \in [Jobs -> Nat]
    BY <1>0, <2>2, <2>5 DEF PriorityType
  <2>7. /\ lists'[j] = lists[j] \ {list}
        /\ call'[j] = (IF lists'[j] = {} THEN "add" ELSE "list")
        /\ \A k \in Jobs : k # j => call'[k] = call[k] /\ lists'[k] = lists[k] /\ ahead'[k] = ahead[k]
    BY <1>0, <2>1, <2>2 DEF PriorityType
  <2>8. PriorityType' /\ QueueInv' /\ CompanyInv'
    BY <1>0, <1>o, <2>1, <2>6 DEF PriorityType, QueueInv, CompanyInv
  <2>9. LineInv'
    BY <1>0, <1>o, <2>1, <2>3, <2>7 DEF LineInv
  <2>10. ASSUME lists[j] = {"waiting", "active"}, ahead[j] = 0
         PROVE  /\ call'[j] = "list"
                /\ \E other \in {"waiting", "active"} : lists'[j] = {other} /\ HalfCounted(j, other)'
    <3>1. PICK other \in {"waiting", "active"} : other # list /\ lists'[j] = {other}
      BY <2>7, <2>10
    <3>2. call'[j] = "list"
      BY <2>7, <3>1
    <3>3. \A k \in V : entry[k] \notin At(other)
      BY <3>1 DEF V, At
    <3>4. HalfCounted(j, other)'
      <4>1. ahead'[j] <= Cardinality(V) /\ V \in SUBSET company'[j]
        BY <2>1, <2>3, <2>5, <2>6, <2>10
      <4>2. \A k \in V : entry'[k] \in At(other) => k \in moved'[j]
        BY <2>1, <3>3
      <4>3. \E W \in SUBSET company'[j] :
              /\ ahead'[j] <= Cardinality(W)
              /\ \A k \in W : entry'[k] \in At(other) => k \in moved'[j]
        BY <4>1, <4>2
      <4> QED BY <4>3 DEF HalfCounted, At
    <3> QED BY <3>1, <3>2, <3>4
  <2>11. ASSUME lists[j] = {list}, HalfCounted(j, list)
         PROVE  call'[j] = "add" /\ Counted(j)'
    <3>1. call'[j] = "add"
      BY <2>7, <2>11
    <3>2. PICK W \in SUBSET company[j] :
            /\ ahead[j] <= Cardinality(W)
            /\ \A k \in W : entry[k] \in At(list) => k \in moved[j]
      BY <2>11 DEF HalfCounted
    <3>3. W \cap V \subseteq moved[j]
      BY <3>2 DEF V
    <3>4. Cardinality(W) + Cardinality(V) <= Cardinality(company[j]) + Cardinality(moved[j])
      BY <2>3, <3>2, <3>3, CountTwice
    <3>5. {Cardinality(W), Cardinality(company[j]), Cardinality(moved[j])} \subseteq Nat
      <4>1. {W, company[j], moved[j]} \subseteq SUBSET Jobs
        BY <2>3, <3>2
      <4> QED BY <4>1, JobSets
    <3>6. ahead'[j] <= Cardinality(company[j]) + Cardinality(moved[j])
      BY <2>4, <2>5, <2>6, <3>2, <3>4, <3>5
    <3> QED BY <2>1, <3>1, <3>6 DEF Counted
  <2>12. CountInv'
    <3>1. \A k \in Jobs : k # j => \A l : HalfCounted(k, l)' <=> HalfCounted(k, l)
      BY <2>1, <2>7 DEF HalfCounted
    <3>2. \A k \in Jobs : k # j => (Counted(k)' <=> Counted(k))
      BY <2>1, <2>7 DEF Counted
    <3>3. \/ /\ call'[j] = "list"
             /\ \E other \in {"waiting", "active"} : lists'[j] = {other} /\ HalfCounted(j, other)'
          \/ call'[j] = "add" /\ Counted(j)'
      <4>1. CASE lists[j] = {"waiting", "active"} /\ ahead[j] = 0
        BY <2>10, <4>1
      <4>2. CASE \E l \in {"waiting", "active"} : lists[j] = {l} /\ HalfCounted(j, l)
        <5>1. PICK l \in {"waiting", "active"} : lists[j] = {l} /\ HalfCounted(j, l)
          BY <4>2
        <5>2. l = list
          BY <2>1, <5>1
        <5> QED BY <2>11, <5>1, <5>2
      <4> QED BY <1>0, <2>1, <4>1, <4>2 DEF CountInv
    <3>4. \A k \in Jobs : k # j => moved'[k] = moved[k]
      BY <2>1
    <3> QED BY <1>0, <2>7, <3>1, <3>2, <3>3, <3>4 DEF CountInv
  <2> QED BY <2>8, <2>9, <2>12 DEF PriorityInv
<1>3. CASE Add(j)
  <2>1. /\ call[j] = "add" /\ call' = [call EXCEPT ![j] = "mark"]
        /\ queue' = Append(queue, j) /\ Move(j, "waiting")
        /\ UNCHANGED <<lists, ahead, runs>>
    BY <1>3 DEF Add
  <2>2. /\ call' \in [Jobs -> {"none", "list", "add", "mark", "done"}] /\ call'[j] = "mark"
        /\ \A k \in Jobs : k # j => call'[k] = call[k]
    BY <1>0, <2>1 DEF PriorityType
  <2>3. queue' \in Seq(Jobs) /\ QueueInv'
    BY <2>1, QueueWith DEF Move
  <2>4. /\ entry' \in [Jobs -> Places]
        /\ company' \in [Jobs -> SUBSET Jobs] /\ moved' \in [Jobs -> SUBSET Jobs]
        /\ CompanyInv' /\ LineInv' /\ CountInv'
    BY <2>1, <2>2, MoveKeeps DEF Places
  <2> QED BY <1>0, <2>1, <2>2, <2>3, <2>4 DEF PriorityInv, PriorityType
<1>4. CASE MarkAsQueued(j)
  <2>1. /\ call[j] = "mark" /\ call' = [call EXCEPT ![j] = "done"]
        /\ UNCHANGED <<lists, ahead, entryVars, ghostVars>>
    BY <1>4 DEF MarkAsQueued
  <2>2. /\ call'[j] = "done"
        /\ \A k \in Jobs : k # j => call'[k] = call[k]
    BY <1>0, <2>1 DEF PriorityType
  <2>3. PriorityType' /\ QueueInv' /\ CompanyInv'
    BY <1>0, <1>o, <2>1 DEF PriorityType, QueueInv, CompanyInv
  <2>4. LineInv'
    BY <1>0, <1>o, <2>1, <2>2 DEF LineInv
  <2>5. CountInv'
    BY <1>0, <2>1, <2>2 DEF CountInv, HalfCounted, Counted, At
  <2> QED BY <2>3, <2>4, <2>5 DEF PriorityInv
<1> QED BY <1>1, <1>2, <1>3, <1>4 DEF Produce

LEMMA WorkKeeps ==
  ASSUME PriorityInv, NEW j \in Jobs, Work(j)
  PROVE  PriorityInv'
<1> USE DEF callVars
<1>0. PriorityType
  BY DEF PriorityInv
\* All of them move an entry that has been added.
<1>1. ASSUME entry[j] # "none", UNCHANGED callVars, NEW place \in Places, Move(j, place),
             runs' \in [Jobs -> 0..MaxRuns], queue' \in Seq(Jobs), QueueInv'
      PROVE  PriorityInv'
  <2>1. call[j] \in {"mark", "done"}
    BY <1>0, <1>1 DEF PriorityInv, LineInv, PriorityType
  <2>2. /\ entry' \in [Jobs -> Places]
        /\ company' \in [Jobs -> SUBSET Jobs] /\ moved' \in [Jobs -> SUBSET Jobs]
        /\ CompanyInv' /\ LineInv' /\ CountInv'
    BY <1>1, <2>1, MoveKeeps
  <2> QED BY <1>0, <1>1, <2>2 DEF PriorityInv, PriorityType
<1>2. CASE WorkerStarts(j)
  <2>1. /\ entry[j] \in {"waiting", "stalled"} /\ UNCHANGED callVars /\ Move(j, "active")
        /\ (entry[j] = "waiting" /\ Dequeue(j)) \/ UNCHANGED queue
        /\ runs[j] < MaxRuns /\ runs' = [runs EXCEPT ![j] = @ + 1]
    BY <1>2 DEF WorkerStarts
  <2>2. runs' \in [Jobs -> 0..MaxRuns]
    BY <1>0, <2>1, PrioritiesAssumption DEF PriorityType
  <2>3. queue' \in Seq(Jobs) /\ QueueInv'
    BY <2>1, QueueWithout, QueueKept DEF Move, Places
  <2> QED BY <1>1, <2>1, <2>2, <2>3 DEF Places
<1>3. CASE WorkerEnds(j)
  <2>1. PICK place \in {"done", "delayed"} : Move(j, place)
    BY <1>3 DEF WorkerEnds
  <2>2. entry[j] = "active" /\ UNCHANGED <<callVars, runs, queue>>
    BY <1>3 DEF WorkerEnds
  <2>3. queue' \in Seq(Jobs) /\ QueueInv'
    BY <2>1, <2>2, QueueKept DEF Move, Places
  <2> QED BY <1>0, <1>1, <2>1, <2>2, <2>3 DEF Places, PriorityType
<1>4. CASE WorkerStalls(j)
  <2>1. entry[j] = "active" /\ Move(j, "stalled") /\ UNCHANGED <<callVars, runs, queue>>
    BY <1>4 DEF WorkerStalls
  <2>2. queue' \in Seq(Jobs) /\ QueueInv'
    BY <2>1, QueueKept DEF Move, Places
  <2> QED BY <1>0, <1>1, <2>1, <2>2 DEF Places, PriorityType
<1>5. CASE Promote(j)
  <2>1. /\ entry[j] = "delayed" /\ queue' = Append(queue, j) /\ Move(j, "waiting")
        /\ UNCHANGED <<callVars, runs>>
    BY <1>5 DEF Promote
  <2>2. queue' \in Seq(Jobs) /\ QueueInv'
    BY <2>1, QueueWith DEF Move
  <2> QED BY <1>0, <1>1, <2>1, <2>2 DEF Places, PriorityType
<1>6. CASE CancelJob(j)
  <2>1. /\ entry[j] \in {"waiting", "delayed", "stalled"} /\ Move(j, "done")
        /\ (entry[j] = "waiting" /\ Dequeue(j)) \/ UNCHANGED queue
        /\ UNCHANGED <<callVars, runs>>
    BY <1>6 DEF CancelJob
  <2>2. queue' \in Seq(Jobs) /\ QueueInv'
    BY <2>1, QueueWithout, QueueKept DEF Move, Places
  <2> QED BY <1>0, <1>1, <2>1, <2>2 DEF Places, PriorityType
<1> QED BY <1>2, <1>3, <1>4, <1>5, <1>6 DEF Work

LEMMA PriorityInit == Init => PriorityInv
<1> SUFFICES ASSUME Init PROVE PriorityInv
  OBVIOUS
<1>1. PriorityType
  BY PrioritiesAssumption DEF Init, PriorityType, Places
<1>2. QueueInv /\ CompanyInv /\ LineInv /\ CountInv
  BY DEF Init, QueueInv, CompanyInv, LineInv, CountInv, InLine
<1> QED BY <1>1, <1>2 DEF PriorityInv

LEMMA PriorityNext == PriorityInv /\ [Next]_vars => PriorityInv'
<1> SUFFICES ASSUME PriorityInv, [Next]_vars PROVE PriorityInv'
  OBVIOUS
<1>1. CASE UNCHANGED vars
  <2>1. UNCHANGED <<call, lists, ahead, entry, runs, queue, company, moved>>
    BY <1>1 DEF vars, callVars, entryVars, ghostVars
  <2>2. PriorityType' /\ QueueInv'
    BY <2>1 DEF PriorityInv, PriorityType, QueueInv
  <2>3. \A k : Others(k)' = Others(k)
    BY DEF Others, JobsOf
  <2>4. CompanyInv' /\ LineInv'
    BY <2>1, <2>3 DEF PriorityInv, CompanyInv, LineInv
  <2>5. \A k \in Jobs : (Counted(k)' <=> Counted(k)) /\ \A l : HalfCounted(k, l)' <=> HalfCounted(k, l)
    BY <2>1 DEF Counted, HalfCounted
  <2>6. CountInv'
    BY <2>1, <2>5 DEF PriorityInv, CountInv
  <2> QED BY <2>2, <2>4, <2>6 DEF PriorityInv
<1> QED BY <1>1, ProducerKeeps, WorkKeeps DEF Next

LEMMA PriorityInvariant == Spec => []PriorityInv
BY PriorityInit, PriorityNext, PTL DEF Spec

\* Every variable keeps its type; no upload of the user is counted more than twice.
THEOREM TypeCorrect == Spec => []TypeOK
<1>1. ASSUME PriorityInv, NEW j \in Jobs
      PROVE  ahead[j] <= 2 * Cardinality(Others(j))
  <2>1. /\ company[j] \subseteq Others(j) /\ moved[j] \subseteq Others(j) /\ Others(j) \in SUBSET Jobs
        /\ company[j] \in SUBSET Jobs
    BY <1>1 DEF PriorityInv, CompanyInv, Others, JobsOf
  <2>2. /\ Cardinality(company[j]) <= Cardinality(Others(j)) /\ Cardinality(moved[j]) <= Cardinality(Others(j))
        /\ {Cardinality(company[j]), Cardinality(moved[j]), Cardinality(Others(j))} \subseteq Nat
    BY <2>1, JobSets
  <2>3. ahead[j] \in Nat /\ (ahead[j] = 0 \/ Counted(j) \/ \E W \in SUBSET company[j] : ahead[j] <= Cardinality(W))
    BY <1>1 DEF PriorityInv, PriorityType, CountInv, HalfCounted
  <2>4. \A W \in SUBSET company[j] : Cardinality(W) <= Cardinality(company[j]) /\ Cardinality(W) \in Nat
    BY <2>1, JobSets
  <2> QED BY <2>2, <2>3, <2>4 DEF Counted
<1>2. PriorityInv => TypeOK
  BY <1>1 DEF PriorityInv, PriorityType, TypeOK
<1> QED BY <1>2, PriorityInvariant, PTL

\* For any uploads and any base priorities: when a waiting upload of another plan is taken while
\* one of a PRO user waits, its user had other uploads in line while it was counted, at least as
\* many as the priorities are apart, one that changed its place meanwhile counting twice.
THEOREM PaidFirstHolds == Spec => PaidFirst
<1>1. ASSUME PriorityInv, [Next]_vars, NEW f \in Jobs, NEW p \in Jobs,
             entry[f] = "waiting", entry'[f] = "active", entry[p] = "waiting",
             Plan[f] # "PRO", Plan[p] = "PRO"
      PROVE  Cardinality(company[p]) + Cardinality(moved[p]) >= OtherBase - ProBase
  <2>0. PriorityType /\ QueueInv /\ LineInv /\ CountInv
    BY <1>1 DEF PriorityInv
  <2>1. WorkerStarts(f)
    <3>1. ASSUME NEW j \in Jobs, Produce(j) PROVE entry'[f] = entry[f] \/ entry'[f] = "waiting"
      BY <2>0, <3>1 DEF Produce, GetJobPriority, Answer, Add, MarkAsQueued, Move, entryVars, PriorityType
    <3>2. ASSUME NEW j \in Jobs, WorkerEnds(j) \/ WorkerStalls(j) \/ Promote(j) \/ CancelJob(j)
          PROVE  entry'[f] \in {entry[f], "done", "delayed", "stalled", "waiting"}
      BY <2>0, <3>2 DEF WorkerEnds, WorkerStalls, Promote, CancelJob, Move, PriorityType
    <3>3. ASSUME NEW j \in Jobs, WorkerStarts(j), j # f PROVE entry'[f] = entry[f]
      BY <2>0, <3>3 DEF WorkerStarts, Move, PriorityType
    <3>4. CASE UNCHANGED vars
      BY <1>1, <3>4 DEF vars, entryVars
    <3> QED BY <1>1, <3>1, <3>2, <3>3, <3>4 DEF Next, Work
  <2>2. PICK i \in DOMAIN queue : queue[i] = f /\ First(i)
    BY <1>1, <2>1 DEF WorkerStarts
  <2>3. PICK k \in DOMAIN queue : queue[k] = p
    BY <1>1, <2>0 DEF QueueInv
  <2>4. k # i
    BY <1>1, <2>2, <2>3
  <2>5. ProBase \in Nat /\ OtherBase \in Nat /\ ahead[f] \in Nat /\ ahead[p] \in Nat
    BY <2>0, PrioritiesAssumption DEF PriorityType
  <2>6. priority(f) <= priority(p)
    <3>1. priority(f) < priority(p) \/ priority(f) = priority(p)
      BY <2>2, <2>3, <2>4 DEF First
    <3>2. priority(f) \in Nat /\ priority(p) \in Nat
      BY <2>5 DEF priority, priorityByPlan
    <3> QED BY <3>1, <3>2
  <2>7. OtherBase + ahead[f] <= ProBase + ahead[p]
    BY <1>1, <2>6 DEF priority, priorityByPlan
  <2>8. ahead[p] <= Cardinality(company[p]) + Cardinality(moved[p])
    <3>1. call[p] \in {"mark", "done"}
      BY <1>1, <2>0 DEF LineInv, PriorityType
    <3> QED BY <2>0, <3>1 DEF CountInv, Counted
  <2>9. Cardinality(company[p]) \in Nat /\ Cardinality(moved[p]) \in Nat
    <3>1. {company[p], moved[p]} \subseteq SUBSET Jobs
      BY <2>0 DEF PriorityType
    <3> QED BY <3>1, JobSets
  <2> QED BY <2>5, <2>7, <2>8, <2>9
<1>2. PriorityInv /\ [Next]_vars =>
        [\A f, p \in Jobs :
           entry[f] = "waiting" /\ entry'[f] = "active" /\ entry[p] = "waiting"
             /\ Plan[f] # "PRO" /\ Plan[p] = "PRO"
             => Cardinality(company[p]) + Cardinality(moved[p]) >= OtherBase - ProBase]_vars
  BY <1>1
<1> QED BY <1>2, PriorityInvariant, PTL DEF Spec, PaidFirst
=============================================================================
