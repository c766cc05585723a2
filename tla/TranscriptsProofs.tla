-------------------------- MODULE TranscriptsProofs --------------------------
(***************************************************************************)
(* Theorems about Transcripts, for every set of jobs and calls, whatever    *)
(* is recorded or posted, and every limit of a request.                    *)
(***************************************************************************)
EXTENDS Transcripts, SubtitlesProofs, Sums

-----------------------------------------------------------------------------
(* Numbers that have a property have a least one; by it, what is defined    *)
(* from 0 up is defined.                                                    *)

LEMMA Least ==
  ASSUME NEW B \in SUBSET Nat, B # {}
  PROVE  \E n \in B : \A m \in Nat : m < n => m \notin B
<1>1. PICK b \in B : b \in Nat
  OBVIOUS
<1> DEFINE A == {m \in B : m <= b}
           I == {0..m : m \in A}
<1>2. IsFiniteSet(0..b)
  BY <1>1, FS_Interval
<1>3. I \in SUBSET SUBSET (0..b) /\ I # {}
  BY <1>1
<1>4. PICK T \in I : \A U \in SUBSET T : U # T => U \notin I
  <2> DEFINE S == 0..b
  <2> HIDE DEF I, S
  <2> QED BY <1>2, <1>3, Smallest, ZenonT(30) DEF S
<1>5. PICK n \in A : T = 0..n
  OBVIOUS
<1>6. ASSUME NEW m \in Nat, m < n, m \in B
      PROVE  FALSE
  <2>1. n \in B /\ n <= b /\ n \in Nat
    OBVIOUS
  <2>2. m \in A
    BY <1>1, <1>6, <2>1
  <2>3. 0..m \in I
    BY <2>2
  <2>4. 0..m \in SUBSET T /\ n \in T /\ n \notin 0..m
    BY <1>5, <1>6, <2>1
  <2> HIDE DEF A, I
  <2> QED BY <1>4, <2>3, <2>4
<1> QED BY <1>6

\* f holds the values that start at v0 and follow one another by next, up to the N-th.
Follows(f, V, v0, next, N) ==
  f \in [0..N -> V] /\ f[0] = v0 /\ \A n \in 1..N : f[n] = next[<<f[n - 1], n>>]

LEMMA Recursion ==
  ASSUME NEW V, NEW v0 \in V, NEW N \in Nat, NEW next \in [V \X (1..N) -> V]
  PROVE  \E f : Follows(f, V, v0, next, N)
<1> DEFINE Bad == {n \in 0..N : ~ \E f : Follows(f, V, v0, next, n)}
<1>1. SUFFICES ASSUME Bad # {} PROVE FALSE
  BY SMT
<1>2. PICK n \in Bad : \A m \in Nat : m < n => m \notin Bad
  <2>1. Bad \in SUBSET Nat
    OBVIOUS
  <2> HIDE DEF Bad
  <2> QED BY <1>1, <2>1, Least
<1>3. n \in 0..N /\ ~ \E f : Follows(f, V, v0, next, n)
  OBVIOUS
<1>4. n # 0
  <2>1. Follows([m \in 0..0 |-> v0], V, v0, next, 0)
    BY DEF Follows
  <2> QED BY <1>3, <2>1
<1>5. PICK f : Follows(f, V, v0, next, n - 1)
  BY <1>2, <1>3, <1>4
<1> HIDE DEF Bad
<1> DEFINE g == [m \in 0..n |-> IF m = n THEN next[<<f[n - 1], n>>] ELSE f[m]]
<1>6. f[n - 1] \in V /\ next[<<f[n - 1], n>>] \in V
  BY <1>3, <1>4, <1>5 DEF Follows
<1>7. \A m \in 0..(n - 1) : g[m] = f[m] /\ f[m] \in V
  BY <1>3, <1>4, <1>5 DEF Follows
<1>8. Follows(g, V, v0, next, n)
  <2>1. g \in [0..n -> V] /\ g[0] = v0
    BY <1>3, <1>4, <1>5, <1>6, <1>7 DEF Follows
  <2>2. \A m \in 1..n : g[m] = next[<<g[m - 1], m>>]
    <3>1. ASSUME NEW m \in 1..n, m # n PROVE g[m] = next[<<g[m - 1], m>>]
      <4>1. m \in 1..(n - 1) /\ m \in 0..(n - 1) /\ m - 1 \in 0..(n - 1)
        BY <1>3, <3>1
      <4> QED BY <1>5, <1>7, <4>1 DEF Follows
    <3>2. g[n] = next[<<g[n - 1], n>>]
      <4>1. g[n] = next[<<f[n - 1], n>>]
        BY <1>3
      <4>2. g[n - 1] = f[n - 1]
        BY <1>3, <1>4, <1>7
      <4> HIDE DEF g
      <4> QED BY <4>1, <4>2
    <3> QED BY <3>1, <3>2
  <2> QED BY <2>1, <2>2 DEF Follows
<1> QED BY <1>3, <1>8

-----------------------------------------------------------------------------
(* Grouping by language.                                                    *)

\* Positions of segments in one language.
IsGroup(segments, g) ==
  /\ g \in Seq(Nat) /\ g # <<>>
  /\ \A a \in DOMAIN g : /\ g[a] \in DOMAIN segments
                         /\ segments[g[a]].language = segments[Head(g)].language

\* Every group is of one language, and every segment is in a group.
LEMMA GroupsCover ==
  ASSUME NEW X, NEW segments \in Seq(X), NEW gs, gs = groupBySourceLanguage(segments)
  PROVE  /\ gs \in Seq(Seq(Nat))
         /\ \A k \in DOMAIN gs : IsGroup(segments, gs[k])
         /\ \A i \in DOMAIN segments : \E k \in DOMAIN gs : \E a \in DOMAIN gs[k] : gs[k][a] = i
<1> DEFINE D == DOMAIN segments
           group(i) == {k \in D : segments[k].language = segments[i].language}
           positions(i) == InOrder(group(i), [k \in group(i) |-> k])
           groups == {positions(i) : i \in D}
           key == [g \in groups |-> Head(g)]
<1>1. gs = InOrder(groups, key)
  BY DEF groupBySourceLanguage
<1>2. D \subseteq Nat /\ IsFiniteSet(D)
  <2>1. D = 1..Len(segments) /\ Len(segments) \in Nat
    BY LenProperties
  <2> HIDE DEF D
  <2> QED BY <2>1, FS_Interval
<1> HIDE DEF D
<1>3. ASSUME NEW i \in D
      PROVE  /\ IsGroup(segments, positions(i)) /\ Head(positions(i)) \in group(i)
             /\ \A k \in group(i) : \E a \in DOMAIN positions(i) : positions(i)[a] = k
  <2> DEFINE G == group(i)
             id == [k \in G |-> k]
             s == positions(i)
  <2>1. G \in SUBSET D /\ i \in G
    OBVIOUS
  <2>2. HasKeys(G, id)
    <3>1. IsFiniteSet(G)
      BY <1>2, <2>1, FS_Subset
    <3> QED BY <1>2, <2>1, <3>1 DEF HasKeys
  <2>3. s = InOrder(G, id)
    OBVIOUS
  <2> HIDE DEF G, id, s
  <2>4. /\ s \in Seq(G) /\ DOMAIN s = 1..Len(s)
        /\ \A x \in G : \E r \in DOMAIN s : s[r] = x
    BY <2>2, <2>3, InOrderSorts
  <2>5. s # <<>> /\ s \in Seq(Nat)
    <3>1. G \subseteq Nat
      BY <1>2, <2>1
    <3>2. PICK r \in 1..Len(s) : s[r] = i
      BY <2>1, <2>4
    <3>3. s # <<>>
      BY <3>2
    <3> QED BY <2>4, <3>1, <3>3, SeqMonotonic
  <2>6. \A a \in DOMAIN s : s[a] \in G
    BY <2>4
  <2>7. Head(s) \in G
    BY <2>4, <2>5
  <2>8. IsGroup(segments, s)
    BY <2>1, <2>5, <2>6, <2>7 DEF IsGroup, G, D
  <2> QED BY <2>4, <2>7, <2>8, Zenon DEF s, G, id
<1>4. HasKeys(groups, key)
  <2>1. IsFiniteSet(groups)
    <3> DEFINE f == [i \in D |-> positions(i)]
    <3>1. f \in Surjection(D, groups)
      BY DEF Surjection
    <3> HIDE DEF f, groups
    <3> QED BY <1>2, <3>1, FS_Surjection
  <2>2. ASSUME NEW g \in groups PROVE key[g] = Head(g) /\ key[g] \in Nat
    <3>1. PICK i \in D : g = positions(i)
      OBVIOUS
    <3>2. Head(g) \in group(i)
      BY <1>3, <3>1
    <3> HIDE DEF positions
    <3> QED BY <1>2, <3>2
  <2>3. ASSUME NEW g \in groups, NEW h \in groups, Head(g) = Head(h)
        PROVE  g = h
    <3>1. PICK i \in D, k \in D : g = positions(i) /\ h = positions(k)
      OBVIOUS
    <3>2. Head(g) \in group(i) /\ Head(h) \in group(k)
      BY <1>3, <3>1
    <3>3. segments[i].language = segments[k].language
      BY <2>3, <3>2
    <3>4. group(i) = group(k)
      BY <3>3
    <3> QED BY <3>1, <3>4
  <2> HIDE DEF groups, key
  <2> QED BY <2>1, <2>2, <2>3 DEF HasKeys
<1>5. \A g \in groups : IsGroup(segments, g)
  BY <1>3
<1>6. \A i \in D : positions(i) \in groups
  OBVIOUS
<1> HIDE DEF groups, key
<1>7. /\ gs \in Seq(groups) /\ DOMAIN gs = 1..Len(gs)
      /\ \A x \in groups : \E r \in DOMAIN gs : gs[r] = x
  BY <1>1, <1>4, InOrderSorts
<1>8. \A k \in DOMAIN gs : gs[k] \in groups
  BY <1>7
<1>9. gs \in Seq(Seq(Nat))
  <2>1. groups \subseteq Seq(Nat)
    BY <1>5 DEF IsGroup
  <2> QED BY <1>7, <2>1, SeqMonotonic
<1>10. ASSUME NEW i \in D
       PROVE  \E k \in DOMAIN gs : \E a \in DOMAIN gs[k] : gs[k][a] = i
  <2>1. PICK k \in DOMAIN gs : gs[k] = positions(i)
    BY <1>6, <1>7
  <2>2. i \in group(i)
    OBVIOUS
  <2>3. \E a \in DOMAIN positions(i) : positions(i)[a] = i
    BY <1>3, <2>2
  <2> HIDE DEF positions
  <2> QED BY <2>1, <2>3
<1> QED BY <1>5, <1>8, <1>9, <1>10 DEF D

-----------------------------------------------------------------------------
(* Batches.                                                                 *)

LEMMA TotalCharsAppend ==
  ASSUME NEW segments \in Seq(Segments), NEW batch \in Seq(DOMAIN segments), NEW i \in DOMAIN segments
  PROVE  /\ TotalChars(segments, batch) \in Nat
         /\ TotalChars(segments, Append(batch, i))
              = TotalChars(segments, batch) + Chars[segments[i].text]
<1> DEFINE D == DOMAIN segments
           n == Len(batch)
           longer == Append(batch, i)
           f == [b \in DOMAIN batch |-> Chars[segments[batch[b]].text]]
           g == [b \in DOMAIN longer |-> Chars[segments[longer[b]].text]]
<1>1. \A k \in D : Chars[segments[k].text] \in Nat
  <2>1. \A k \in D : segments[k] \in Segments
    BY LenProperties
  <2>2. \A k \in D : segments[k].text \in Texts
    BY <2>1 DEF Segments
  <2> QED BY <2>2, TranscriptsAssumption
<1> HIDE DEF D
<1>2. n \in Nat /\ DOMAIN batch = 1..n /\ IsFiniteSet(1..n) /\ \A b \in 1..n : batch[b] \in D
  <2>1. n \in Nat /\ DOMAIN batch = 1..n /\ \A b \in 1..n : batch[b] \in D
    BY LenProperties DEF D
  <2> HIDE DEF n
  <2> QED BY <2>1, FS_Interval
<1>3. /\ DOMAIN longer = 1..(n + 1) /\ longer[n + 1] = i
      /\ \A b \in 1..n : longer[b] = batch[b]
  <2>1. /\ longer \in Seq(D) /\ Len(longer) = n + 1 /\ longer[n + 1] = i
        /\ \A b \in 1..n : longer[b] = batch[b]
    BY AppendProperties DEF D
  <2> HIDE DEF longer, n
  <2> QED BY <2>1
<1> HIDE DEF n, longer
<1>4. /\ \A b \in 1..n : f[b] = Chars[segments[batch[b]].text] /\ g[b] = f[b] /\ g[b] \in Nat
      /\ g[n + 1] = Chars[segments[i].text] /\ g[n + 1] \in Nat
  BY <1>1, <1>2, <1>3 DEF D
<1>5. TotalChars(segments, batch) = SumFunctionOnSet(f, 1..n)
  BY <1>2 DEF TotalChars
<1>6. TotalChars(segments, longer) = SumFunctionOnSet(g, 1..(n + 1))
  BY <1>3 DEF TotalChars
<1> HIDE DEF f, g
<1>7. SumFunctionOnSet(f, 1..n) \in Nat
  BY <1>2, <1>4, SumNat
<1>8. SumFunctionOnSet(f, 1..n) = SumFunctionOnSet(g, 1..n)
  BY <1>2, <1>4, SumSame
<1>9. SumFunctionOnSet(g, 1..(n + 1)) = SumFunctionOnSet(g, 1..n) + g[n + 1]
  <2>1. PICK S, e : S = 1..n /\ e = n + 1
    OBVIOUS
  <2>2. 1..(n + 1) = S \cup {e} /\ e \notin S /\ IsFiniteSet(S)
    BY <1>2, <2>1
  <2>3. \A x \in S \cup {e} : g[x] \in Nat
    BY <1>4, <2>1
  <2>4. SumFunctionOnSet(g, S \cup {e}) = SumFunctionOnSet(g, S) + g[e]
    BY ONLY <2>2, <2>3, SumAdd
  <2> QED BY <2>1, <2>2, <2>4, Zenon
<1> QED BY <1>4, <1>5, <1>6, <1>7, <1>8, <1>9 DEF longer

\* The batches are what comes in group after position from, up to to, in order.
Cuts(batches, group, from, to) ==
  \E o \in [1..(Len(batches) + 1) -> 0..to] :
    /\ o[1] = from /\ o[Len(batches) + 1] = to
    /\ \A k \in 1..Len(batches) :
         /\ o[k + 1] = o[k] + Len(batches[k])
         /\ \A b \in 1..Len(batches[k]) : batches[k][b] = group[o[k] + b]

WithinLimits(segments, batch) ==
  /\ Len(batch) \in 1..MaxItems
  /\ Len(batch) = 1 \/ TotalChars(segments, batch) <= MaxChars

\* What makeBatches has made of the first n positions.
Made(segments, group, n, batches) ==
  /\ batches \in Seq(Seq(DOMAIN segments))
  /\ Cuts(batches, group, 0, n)
  /\ \A k \in DOMAIN batches : WithinLimits(segments, batches[k])

LEMMA NoneMade == ASSUME NEW segments, NEW group PROVE Made(segments, group, 0, <<>>)
<1> DEFINE o == [m \in 1..1 |-> 0]
<1>1. /\ o \in [1..(Len(<<>>) + 1) -> 0..0] /\ o[1] = 0 /\ o[Len(<<>>) + 1] = 0
      /\ 1..Len(<<>>) = {}
  OBVIOUS
<1> HIDE DEF o
<1>2. Cuts(<<>>, group, 0, 0)
  BY <1>1, Zenon DEF Cuts
<1> QED BY <1>2 DEF Made

LEMMA PutMakes ==
  ASSUME NEW segments \in Seq(Segments), NEW group \in Seq(DOMAIN segments),
         NEW n \in 1..Len(group), NEW batches, Made(segments, group, n - 1, batches)
  PROVE  Made(segments, group, n, Put(segments, batches, group[n]))
<1> DEFINE D == DOMAIN segments
           i == group[n]
           L == Len(batches)
           put == Put(segments, batches, i)
<1>1. /\ batches \in Seq(Seq(D)) /\ L \in Nat /\ DOMAIN batches = 1..L /\ i \in D /\ n \in Nat
      /\ \A k \in 1..L : batches[k] \in Seq(D) /\ Len(batches[k]) \in Nat
  BY LenProperties DEF Made
<1>2. /\ MaxItems \in Nat /\ MaxItems > 0 /\ MaxChars \in Nat /\ Chars[segments[i].text] \in Nat
  <2>1. segments[i] \in Segments
    BY <1>1, LenProperties
  <2>2. segments[i].text \in Texts
    BY <2>1 DEF Segments
  <2> QED BY <2>2, TranscriptsAssumption
<1>3. PICK o \in [1..(L + 1) -> 0..(n - 1)] :
        /\ o[1] = 0 /\ o[L + 1] = n - 1
        /\ \A k \in 1..L : /\ o[k + 1] = o[k] + Len(batches[k])
                           /\ \A b \in 1..Len(batches[k]) : batches[k][b] = group[o[k] + b]
  BY Zenon DEF Made, Cuts
<1>4. \A k \in 1..L : WithinLimits(segments, batches[k])
  BY <1>1 DEF Made
<1>0. L \in Nat /\ n \in Nat /\ n > 0
  BY <1>1
<1> HIDE DEF D, L
<1>5. CASE put = Append(batches, <<i>>)
  <2>1. /\ put \in Seq(Seq(D)) /\ Len(put) = L + 1 /\ put[L + 1] = <<i>>
        /\ \A k \in 1..L : put[k] = batches[k]
    <3>1. <<i>> \in Seq(D)
      BY <1>1
    <3> HIDE DEF i
    <3> QED BY <1>1, <1>5, <3>1, AppendProperties DEF L
  <2>2. \A k \in DOMAIN put : WithinLimits(segments, put[k])
    <3>1. WithinLimits(segments, <<i>>)
      BY <1>2 DEF WithinLimits
    <3>2. DOMAIN put = 1..(L + 1)
      BY <1>1, <2>1, LenProperties
    <3>3. \A k \in DOMAIN put : k \in 1..L \/ k = L + 1
      BY ONLY <1>0, <3>2, SMTT(30)
    <3> HIDE DEF put, i
    <3> QED BY <1>4, <2>1, <3>1, <3>3
  <2>3. Cuts(put, group, 0, n)
    <3> DEFINE q == [m \in 1..(L + 2) |-> IF m = L + 2 THEN n ELSE o[m]]
    <3> HIDE DEF put
    <3>1. q \in [1..(Len(put) + 1) -> 0..n] /\ q[1] = 0 /\ q[Len(put) + 1] = n
      BY <1>1, <1>3, <2>1, SMTT(30)
    <3>3. q[L + 2] = n /\ \A m \in 1..(L + 1) : q[m] = o[m]
      BY ONLY <1>0
    <3> HIDE DEF q
    <3>2. ASSUME NEW k \in 1..Len(put)
          PROVE  /\ q[k + 1] = q[k] + Len(put[k])
                 /\ \A b \in 1..Len(put[k]) : put[k][b] = group[q[k] + b]
      <4>1. CASE k \in 1..L
        <5>1. q[k] = o[k] /\ q[k + 1] = o[k + 1]
          BY ONLY <1>0, <3>3, <4>1, SMTT(30)
        <5>2. put[k] = batches[k]
          BY <2>1, <4>1
        <5> QED BY ONLY <1>3, <4>1, <5>1, <5>2
      <4>2. CASE k = L + 1
        <5>1. q[k] = n - 1 /\ q[k + 1] = n
          BY ONLY <1>0, <1>3, <3>3, <4>2
        <5>2. put[k] = <<group[n]>>
          BY <2>1, <4>2
        <5> QED BY ONLY <1>0, <5>1, <5>2, SMTT(30)
      <4> QED BY ONLY <1>0, <2>1, <4>1, <4>2
    <3> QED BY <3>1, <3>2 DEF Cuts
  <2> QED BY <2>1, <2>2, <2>3 DEF Made, D
<1>6. CASE put # Append(batches, <<i>>)
  <2> DEFINE last == batches[L]
             longer == Append(last, i)
  <2>1. batches # <<>> /\ ~Full(segments, last, i) /\ put = [batches EXCEPT ![L] = Append(@, i)]
    BY <1>6 DEF Put, Last, L
  <2>2. L \in 1..L
    BY <1>1, <2>1 DEF L
  <2>3. last \in Seq(D) /\ Len(last) \in Nat
    BY <1>1, <2>2
  <2>4. /\ longer \in Seq(D) /\ Len(longer) = Len(last) + 1 /\ longer[Len(last) + 1] = i
        /\ \A b \in 1..Len(last) : longer[b] = last[b]
    <3> HIDE DEF last, i
    <3> QED BY <1>1, <2>3, AppendProperties
  <2>5. /\ TotalChars(segments, last) \in Nat
        /\ TotalChars(segments, longer) = TotalChars(segments, last) + Chars[segments[i].text]
    <3> HIDE DEF last, i
    <3> QED BY <1>1, <2>3, TotalCharsAppend DEF D
  <2>6. WithinLimits(segments, longer)
    <3>1. Len(last) < MaxItems /\ TotalChars(segments, longer) <= MaxChars
      <4>1. /\ ~(TotalChars(segments, last) + Chars[segments[i].text] > MaxChars)
            /\ ~(Len(last) >= MaxItems)
        BY <2>1 DEF Full
      <4> HIDE DEF last, i, longer
      <4> QED BY ONLY <1>2, <2>3, <2>5, <4>1, SMTT(30)
    <3> HIDE DEF last, longer
    <3> QED BY <1>2, <2>3, <2>4, <3>1 DEF WithinLimits
  <2>7. /\ put \in Seq(Seq(D)) /\ Len(put) = L /\ put[L] = longer
        /\ \A k \in 1..L : k # L => put[k] = batches[k]
    <3> HIDE DEF longer, put
    <3>1. put = [batches EXCEPT ![L] = longer]
      BY <2>1 DEF longer
    <3> QED BY <1>1, <2>2, <2>4, <3>1, ExceptSeq DEF L
  <2>8. \A k \in DOMAIN put : WithinLimits(segments, put[k])
    <3>1. DOMAIN put = 1..L
      BY <1>1, <2>7, LenProperties
    <3> HIDE DEF put, longer
    <3> QED BY <1>4, <2>6, <2>7, <3>1
  <2>9. Cuts(put, group, 0, n)
    <3> DEFINE q == [o EXCEPT ![L + 1] = n]
    <3> HIDE DEF put, longer
    <3>1. q \in [1..(Len(put) + 1) -> 0..n] /\ q[1] = 0 /\ q[Len(put) + 1] = n
      <4>1. Len(put) = L
        BY <2>7
      <4> QED BY ONLY <1>0, <1>3, <2>2, <4>1
    <3>3. q[L + 1] = n /\ \A m \in 1..L : q[m] = o[m]
      BY ONLY <1>0, <1>3
    <3> HIDE DEF q
    <3>2. ASSUME NEW k \in 1..Len(put)
          PROVE  /\ q[k + 1] = q[k] + Len(put[k])
                 /\ \A b \in 1..Len(put[k]) : put[k][b] = group[q[k] + b]
      <4>1. CASE k # L
        <5>1. k \in 1..L /\ put[k] = batches[k]
          BY <2>7, <4>1
        <5>2. k \in 1..L /\ k + 1 \in 1..L
          BY ONLY <1>0, <4>1, <5>1, SMTT(30)
        <5>3. q[k] = o[k] /\ q[k + 1] = o[k + 1]
          BY ONLY <3>3, <5>2
        <5> QED BY ONLY <1>3, <5>1, <5>3
      <4>2. CASE k = L
        <5>1. q[k] = o[L] /\ q[k + 1] = n /\ o[L] \in Nat
          BY ONLY <1>0, <1>3, <2>2, <3>3, <4>2
        <5>0. put[k] = longer
          BY <2>7, <4>2
        <5>2. n - 1 = o[L] + Len(last)
          BY <1>3, <2>2
        <5>3. Len(longer) = Len(last) + 1 /\ n = o[L] + Len(longer)
          <6>1. PICK x, y, z : x = Len(last) /\ y = Len(longer) /\ z = o[L]
            OBVIOUS
          <6>2. x \in Nat /\ y = x + 1 /\ z \in Nat /\ n - 1 = z + x
            BY <2>3, <2>4, <5>1, <5>2, <6>1
          <6>3. n = z + y
            BY ONLY <1>0, <6>2
          <6> QED BY <6>1, <6>2, <6>3
        <5>4. ASSUME NEW b \in 1..Len(longer) PROVE longer[b] = group[o[L] + b]
          <6>1. CASE b \in 1..Len(last)
            BY <1>3, <2>2, <2>4, <6>1
          <6>2. CASE b = Len(last) + 1
            <7>1. o[L] + b = n
              BY <5>3, <6>2
            <7> QED BY <2>4, <6>2, <7>1
          <6>3. b \in 1..Len(last) \/ b = Len(last) + 1
            <7> HIDE DEF last
            <7> QED BY ONLY <2>3, <5>3
          <6> QED BY <6>1, <6>2, <6>3
        <5> QED BY <5>0, <5>1, <5>3, <5>4
      <4> QED BY <4>1, <4>2
    <3> QED BY <3>1, <3>2 DEF Cuts
  <2> QED BY <2>7, <2>8, <2>9 DEF Made, D
<1> QED BY <1>5, <1>6

\* makeBatches asks for every position of a group once, in order, within the limits.
LEMMA MakeBatches ==
  ASSUME NEW segments \in Seq(Segments), NEW group \in Seq(DOMAIN segments)
  PROVE  Made(segments, group, Len(group), makeBatches(segments, group))
<1> DEFINE D == DOMAIN segments
           N == Len(group)
           V == Seq(Seq(D))
           IsMaking(f) == f = [n \in 0..N |-> IF n = 0 THEN <<>> ELSE Put(segments, f[n - 1], group[n])]
           upTo == CHOOSE f : IsMaking(f)
           next == [p \in V \X (1..N) |-> Put(segments, p[1], group[p[2]])]
           M(n) == Made(segments, group, n, upTo[n])
<1>1. N \in Nat /\ \A n \in 1..N : group[n] \in D
  BY LenProperties
<1>2. makeBatches(segments, group) = upTo[N]
  BY Zenon DEF makeBatches
<1> HIDE DEF D, N
<1>3. \A bs \in V, i \in D : Put(segments, bs, i) \in V
  <2> SUFFICES ASSUME NEW bs \in V, NEW i \in D PROVE Put(segments, bs, i) \in V
    OBVIOUS
  <2>1. <<i>> \in Seq(D)
    OBVIOUS
  <2>2. CASE bs = <<>>
    BY <2>1, <2>2 DEF Put
  <2>3. CASE bs # <<>>
    <3>1. Len(bs) \in 1..Len(bs) /\ bs[Len(bs)] \in Seq(D)
      BY <2>3, EmptySeq, ElementOfSeq
    <3>2. Append(bs, <<i>>) \in V /\ Append(bs[Len(bs)], i) \in Seq(D)
      BY <2>1, <3>1
    <3>3. [bs EXCEPT ![Len(bs)] = Append(bs[Len(bs)], i)] \in V
      BY <3>1, <3>2, ExceptSeq
    <3> QED BY <3>2, <3>3 DEF Put
  <2> QED BY <2>2, <2>3
<1>4. next \in [V \X (1..N) -> V]
  <2> HIDE DEF V
  <2> QED BY <1>1, <1>3
<1>5. PICK f : Follows(f, V, <<>>, next, N)
  <2>1. <<>> \in V
    OBVIOUS
  <2> HIDE DEF next, V
  <2> QED BY <1>1, <1>4, <2>1, Recursion
<1>6. IsMaking(f)
  <2>1. f \in [0..N -> V] /\ f[0] = <<>> /\ \A n \in 1..N : f[n] = next[<<f[n - 1], n>>]
    BY <1>5 DEF Follows
  <2> HIDE DEF V
  <2>2. ASSUME NEW n \in 1..N PROVE f[n] = Put(segments, f[n - 1], group[n])
    <3>1. f[n - 1] \in V
      BY <1>1, <2>1
    <3> QED BY <2>1, <3>1
  <2> HIDE DEF next
  <2>3. \A n \in 0..N : f[n] = IF n = 0 THEN <<>> ELSE Put(segments, f[n - 1], group[n])
    BY <1>1, <2>1, <2>2
  <2> QED BY <2>1, <2>3
<1>7. IsMaking(upTo)
  <2> HIDE DEF IsMaking
  <2> QED BY <1>6
<1>8. /\ upTo[0] = <<>>
      /\ \A n \in 1..N : upTo[n] = Put(segments, upTo[n - 1], group[n])
  <2> DEFINE u == upTo
  <2>1. u = [n \in 0..N |-> IF n = 0 THEN <<>> ELSE Put(segments, u[n - 1], group[n])]
    BY <1>7
  <2> HIDE DEF u
  <2>2. u[0] = <<>> /\ \A n \in 1..N : u[n] = Put(segments, u[n - 1], group[n])
    BY <1>1, <2>1
  <2> QED BY <2>2 DEF u
<1> HIDE DEF upTo, next, V
<1> DEFINE Bad == {n \in 0..N : ~M(n)}
<1>9. SUFFICES ASSUME Bad # {} PROVE FALSE
  <2>1. N \in 0..N
    BY <1>1
  <2>2. M(N)
    BY <1>9, <2>1
  <2> QED BY <1>2, <2>2 DEF N
<1>10. PICK n \in Bad : \A m \in Nat : m < n => m \notin Bad
  <2>1. Bad \in SUBSET Nat
    OBVIOUS
  <2> HIDE DEF Bad
  <2> QED BY <1>9, <2>1, Least
<1>11. n \in 0..N /\ ~M(n)
  OBVIOUS
<1>12. n # 0
  BY <1>8, <1>11, NoneMade
<1>13. n \in 1..N /\ n - 1 \in 0..N /\ n - 1 < n /\ n - 1 \in Nat
  BY <1>1, <1>11, <1>12
<1>14. M(n - 1)
  BY <1>10, <1>13
<1>15. M(n)
  <2>1. n \in 1..Len(group)
    BY <1>13 DEF N
  <2>2. Made(segments, group, n, Put(segments, upTo[n - 1], group[n]))
    BY <1>14, <2>1, PutMakes
  <2> QED BY <1>8, <1>13, <2>2
<1> QED BY <1>11, <1>15

\* Once the first batch is done, the others go on from where it ended.
LEMMA CutsTail ==
  ASSUME NEW batches \in Seq(Seq(Nat)), batches # <<>>, NEW group, NEW from, NEW to \in Nat,
         Cuts(batches, group, from, to)
  PROVE  /\ Cuts(Tail(batches), group, from + Len(Head(batches)), to)
         /\ from \in Nat /\ from + Len(Head(batches)) <= to
         /\ \A b \in 1..Len(Head(batches)) : Head(batches)[b] = group[from + b]
<1> DEFINE L == Len(batches)
           rest == Tail(batches)
           l == Len(Head(batches))
<1>1. PICK o \in [1..(L + 1) -> 0..to] :
        /\ o[1] = from /\ o[L + 1] = to
        /\ \A k \in 1..L : /\ o[k + 1] = o[k] + Len(batches[k])
                           /\ \A b \in 1..Len(batches[k]) : batches[k][b] = group[o[k] + b]
  BY Zenon DEF Cuts
<1>2. /\ L \in Nat /\ L > 0 /\ Head(batches) = batches[1]
      /\ Len(rest) = L - 1 /\ \A k \in 1..(L - 1) : rest[k] = batches[k + 1]
  BY HeadTailProperties, EmptySeq
<1> HIDE DEF L
<1>3. 1 \in 1..L /\ 2 \in 1..(L + 1)
  BY <1>2
<1>4. /\ o[2] = from + l /\ from \in Nat /\ from + l <= to
      /\ \A b \in 1..l : Head(batches)[b] = group[from + b]
  BY <1>1, <1>2, <1>3
<1> DEFINE q == [m \in 1..L |-> o[m + 1]]
<1>5. DOMAIN q = 1..L /\ q = [m \in 1..L |-> q[m]] /\ \A m \in 1..L : q[m] = o[m + 1]
  OBVIOUS
<1> HIDE DEF q, l, rest
<1>6. q \in [1..(Len(rest) + 1) -> 0..to] /\ q[1] = from + l /\ q[Len(rest) + 1] = to
  <2>1. Len(rest) + 1 = L /\ 1 \in 1..L /\ L \in 1..L /\ \A m \in 1..L : m + 1 \in 1..(L + 1)
    BY <1>2
  <2>2. \A m \in 1..L : q[m] \in 0..to
    BY <1>1, <1>5, <2>1
  <2>3. q[1] = from + l /\ q[L] = to
    <3>1. q[1] = o[2] /\ q[L] = o[L + 1]
      <4>1. 1 \in 1..L /\ L \in 1..L /\ 1 + 1 = 2
        BY <2>1
      <4>2. q[1] = o[1 + 1] /\ q[L] = o[L + 1]
        BY ONLY <1>5, <4>1
      <4> QED BY <4>1, <4>2, Zenon
    <3> QED BY <1>1, <1>4, <3>1
  <2> QED BY <1>5, <2>1, <2>2, <2>3
<1>7. ASSUME NEW k \in 1..Len(rest)
      PROVE  /\ q[k + 1] = q[k] + Len(rest[k])
             /\ \A b \in 1..Len(rest[k]) : rest[k][b] = group[q[k] + b]
  <2>1. k \in 1..(L - 1) /\ k \in 1..L /\ k + 1 \in 1..L
    BY <1>2
  <2>2. q[k] = o[k + 1] /\ q[k + 1] = o[(k + 1) + 1] /\ rest[k] = batches[k + 1]
    BY <1>2, <1>5, <2>1
  <2> QED BY <1>1, <2>1, <2>2
<1>8. Cuts(rest, group, from + l, to)
  BY <1>6, <1>7 DEF Cuts
<1> QED BY <1>4, <1>8 DEF l, rest

\* Put together, the batches are the rest of the group.
LEMMA CutsFlatten ==
  ASSUME NEW batches \in Seq(Seq(Nat)), NEW group \in Seq(Nat), NEW from,
         Cuts(batches, group, from, Len(group))
  PROVE  FlattenSeq(batches) = SubSeq(group, from + 1, Len(group))
<1> DEFINE L == Len(batches)
           G == Len(group)
<1>1. PICK o \in [1..(L + 1) -> 0..G] :
        /\ o[1] = from /\ o[L + 1] = G
        /\ \A k \in 1..L : /\ o[k + 1] = o[k] + Len(batches[k])
                           /\ \A b \in 1..Len(batches[k]) : batches[k][b] = group[o[k] + b]
  BY Zenon DEF Cuts
<1>2. /\ L \in Nat /\ G \in Nat /\ \A k \in 1..L : batches[k] \in Seq(Nat)
      /\ \A i \in 1..G : group[i] \in Nat
  BY LenProperties
<1>3. CASE L = 0
  <2>1. batches = <<>> /\ from = G
    BY <1>1, <1>3, EmptySeq
  <2>2. FlattenSeq(batches) = <<>>
    BY <1>3, <2>1 DEF FlattenSeq
  <2>3. SubSeq(group, from + 1, G) = <<>>
    <3>1. from + 1 \in Int /\ G \in Int /\ G < from + 1
      BY <1>2, <2>1
    <3> QED BY <3>1, SubSeqEmpty
  <2> QED BY <2>2, <2>3
<1>4. CASE L # 0
  <2> DEFINE IsFlat(f) == f = [i \in 1..L |-> IF i = 1 THEN batches[i] ELSE f[i - 1] \o batches[i]]
             flat == CHOOSE f : IsFlat(f)
             next == [p \in Seq(Nat) \X (1..L) |-> p[1] \o batches[p[2]]]
  <2>1. FlattenSeq(batches) = flat[L]
    BY <1>4, Zenon DEF FlattenSeq
  <2> HIDE DEF L, G
  <2>2. PICK g : Follows(g, Seq(Nat), <<>>, next, L)
    <3>1. next \in [Seq(Nat) \X (1..L) -> Seq(Nat)] /\ <<>> \in Seq(Nat)
      BY <1>2
    <3> HIDE DEF next
    <3> QED BY <1>2, <3>1, Recursion
  <2>3. IsFlat([i \in 1..L |-> g[i]])
    <3> DEFINE f == [i \in 1..L |-> g[i]]
    <3>1. g \in [0..L -> Seq(Nat)] /\ g[0] = <<>> /\ \A n \in 1..L : g[n] = next[<<g[n - 1], n>>]
      BY <2>2 DEF Follows
    <3>2. ASSUME NEW n \in 1..L PROVE g[n - 1] \in Seq(Nat) /\ g[n] = g[n - 1] \o batches[n]
      <4>1. n - 1 \in 0..L
        BY <1>2
      <4>2. g[n - 1] \in Seq(Nat)
        BY <3>1, <4>1
      <4> QED BY <3>1, <4>2
    <3>3. 1 \in 1..L => g[1] = batches[1]
      <4>1. SUFFICES ASSUME 1 \in 1..L PROVE g[1] = batches[1]
        OBVIOUS
      <4>2. g[1] = g[0] \o batches[1]
        <5>1. g[1] = g[1 - 1] \o batches[1]
          BY <3>2, <4>1, Zenon
        <5>2. 1 - 1 = 0
          OBVIOUS
        <5> QED BY <5>1, <5>2, Zenon
      <4>3. batches[1] \in Seq(Nat) /\ g[0] = <<>>
        BY <1>2, <3>1, <4>1
      <4> QED BY <4>2, <4>3, ConcatEmptySeq
    <3>4. \A i \in 1..L : i # 1 => i - 1 \in 1..L
      BY <1>2
    <3>5. \A i \in 1..L : f[i] = IF i = 1 THEN batches[i] ELSE f[i - 1] \o batches[i]
      BY <3>2, <3>3, <3>4
    <3> QED BY <3>5
  <2>4. IsFlat(flat)
    <3> HIDE DEF IsFlat
    <3> QED BY <2>3
  <2>5. \A i \in 1..L : flat[i] = IF i = 1 THEN batches[i] ELSE flat[i - 1] \o batches[i]
    <3> DEFINE u == flat
    <3>1. u = [i \in 1..L |-> IF i = 1 THEN batches[i] ELSE u[i - 1] \o batches[i]]
      BY <2>4
    <3> HIDE DEF u
    <3>2. \A i \in 1..L : u[i] = IF i = 1 THEN batches[i] ELSE u[i - 1] \o batches[i]
      BY <3>1
    <3> QED BY <3>2 DEF u
  <2> HIDE DEF flat, next
  <2>6. ASSUME NEW k \in 1..L
        PROVE  batches[k] = SubSeq(group, o[k] + 1, o[k + 1]) /\ o[k] <= o[k + 1]
    <3>1. /\ o[k] \in 0..G /\ o[k + 1] \in 0..G /\ Len(batches[k]) \in Nat
          /\ o[k + 1] = o[k] + Len(batches[k])
      BY <1>1, <1>2
    <3>2. PICK x, y, s : x = o[k] /\ y = o[k + 1] /\ s = batches[k]
      OBVIOUS
    <3>3. /\ s \in Seq(Nat) /\ x \in Nat /\ y \in Nat /\ y <= G /\ y = x + Len(s) /\ Len(s) \in Nat
          /\ \A b \in 1..Len(s) : s[b] = group[x + b]
      BY <1>1, <1>2, <3>1, <3>2
    <3> DEFINE t == SubSeq(group, x + 1, y)
    <3>4. /\ t \in Seq(Nat) /\ Len(t) = IF x + 1 <= y THEN y - (x + 1) + 1 ELSE 0
          /\ \A i \in 1..(y - (x + 1) + 1) : t[i] = group[(x + 1) + i - 1]
      <4>1. x + 1 \in Int /\ y \in Int /\ \A i \in (x + 1)..y : group[i] \in Nat
        BY <1>2, <3>3
      <4> QED BY ONLY <4>1, SubSeqProperties
    <3> HIDE DEF t
    <3>5. Len(t) = Len(s) /\ \A i \in 1..Len(s) : t[i] = group[x + i]
      BY ONLY <3>3, <3>4
    <3>6. s = t
      BY ONLY <3>3, <3>4, <3>5, SeqEqual
    <3>7. x <= y
      BY ONLY <3>3
    <3> QED BY <3>2, <3>6, <3>7, Zenon DEF t
  <2> DEFINE M(i) == flat[i] = SubSeq(group, from + 1, o[i + 1]) /\ from <= o[i + 1]
             Bad == {i \in 1..L : ~M(i)}
  <2>7. SUFFICES ASSUME Bad # {} PROVE FALSE
    <3>1. L \in 1..L
      BY <1>2, <1>4
    <3>2. M(L)
      BY <2>7, <3>1
    <3> QED BY <1>1, <2>1, <3>2 DEF G
  <2>8. PICK i \in Bad : \A m \in Nat : m < i => m \notin Bad
    <3>1. Bad \in SUBSET Nat
      OBVIOUS
    <3> HIDE DEF Bad
    <3> QED BY <2>7, <3>1, Least
  <2>9. i \in 1..L /\ ~M(i)
    OBVIOUS
  <2>10. CASE i = 1
    BY <1>1, <2>5, <2>6, <2>9, <2>10
  <2>11. CASE i # 1
    <3>1. i - 1 \in 1..L /\ i - 1 < i /\ i - 1 \in Nat /\ (i - 1) + 1 = i
      BY <1>2, <2>9, <2>11
    <3>2. M(i - 1)
      BY <2>8, <3>1
    <3>3. flat[i - 1] = SubSeq(group, from + 1, o[i]) /\ from <= o[i]
      BY <3>1, <3>2
    <3>4. flat[i] = flat[i - 1] \o batches[i]
      BY <2>5, <2>9, <2>11
    <3>5. batches[i] = SubSeq(group, o[i] + 1, o[i + 1]) /\ o[i] <= o[i + 1]
      BY <2>6, <2>9
    <3>6. from \in 0..G /\ o[i] \in 0..G /\ o[i + 1] \in 0..G
      BY <1>1, <1>2, <2>9
    <3>7. SubSeq(group, from + 1, o[i]) \o SubSeq(group, o[i] + 1, o[i + 1])
            = SubSeq(group, from + 1, o[i + 1])
      <4>1. from + 1 \in 1..(Len(group) + 1) /\ o[i] \in ((from + 1) - 1)..Len(group)
            /\ o[i + 1] \in o[i]..Len(group)
        BY <1>2, <3>3, <3>5, <3>6 DEF G
      <4> QED BY <4>1, ConcatAdjacentSubSeq
    <3>8. M(i)
      <4>1. from <= o[i + 1]
        BY ONLY <1>2, <3>3, <3>5, <3>6
      <4>2. flat[i] = SubSeq(group, from + 1, o[i + 1])
        BY <3>3, <3>4, <3>5, <3>7, Zenon
      <4> QED BY <4>1, <4>2
    <3> QED BY <2>9, <3>8
  <2> QED BY <2>10, <2>11
<1> QED BY <1>3, <1>4

-----------------------------------------------------------------------------
(* The inductive invariant.  Of what translateAll has in hand: a position   *)
(* without a result is still in a group, past the batches done of the first *)
(* one; a position with a result has that of its own segment, with a        *)
(* translated text just when it asked for one; and the batches are the rest *)
(* of the first group.  Of the rows: they are what was recorded or posted,  *)
(* in one language, with texts of one request.  And what a call has read is *)
(* what the rows are as long as they are there.                            *)

Running(p) == step[p] \in {"group", "batch"}

\* Positions of the k-th group that have been asked for.
Behind(p, k) == IF step[p] = "batch" /\ k = 1 THEN work[p].groupDone ELSE 0
Waiting(p, i) ==
  LET groups == work[p].groups IN
  \E k \in DOMAIN groups : \E a \in DOMAIN groups[k] : a > Behind(p, k) /\ groups[k][a] = i

Settled(w, i) ==
  /\ InPlace(w.results[i], w.segments[i])
  /\ w.translateSub =>
       (w.results[i].translatedText = None <=> SameLanguage(w.segments[i].language, w.target))

\* An original text is of the line of the text.
Original(s) == s.originalText = None \/ s.originalText.line = s.text.line

BatchesOK(w) ==
  /\ w.groups # <<>>
  /\ Cuts(w.batches, Head(w.groups), w.groupDone, Len(Head(w.groups)))
  /\ \A k \in DOMAIN w.batches : WithinLimits(w.segments, w.batches[k])
  /\ ~SameLanguage(w.segments[Head(Head(w.groups))].language, w.target)

RunOK(p) ==
  /\ ~Running(p) => work[p] = NoWork
  /\ Running(p) =>
       /\ work[p].target \in Languages
       /\ \A k \in DOMAIN work[p].groups : IsGroup(work[p].segments, work[p].groups[k])
       /\ \A i \in DOMAIN work[p].segments :
            /\ Original(work[p].segments[i])
            /\ work[p].results[i] = None => Waiting(p, i)
            /\ work[p].results[i] # None => Settled(work[p], i)
  /\ step[p] = "batch" => BatchesOK(work[p])

\* A row as mapSegment gives it.
AsRead(row) ==
  [segmentId |-> row.segmentId, startTime |-> row.startTime, endTime |-> row.endTime,
   text |-> row.text, originalText |-> row.originalText, language |-> row.language]
ReadFrom(segments, rows) ==
  /\ \A i \in DOMAIN rows : \E k \in DOMAIN segments : segments[k] = AsRead(rows[i])
  /\ \A k \in DOMAIN segments : \E i \in DOMAIN rows : segments[k] = AsRead(rows[i])

CallbackOK(j) == Running(j) => work[j].segments = Recorded[j] /\ ~work[j].translateSub
CallOK(c) ==
  Running(c) =>
    /\ work[c].translateSub /\ about[c] \in 1..created
    /\ transcription[about[c]] # None =>
         ReadFrom(work[c].segments, transcription[about[c]].segments)

Stored(rows, source) ==
  /\ Len(rows) = Len(source)
  /\ \A i \in DOMAIN rows : InPlace(rows[i], source[i])
  /\ \A i, k \in DOMAIN rows :
       /\ i # k => rows[i].segmentId # rows[k].segmentId
       /\ rows[i].language = rows[k].language
       /\ rows[i].translatedBy = rows[k].translatedBy
RowsOK(t) == transcription[t] # None => Stored(transcription[t].segments, Source(t))

IInv ==
  /\ TypeOK
  /\ \A p \in Runs : RunOK(p)
  /\ \A j \in Jobs : CallbackOK(j)
  /\ \A c \in Calls : CallOK(c)
  /\ \A t \in Ids : RowsOK(t)

LEMMA LinesFromInv == IInv => LinesStayInPlace
<1> SUFFICES ASSUME IInv PROVE LinesStayInPlace
  OBVIOUS
<1>1. ASSUME NEW p \in Runs, Translated(p), NEW i \in DOMAIN work[p].segments
      PROVE  work[p].results[i] # None /\ InPlace(work[p].results[i], work[p].segments[i])
  <2>1. Running(p) /\ step[p] = "group" /\ DOMAIN work[p].groups = {}
    BY <1>1 DEF Translated, Running
  <2>2. ~Waiting(p, i)
    BY <2>1 DEF Waiting
  <2>3. work[p].results[i] # None /\ Settled(work[p], i)
    BY <1>1, <2>1, <2>2 DEF IInv, RunOK
  <2> QED BY <2>3 DEF Settled
<1>2. ASSUME NEW t \in Ids, transcription[t] # None
      PROVE  /\ Len(transcription[t].segments) = Len(Source(t))
             /\ \A s \in Range(Source(t)) : \E r \in Range(transcription[t].segments) : InPlace(r, s)
  <2> DEFINE rows == transcription[t].segments
             source == Source(t)
  <2>1. Stored(rows, source)
    BY <1>2 DEF IInv, RowsOK
  <2>2. rows \in Seq(Rows) /\ source \in Seq(Segments)
    <3>1. transcription[t] \in Transcriptions
      BY <1>2 DEF IInv, TypeOK
    <3>2. transcription[t].job \in Jobs /\ rows \in Seq(Rows)
      BY <3>1 DEF Transcriptions
    <3> QED BY <3>2, TranscriptsAssumption DEF Source
  <2> HIDE DEF rows, source
  <2>3. DOMAIN rows = 1..Len(rows) /\ DOMAIN source = 1..Len(source) /\ Len(rows) = Len(source)
    BY <2>1, <2>2, LenProperties DEF Stored
  <2>4. ASSUME NEW s \in Range(source) PROVE \E r \in Range(rows) : InPlace(r, s)
    <3>1. PICK i \in DOMAIN source : s = source[i]
      BY DEF Range
    <3>2. i \in DOMAIN rows /\ rows[i] \in Range(rows)
      BY <2>3 DEF Range
    <3> QED BY <2>1, <3>1, <3>2 DEF Stored
  <2> QED BY <2>3, <2>4 DEF rows, source
<1> QED BY <1>1, <1>2, Zenon DEF LinesStayInPlace

LEMMA OneFromInv == IInv => OneTranslation
<1> SUFFICES ASSUME IInv, NEW t \in Ids, transcription[t] # None,
                    NEW r \in Range(transcription[t].segments),
                    NEW s \in Range(transcription[t].segments)
             PROVE  r.translatedBy = s.translatedBy
  BY DEF OneTranslation
<1>1. Stored(transcription[t].segments, Source(t))
  BY DEF IInv, RowsOK
<1> QED BY <1>1 DEF Stored, Range

LEMMA FitFromInv == IInv => RequestsFit
<1> SUFFICES ASSUME IInv, NEW p \in Runs, step[p] = "batch"
             PROVE  LET w == work[p]
                        indexed == Head(w.groups)
                    IN  /\ FlattenSeq(w.batches) = SubSeq(indexed, w.groupDone + 1, Len(indexed))
                        /\ \A batch \in Range(w.batches) :
                             /\ Len(batch) \in 1..MaxItems
                             /\ ~w.translateSub =>
                                  Len(batch) = 1 \/ TotalChars(w.segments, batch) <= MaxChars
  BY Zenon DEF RequestsFit
<1> DEFINE batches == work[p].batches
           group == Head(work[p].groups)
           from == work[p].groupDone
<1>1. /\ work[p].groups # <<>> /\ Cuts(batches, group, from, Len(group))
      /\ \A k \in DOMAIN batches : WithinLimits(work[p].segments, batches[k])
  BY DEF IInv, RunOK, BatchesOK
<1>2. batches \in Seq(Seq(Nat)) /\ group \in Seq(Nat)
  BY <1>1 DEF IInv, TypeOK
<1>3. FlattenSeq(batches) = SubSeq(group, from + 1, Len(group))
  <2> HIDE DEF batches, group, from
  <2> QED BY <1>1, <1>2, CutsFlatten
<1>4. \A batch \in Range(batches) : WithinLimits(work[p].segments, batch)
  BY <1>1 DEF Range
<1> QED BY <1>3, <1>4 DEF WithinLimits

LEMMA InvInit == Init => IInv
<1> SUFFICES ASSUME Init PROVE IInv
  OBVIOUS
<1>1. TypeOK
  BY TranscriptsAssumption DEF Init, TypeOK, NoWork, findByJobId
<1>2. (\A p \in Runs : RunOK(p)) /\ (\A j \in Jobs : CallbackOK(j)) /\ (\A c \in Calls : CallOK(c))
  BY DEF Init, RunOK, Running, CallbackOK, CallOK, Runs
<1>3. \A t \in Ids : RowsOK(t)
  BY DEF Init, RowsOK
<1> QED BY <1>1, <1>2, <1>3 DEF IInv

-----------------------------------------------------------------------------
(* A step of translateAll changes what it has in hand, and nothing else.    *)

Works ==
  [segments : Seq(Segments), target : Languages \cup {None}, translateSub : BOOLEAN,
   groups : Seq(Seq(Nat)), batches : Seq(Seq(Nat)), groupDone : Nat,
   results : Seq(Results \cup {None})]

\* p goes from what it has in hand to w.
Goes(p, w, label) ==
  /\ Running(p) /\ label \in {"group", "batch"}
  /\ work' = [work EXCEPT ![p] = w] /\ step' = [step EXCEPT ![p] = label]
  /\ w \in Works /\ w.segments = work[p].segments /\ w.target = work[p].target
  /\ w.translateSub = work[p].translateSub /\ DOMAIN w.results = DOMAIN work[p].results
  /\ failures' \in 0..MaxFailures
  /\ UNCHANGED <<transcription, created, about, byClient>>

LEMMA RunKept ==
  ASSUME NEW q, RunOK(q), work'[q] = work[q], step'[q] = step[q]
  PROVE  RunOK(q)'
<1>1. (Running(q)' <=> Running(q)) /\ (step'[q] = "batch" <=> step[q] = "batch")
  BY DEF Running
<1>2. \A i : Waiting(q, i)' <=> Waiting(q, i)
  BY DEF Waiting, Behind
<1>3. /\ work'[q] = work[q]
      /\ \A i : Settled(work[q], i)' <=> Settled(work[q], i)
      /\ BatchesOK(work[q])' <=> BatchesOK(work[q])
  BY DEF Settled, BatchesOK
<1> QED BY <1>1, <1>2, <1>3 DEF RunOK

LEMMA GoesKeeps ==
  ASSUME IInv, NEW p \in Runs, NEW w, NEW label, Goes(p, w, label), RunOK(p)'
  PROVE  IInv'
<1>1. /\ work \in [Runs -> Works] /\ step \in [Runs -> {"idle", "group", "batch", "done"}]
      /\ \A q \in Runs : DOMAIN work[q].results = DOMAIN work[q].segments
  BY DEF IInv, TypeOK, Works
<1>2. /\ \A q \in Runs : q # p => work'[q] = work[q] /\ step'[q] = step[q]
      /\ work'[p] = w /\ step'[p] = label
  BY <1>1 DEF Goes
<1>3. TypeOK'
  <2>1. work' \in [Runs -> Works] /\ step' \in [Runs -> {"idle", "group", "batch", "done"}]
    BY <1>1 DEF Goes
  <2>2. \A q \in Runs : DOMAIN work'[q].results = DOMAIN work'[q].segments
    BY <1>1, <1>2 DEF Goes
  <2>3. failures' \in 0..MaxFailures /\ UNCHANGED <<transcription, created, about, byClient>>
    BY DEF Goes
  <2> QED BY <2>1, <2>2, <2>3 DEF IInv, TypeOK, Works, findByJobId
<1>4. \A q \in Runs : RunOK(q)'
  BY <1>2, RunKept DEF IInv
<1>5. \A q \in Runs : /\ Running(q)' <=> Running(q)
                      /\ work'[q].segments = work[q].segments
                      /\ work'[q].translateSub = work[q].translateSub
  BY <1>2 DEF Goes, Running
<1>6. \A j \in Jobs : CallbackOK(j)'
  BY <1>5 DEF IInv, CallbackOK, Runs
<1>7. \A c \in Calls : CallOK(c)'
  <2>1. UNCHANGED <<transcription, created, about>>
    BY DEF Goes
  <2> QED BY <1>5, <2>1 DEF IInv, CallOK, Runs
<1>8. \A t \in Ids : RowsOK(t)'
  BY DEF Goes, IInv, RowsOK, Source
<1> QED BY <1>3, <1>4, <1>6, <1>7, <1>8 DEF IInv

\* What is known of a run, by name.
LEMMA RunTypes ==
  ASSUME IInv, NEW p \in Runs
  PROVE  /\ work[p] \in Works /\ step[p] \in {"idle", "group", "batch", "done"}
         /\ DOMAIN work[p].results = DOMAIN work[p].segments
         /\ work[p].segments \in Seq(Segments)
         /\ \A i \in DOMAIN work[p].segments : work[p].segments[i] \in Segments
         /\ work[p].groups \in Seq(Seq(Nat)) /\ work[p].batches \in Seq(Seq(Nat))
         /\ work[p].groupDone \in Nat /\ work[p].results \in Seq(Results \cup {None})
         /\ failures \in 0..MaxFailures
<1>1. /\ work[p] \in Works /\ step[p] \in {"idle", "group", "batch", "done"}
      /\ DOMAIN work[p].results = DOMAIN work[p].segments /\ failures \in 0..MaxFailures
  BY DEF IInv, TypeOK, Works
<1>2. /\ work[p].segments \in Seq(Segments) /\ work[p].results \in Seq(Results \cup {None})
      /\ work[p].groups \in Seq(Seq(Nat)) /\ work[p].batches \in Seq(Seq(Nat))
      /\ work[p].groupDone \in Nat
  BY <1>1 DEF Works
<1>3. \A i \in DOMAIN work[p].segments : work[p].segments[i] \in Segments
  BY <1>2, LenProperties
<1> QED BY <1>1, <1>2, <1>3

\* A group is of positions of the segments.
LEMMA GroupPositions ==
  ASSUME NEW segments \in Seq(Segments), NEW g, IsGroup(segments, g)
  PROVE  /\ g \in Seq(DOMAIN segments) /\ Len(g) \in Nat /\ DOMAIN g = 1..Len(g)
         /\ Head(g) \in DOMAIN segments
         /\ \A i \in Range(g) : /\ i \in DOMAIN segments
                                /\ segments[i].language = segments[Head(g)].language
<1>1. g \in Seq(Nat) /\ g # <<>> /\ Len(g) \in Nat /\ DOMAIN g = 1..Len(g)
  BY LenProperties DEF IsGroup
<1>2. \A a \in DOMAIN g : /\ g[a] \in DOMAIN segments
                          /\ segments[g[a]].language = segments[Head(g)].language
  BY DEF IsGroup
<1>3. g \in [1..Len(g) -> DOMAIN segments]
  BY <1>1, <1>2
<1>4. Head(g) = g[1] /\ 1 \in DOMAIN g
  BY <1>1
<1>5. g \in Seq(DOMAIN segments)
  BY <1>1, <1>3, SeqDef
<1>6. \A i \in Range(g) : \E a \in DOMAIN g : i = g[a]
  BY DEF Range
<1> QED BY <1>1, <1>2, <1>4, <1>5, <1>6

LEMMA TailOfGroups ==
  ASSUME NEW X, NEW groups \in Seq(X), groups # <<>>
  PROVE  /\ Head(groups) = groups[1] /\ 1 \in DOMAIN groups
         /\ Tail(groups) \in Seq(X)
         /\ \A k \in DOMAIN Tail(groups) : k + 1 \in DOMAIN groups /\ Tail(groups)[k] = groups[k + 1]
         /\ \A k \in DOMAIN groups : k # 1 =>
              k - 1 \in DOMAIN Tail(groups) /\ Tail(groups)[k - 1] = groups[k]
<1>1. /\ DOMAIN groups = 1..Len(groups) /\ Len(groups) \in Nat /\ Len(groups) > 0
      /\ Head(groups) = groups[1]
  BY LenProperties, EmptySeq
<1>2. /\ Tail(groups) \in Seq(X) /\ Len(Tail(groups)) = Len(groups) - 1
      /\ \A i \in 1..Len(Tail(groups)) : Tail(groups)[i] = groups[i + 1]
  BY HeadTailProperties
<1>3. DOMAIN Tail(groups) = 1..(Len(groups) - 1)
  BY <1>2, LenProperties
<1>4. PICK rest, l : rest = Tail(groups) /\ l = Len(groups)
  OBVIOUS
<1>5. /\ l \in Nat /\ l > 0 /\ DOMAIN groups = 1..l /\ DOMAIN rest = 1..(l - 1)
      /\ \A i \in 1..(l - 1) : rest[i] = groups[i + 1]
  BY <1>1, <1>2, <1>3, <1>4, Zenon
<1>6. /\ 1 \in DOMAIN groups
      /\ \A k \in DOMAIN rest : k + 1 \in DOMAIN groups /\ rest[k] = groups[k + 1]
      /\ \A k \in DOMAIN groups : k # 1 => k - 1 \in DOMAIN rest /\ rest[k - 1] = groups[k]
  BY ONLY <1>5, SMTT(30)
<1> QED BY <1>1, <1>2, <1>4, <1>6, Zenon

LEMMA ResultTypes ==
  ASSUME NEW s \in Segments, NEW text \in Texts, NEW other \in Texts \cup {None}
  PROVE  Result(s, text, other) \in Results /\ Result(s, text, other) # None
<1>1. Result(s, text, other) \in Results
  BY DEF Result, Results, Segments
<1> QED BY <1>1, TranscriptsAssumption

LEMMA NextGroupKeeps ==
  ASSUME IInv, NEW p \in Runs, NextGroup(p)
  PROVE  IInv'
<1> DEFINE w == work[p]
           segments == w.segments
           indexed == Head(w.groups)
           G == w.groups
<1>1. step[p] = "group" /\ G # <<>> /\ Running(p) /\ Running(p)'
      /\ UNCHANGED <<transcription, created, about, failures, byClient>>
  <2>1. step[p] = "group" /\ G # <<>> /\ UNCHANGED <<transcription, created, about, failures, byClient>>
    BY DEF NextGroup
  <2>2. step'[p] \in {"group", "batch"}
    <3>1. step \in [Runs -> {"idle", "group", "batch", "done"}]
      BY DEF IInv, TypeOK
    <3> QED BY <2>1, <3>1 DEF NextGroup
  <2> QED BY <2>1, <2>2 DEF Running
<1>2. /\ w \in Works /\ segments \in Seq(Segments) /\ G \in Seq(Seq(Nat))
      /\ DOMAIN w.results = DOMAIN segments /\ w.results \in Seq(Results \cup {None})
      /\ \A i \in DOMAIN segments : segments[i] \in Segments
      /\ failures \in 0..MaxFailures
  BY RunTypes
<1>3. /\ w.target \in Languages
      /\ \A k \in DOMAIN G : IsGroup(segments, G[k])
      /\ \A i \in DOMAIN segments :
           /\ Original(segments[i])
           /\ w.results[i] = None => Waiting(p, i)
           /\ w.results[i] # None => Settled(w, i)
  BY <1>1 DEF IInv, RunOK
<1>4. /\ indexed = G[1] /\ 1 \in DOMAIN G /\ Tail(G) \in Seq(Seq(Nat))
      /\ \A k \in DOMAIN Tail(G) : k + 1 \in DOMAIN G /\ Tail(G)[k] = G[k + 1]
      /\ \A k \in DOMAIN G : k # 1 => k - 1 \in DOMAIN Tail(G) /\ Tail(G)[k - 1] = G[k]
  <2> HIDE DEF w
  <2> QED BY <1>1, <1>2, TailOfGroups
<1>5. /\ IsGroup(segments, indexed) /\ indexed \in Seq(DOMAIN segments) /\ Head(indexed) \in DOMAIN segments
      /\ \A i \in Range(indexed) : /\ i \in DOMAIN segments
                                   /\ segments[i].language = segments[Head(indexed)].language
  <2>1. IsGroup(segments, indexed)
    BY <1>3, <1>4
  <2> HIDE DEF w, indexed
  <2> QED BY <1>2, <2>1, GroupPositions
<1>6. \A i \in DOMAIN segments : w.results[i] = None =>
        \E k \in DOMAIN G : \E a \in DOMAIN G[k] : G[k][a] = i
  BY <1>3 DEF Waiting
<1>7. work \in [Runs -> Works] /\ step \in [Runs -> {"idle", "group", "batch", "done"}]
  BY DEF IInv, TypeOK, Works
<1>8. CASE SameLanguage(segments[Head(indexed)].language, w.target)
  <2> DEFINE results == [i \in DOMAIN w.results |->
               IF i \in Range(indexed) THEN Result(segments[i], segments[i].text, None)
               ELSE w.results[i]]
  <2>1. PICK v : v = [w EXCEPT !.groups = Tail(G), !.results = results]
    OBVIOUS
  <2>2. work' = [work EXCEPT ![p] = v] /\ UNCHANGED step
    <3>1. work' = [work EXCEPT ![p].groups = Tail(G), ![p].results = results] /\ UNCHANGED step
      BY <1>8 DEF NextGroup
    <3> HIDE DEF results
    <3> QED BY <1>7, <2>1, <3>1
  <2>3. results \in Seq(Results \cup {None}) /\ DOMAIN results = DOMAIN w.results
    <3>1. \A i \in DOMAIN w.results : results[i] \in Results \cup {None}
      <4>1. \A i \in DOMAIN w.results : w.results[i] \in Results \cup {None}
        BY <1>2, LenProperties
      <4>2. \A i \in DOMAIN segments : segments[i].text \in Texts
        BY <1>2 DEF Segments
      <4> QED BY <1>2, <4>1, <4>2, ResultTypes
    <3>2. DOMAIN w.results = 1..Len(w.results) /\ Len(w.results) \in Nat
      BY <1>2, LenProperties
    <3>3. results = [i \in DOMAIN w.results |-> results[i]] /\ DOMAIN results = DOMAIN w.results
      OBVIOUS
    <3> HIDE DEF w, results
    <3>4. results \in [1..Len(w.results) -> Results \cup {None}]
      BY <3>1, <3>2, <3>3
    <3> QED BY <3>2, <3>3, <3>4, SeqDef
  <2>4. \A i \in DOMAIN segments :
          results[i] = IF i \in Range(indexed) THEN Result(segments[i], segments[i].text, None)
                       ELSE w.results[i]
    BY <1>2
  <2> HIDE DEF results
  <2>5. /\ v \in Works /\ v.segments = segments /\ v.target = w.target
        /\ v.translateSub = w.translateSub /\ v.groups = Tail(G) /\ v.results = results
    <3> HIDE DEF G
    <3> QED BY <1>2, <1>4, <2>1, <2>3 DEF Works
  <2>6. Goes(p, v, "group")
    <3>1. step' = [step EXCEPT ![p] = "group"]
      BY <1>1, <1>7, <2>2
    <3> QED BY <1>1, <1>2, <2>2, <2>3, <2>5, <3>1 DEF Goes
  <2>7. RunOK(p)'
    <3>1. work'[p] = v /\ step'[p] = "group"
      BY <1>1, <1>7, <2>2
    <3>2. \A k \in DOMAIN v.groups : IsGroup(segments, v.groups[k])
      BY <1>3, <1>4, <2>5
    <3>3. ASSUME NEW i \in DOMAIN segments, v.results[i] = None
          PROVE  Waiting(p, i)'
      <4>1. i \notin Range(indexed) /\ w.results[i] = None
        <5>1. segments[i] \in Segments /\ segments[i].text \in Texts
          BY <1>2 DEF Segments
        <5> QED BY <2>4, <2>5, <3>3, <5>1, ResultTypes
      <4>2. PICK k \in DOMAIN G : \E a \in DOMAIN G[k] : G[k][a] = i
        BY <1>6, <4>1
      <4>3. PICK a \in DOMAIN G[k] : G[k][a] = i
        BY <4>2
      <4>4. k # 1
        BY <1>4, <4>1, <4>3 DEF Range
      <4>5. k - 1 \in DOMAIN v.groups /\ v.groups[k - 1] = G[k]
        BY <1>4, <2>5, <4>4
      <4>6. a > 0
        <5>1. G[k] \in Seq(Nat)
          BY <1>2
        <5> QED BY <4>3, <5>1, LenProperties
      <4>7. Behind(p, k - 1)' = 0
        BY <3>1 DEF Behind
      <4> QED BY <3>1, <4>3, <4>5, <4>6, <4>7 DEF Waiting
    <3>4. ASSUME NEW i \in DOMAIN segments, v.results[i] # None
          PROVE  Settled(v, i)
      <4>1. CASE i \in Range(indexed)
        <5>1. v.results[i] = Result(segments[i], segments[i].text, None)
          BY <2>4, <2>5, <4>1
        <5>2. InPlace(v.results[i], segments[i]) /\ v.results[i].translatedText = None
          BY <5>1 DEF Result, InPlace
        <5>3. SameLanguage(segments[i].language, w.target)
          BY <1>5, <1>8, <4>1
        <5> QED BY <2>5, <5>2, <5>3 DEF Settled
      <4>2. CASE i \notin Range(indexed)
        <5>1. v.results[i] = w.results[i]
          BY <2>4, <2>5, <4>2
        <5>2. Settled(w, i)
          BY <1>3, <3>4, <5>1
        <5> QED BY <2>5, <5>1, <5>2 DEF Settled
      <4> QED BY <4>1, <4>2
    <3> QED BY <1>1, <1>3, <2>5, <3>1, <3>2, <3>3, <3>4 DEF RunOK
  <2> QED BY <2>6, <2>7, GoesKeeps
<1>9. CASE ~SameLanguage(segments[Head(indexed)].language, w.target)
  <2> DEFINE batches == makeBatches(segments, indexed)
  <2>1. PICK v : v = [w EXCEPT !.batches = batches, !.groupDone = 0]
    OBVIOUS
  <2>2. work' = [work EXCEPT ![p] = v] /\ step' = [step EXCEPT ![p] = "batch"]
    <3>1. /\ work' = [work EXCEPT ![p].batches = batches, ![p].groupDone = 0]
          /\ step' = [step EXCEPT ![p] = "batch"]
      BY <1>9 DEF NextGroup
    <3> HIDE DEF batches
    <3> QED BY <1>7, <2>1, <3>1
  <2>3. Made(segments, indexed, Len(indexed), batches)
    <3> HIDE DEF indexed, w
    <3> QED BY <1>2, <1>5, MakeBatches
  <2>4. batches \in Seq(Seq(Nat))
    <3>1. Seq(DOMAIN segments) \subseteq Seq(Nat)
      <4>1. DOMAIN segments \subseteq Nat
        BY <1>2, LenProperties
      <4> QED BY <4>1, SeqMonotonic
    <3> HIDE DEF batches
    <3> QED BY <2>3, <3>1, SeqMonotonic DEF Made
  <2> HIDE DEF batches
  <2>5. /\ v \in Works /\ v.segments = segments /\ v.target = w.target /\ v.results = w.results
        /\ v.translateSub = w.translateSub /\ v.groups = G /\ v.batches = batches /\ v.groupDone = 0
    <3> QED BY <1>2, <2>1, <2>4 DEF Works
  <2>6. Goes(p, v, "batch")
    BY <1>1, <1>2, <2>2, <2>5 DEF Goes
  <2>7. RunOK(p)'
    <3>1. work'[p] = v /\ step'[p] = "batch"
      BY <1>7, <2>2
    <3>2. ASSUME NEW i \in DOMAIN segments, v.results[i] = None
          PROVE  Waiting(p, i)'
      <4>1. PICK k \in DOMAIN G : \E a \in DOMAIN G[k] : G[k][a] = i
        BY <1>6, <2>5, <3>2
      <4>2. PICK a \in DOMAIN G[k] : G[k][a] = i
        BY <4>1
      <4>3. a > 0
        <5>1. G[k] \in Seq(Nat)
          BY <1>2
        <5> QED BY <4>2, <5>1, LenProperties
      <4>4. Behind(p, k)' = 0
        BY <2>5, <3>1 DEF Behind
      <4> QED BY <2>5, <3>1, <4>2, <4>3, <4>4 DEF Waiting
    <3>3. ASSUME NEW i \in DOMAIN segments, v.results[i] # None
          PROVE  Settled(v, i)
      BY <1>3, <2>5, <3>3 DEF Settled
    <3>4. BatchesOK(v)
      BY <1>1, <1>9, <2>3, <2>5 DEF BatchesOK, Made
    <3> QED BY <1>1, <1>3, <2>5, <3>1, <3>2, <3>3, <3>4 DEF RunOK
  <2> QED BY <2>6, <2>7, GoesKeeps
<1> QED BY <1>8, <1>9

\* The first batch is of the positions of its group after those done.
LEMMA HeadBatch ==
  ASSUME IInv, NEW p \in Runs, step[p] = "batch", work[p].batches # <<>>
  PROVE  LET w == work[p]
             batch == Head(w.batches)
             indexed == Head(w.groups)
         IN  /\ DOMAIN batch = 1..Len(batch) /\ Len(batch) \in Nat
             /\ DOMAIN indexed = 1..Len(indexed) /\ Len(indexed) \in Nat
             /\ IsGroup(w.segments, indexed) /\ w.groupDone + Len(batch) <= Len(indexed)
             /\ \A b \in DOMAIN batch : /\ w.groupDone + b \in DOMAIN indexed
                                        /\ batch[b] = indexed[w.groupDone + b]
                                        /\ batch[b] \in DOMAIN w.segments
             /\ Cuts(Tail(w.batches), indexed, w.groupDone + Len(batch), Len(indexed))
<1> DEFINE w == work[p]
           B == w.batches
           batch == Head(B)
           indexed == Head(w.groups)
           done == w.groupDone
<1>1. /\ w.segments \in Seq(Segments) /\ w.groups \in Seq(Seq(Nat)) /\ B \in Seq(Seq(Nat))
      /\ done \in Nat
  BY RunTypes
<1>2. /\ w.groups # <<>> /\ Cuts(B, indexed, done, Len(indexed))
      /\ \A k \in DOMAIN w.groups : IsGroup(w.segments, w.groups[k])
  BY DEF IInv, RunOK, BatchesOK, Running
<1>3. indexed = w.groups[1] /\ 1 \in DOMAIN w.groups
  <2> HIDE DEF w
  <2> QED BY <1>1, <1>2, TailOfGroups
<1>4. IsGroup(w.segments, indexed)
  BY <1>2, <1>3
<1> HIDE DEF w, B, indexed, done
<1>5. /\ Len(indexed) \in Nat /\ DOMAIN indexed = 1..Len(indexed)
      /\ \A a \in DOMAIN indexed : indexed[a] \in DOMAIN w.segments
  BY <1>1, <1>4, GroupPositions DEF IsGroup
<1>6. /\ Cuts(Tail(B), indexed, done + Len(batch), Len(indexed)) /\ done + Len(batch) <= Len(indexed)
      /\ \A b \in 1..Len(batch) : batch[b] = indexed[done + b]
  <2> HIDE DEF batch
  <2>1. B # <<>>
    BY DEF B, w
  <2> QED BY <1>1, <1>2, <1>5, <2>1, CutsTail DEF batch
<1>7. batch \in Seq(Nat)
  <2>1. B # <<>>
    BY DEF B, w
  <2> QED BY <1>1, <2>1, HeadTailProperties
<1>8. DOMAIN batch = 1..Len(batch) /\ Len(batch) \in Nat
  <2> HIDE DEF batch
  <2> QED BY <1>7, LenProperties
<1> HIDE DEF batch
<1>9. \A b \in 1..Len(batch) : done + b \in DOMAIN indexed
  BY <1>1, <1>5, <1>6, <1>8
<1> QED BY <1>4, <1>5, <1>6, <1>8, <1>9 DEF w, B, batch, indexed, done

LEMMA BatchKeeps ==
  ASSUME IInv, NEW p \in Runs, step[p] = "batch", work[p].batches # <<>>, NEW texts,
         \A b \in DOMAIN Head(work[p].batches) :
           /\ texts[b] \in Texts
           /\ texts[b].line = work[p].segments[Head(work[p].batches)[b]].text.line,
         BatchDone(p, texts), failures' \in 0..MaxFailures,
         UNCHANGED <<transcription, created, step, about, byClient>>
  PROVE  IInv'
<1> DEFINE w == work[p]
           segments == w.segments
           G == w.groups
           B == w.batches
           batch == Head(B)
           indexed == Head(G)
           done == w.groupDone
           results == Written(w, texts)
<1>1. /\ w \in Works /\ segments \in Seq(Segments) /\ G \in Seq(Seq(Nat)) /\ B \in Seq(Seq(Nat))
      /\ done \in Nat /\ DOMAIN w.results = DOMAIN segments /\ w.results \in Seq(Results \cup {None})
      /\ \A i \in DOMAIN segments : segments[i] \in Segments
  BY RunTypes
<1>2. /\ w.target \in Languages
      /\ \A k \in DOMAIN G : IsGroup(segments, G[k])
      /\ \A i \in DOMAIN segments :
           /\ Original(segments[i])
           /\ w.results[i] = None => Waiting(p, i)
           /\ w.results[i] # None => Settled(w, i)
  BY DEF IInv, RunOK, Running
<1>3. /\ G # <<>> /\ \A k \in DOMAIN B : WithinLimits(segments, B[k])
      /\ ~SameLanguage(segments[Head(indexed)].language, w.target)
  BY DEF IInv, RunOK, BatchesOK
<1>4. /\ DOMAIN batch = 1..Len(batch) /\ Len(batch) \in Nat
      /\ DOMAIN indexed = 1..Len(indexed) /\ Len(indexed) \in Nat
      /\ IsGroup(segments, indexed) /\ done + Len(batch) <= Len(indexed)
      /\ \A b \in DOMAIN batch : /\ done + b \in DOMAIN indexed /\ batch[b] = indexed[done + b]
                                 /\ batch[b] \in DOMAIN segments
      /\ Cuts(Tail(B), indexed, done + Len(batch), Len(indexed))
  BY HeadBatch, Zenon
<1>5. /\ indexed = G[1] /\ 1 \in DOMAIN G
      /\ Tail(B) \in Seq(Seq(Nat))
      /\ \A k \in DOMAIN Tail(B) : k + 1 \in DOMAIN B /\ Tail(B)[k] = B[k + 1]
  <2>1. B # <<>>
    OBVIOUS
  <2> HIDE DEF w, G, B
  <2> QED BY <1>1, <1>3, <2>1, TailOfGroups
<1>6. work \in [Runs -> Works] /\ step \in [Runs -> {"idle", "group", "batch", "done"}]
  BY DEF IInv, TypeOK, Works
<1>7. /\ DOMAIN results = DOMAIN w.results
      /\ \A i \in DOMAIN segments :
           IF \E b \in DOMAIN batch : indexed[done + b] = i
           THEN \E b \in DOMAIN batch :
                  /\ indexed[done + b] = i
                  /\ results[i] = IF w.translateSub
                                  THEN Result(segments[batch[b]], segments[batch[b]].text, texts[b])
                                  ELSE Result(segments[batch[b]], texts[b], None)
           ELSE results[i] = w.results[i]
  <2>1. DOMAIN results = DOMAIN w.results
    BY DEF Written
  <2>2. ASSUME NEW i \in DOMAIN segments, \E b \in DOMAIN batch : indexed[done + b] = i
        PROVE  \E b \in DOMAIN batch :
                  /\ indexed[done + b] = i
                  /\ results[i] = IF w.translateSub
                                  THEN Result(segments[batch[b]], segments[batch[b]].text, texts[b])
                                  ELSE Result(segments[batch[b]], texts[b], None)
    <3>1. PICK b : b = CHOOSE x \in DOMAIN batch : indexed[done + x] = i
      OBVIOUS
    <3>2. b \in DOMAIN batch /\ indexed[done + b] = i
      BY <2>2, <3>1, Zenon
    <3>3. results[i] = IF w.translateSub
                       THEN Result(segments[batch[b]], segments[batch[b]].text, texts[b])
                       ELSE Result(segments[batch[b]], texts[b], None)
      BY <1>1, <2>2, <3>1, Zenon DEF Written
    <3> QED BY <3>2, <3>3
  <2>3. ASSUME NEW i \in DOMAIN segments, ~ \E b \in DOMAIN batch : indexed[done + b] = i
        PROVE  results[i] = w.results[i]
    BY <1>1, <2>3, Zenon DEF Written
  <2> QED BY <2>1, <2>2, <2>3
<1> HIDE DEF results
<1>8. ASSUME NEW i \in DOMAIN segments, \E b \in DOMAIN batch : indexed[done + b] = i
      PROVE  /\ results[i] \in Results /\ results[i] # None /\ InPlace(results[i], segments[i])
             /\ w.translateSub => results[i].translatedText # None
             /\ ~SameLanguage(segments[i].language, w.target)
  <2>1. PICK b \in DOMAIN batch :
          /\ indexed[done + b] = i
          /\ results[i] = IF w.translateSub
                          THEN Result(segments[batch[b]], segments[batch[b]].text, texts[b])
                          ELSE Result(segments[batch[b]], texts[b], None)
    BY <1>7, <1>8
  <2>2. PICK x : x = segments[i]
    OBVIOUS
  <2>3. batch[b] = i /\ x \in Segments /\ x.text \in Texts
    BY <1>1, <1>4, <2>1, <2>2 DEF Segments
  <2>4. texts[b] \in Texts /\ texts[b].line = x.text.line
    BY <2>2, <2>3
  <2>5. texts[b] # None
    BY <2>4, TranscriptsAssumption
  <2>6. results[i] = IF w.translateSub THEN Result(x, x.text, texts[b]) ELSE Result(x, texts[b], None)
    BY <2>1, <2>2, <2>3
  <2>7. results[i] \in Results /\ results[i] # None
    BY <2>3, <2>4, <2>6, ResultTypes
  <2>8. InPlace(results[i], x) /\ (w.translateSub => results[i].translatedText # None)
    BY <2>4, <2>5, <2>6, SMTT(30) DEF Result, InPlace
  <2>9. ~SameLanguage(segments[i].language, w.target)
    <3>1. segments[i].language = segments[Head(indexed)].language
      BY <1>4, <2>1 DEF IsGroup
    <3> QED BY <1>3, <3>1
  <2> QED BY <2>2, <2>7, <2>8, <2>9
<1>9. PICK v : v = [w EXCEPT !.results = results, !.groupDone = done + Len(batch), !.batches = Tail(B)]
  OBVIOUS
<1>10. work' = [work EXCEPT ![p] = v]
  <2>1. work' = [work EXCEPT ![p].results = results, ![p].groupDone = @ + Len(batch),
                             ![p].batches = Tail(@)]
    BY DEF BatchDone, results
  <2> QED BY <1>6, <1>9, <2>1
<1>11. results \in Seq(Results \cup {None})
  <2>1. ASSUME NEW i \in DOMAIN segments PROVE results[i] \in Results \cup {None}
    <3>1. w.results[i] \in Results \cup {None}
      BY <1>1, LenProperties, SMTT(30)
    <3> QED BY <1>7, <1>8, <3>1
  <2>2. DOMAIN w.results = 1..Len(w.results) /\ Len(w.results) \in Nat
    BY <1>1, LenProperties
  <2>3. results = [i \in DOMAIN results |-> results[i]]
    BY DEF results, Written
  <2> HIDE DEF w
  <2>4. results \in [1..Len(w.results) -> Results \cup {None}]
    BY <1>1, <1>7, <2>1, <2>2, <2>3
  <2> QED BY <2>2, <2>4, SeqDef
<1>12. /\ v \in Works /\ v.segments = segments /\ v.target = w.target
       /\ v.translateSub = w.translateSub /\ v.groups = G /\ v.results = results
       /\ v.groupDone = done + Len(batch) /\ v.batches = Tail(B)
  <2>1. done + Len(batch) \in Nat /\ Tail(B) \in Seq(Seq(Nat))
    <3>1. PICK d, l : d = done /\ l = Len(batch)
      OBVIOUS
    <3>2. d \in Nat /\ l \in Nat
      BY <1>1, <1>4, <3>1, Zenon
    <3>3. d + l \in Nat
      BY ONLY <3>2
    <3> QED BY <1>5, <3>1, <3>3, Zenon
  <2> HIDE DEF B, batch, done
  <2> QED BY <1>1, <1>9, <1>11, <2>1 DEF Works
<1>13. step' = [step EXCEPT ![p] = "batch"] /\ step'[p] = "batch" /\ work'[p] = v
  BY <1>6, <1>10
<1>14. Goes(p, v, "batch")
  BY <1>1, <1>7, <1>10, <1>12, <1>13 DEF Goes, Running
<1>15. RunOK(p)'
  <2>1. ASSUME NEW i \in DOMAIN segments, v.results[i] = None
        PROVE  Waiting(p, i)'
    <3>1. /\ ~ \E b \in DOMAIN batch : indexed[done + b] = i
          /\ w.results[i] = None
      BY <1>7, <1>8, <1>12, <2>1
    <3>2. PICK k \in DOMAIN G : \E a \in DOMAIN G[k] : a > Behind(p, k) /\ G[k][a] = i
      BY <1>2, <3>1 DEF Waiting
    <3>3. PICK a \in DOMAIN G[k] : a > Behind(p, k) /\ G[k][a] = i
      BY <3>2
    <3>4. a \in Nat
      <4>1. G[k] \in Seq(Nat)
        BY <1>1, SMTT(30)
      <4> QED BY <3>3, <4>1, LenProperties
    <3>5. a > Behind(p, k)'
      <4>1. CASE k = 1
        <5>1. a > done /\ Behind(p, k)' = done + Len(batch)
          BY <1>12, <1>13, <3>3, <4>1 DEF Behind
        <5>2. PICK d, l, e : d = done /\ l = Len(batch) /\ e = Behind(p, k)'
          OBVIOUS
        <5>3. /\ d \in Nat /\ l \in Nat /\ a \in Nat /\ a > d /\ e = d + l
              /\ DOMAIN batch = 1..l
          BY <1>1, <1>4, <3>4, <5>1, <5>2, Zenon
        <5>0. SUFFICES ASSUME a <= d + l PROVE FALSE
          <6>1. a > e
            BY ONLY <5>0, <5>3
          <6> QED BY <5>2, <6>1, Zenon
        <5>6. PICK b : b = a - d
          OBVIOUS
        <5>7. b \in 1..l /\ d + b = a
          BY ONLY <5>0, <5>3, <5>6
        <5>4. b \in DOMAIN batch /\ done + b = a
          BY <5>2, <5>3, <5>7, Zenon
        <5>5. indexed[done + b] = i
          BY <1>5, <3>3, <4>1, <5>4
        <5> QED BY <3>1, <5>4, <5>5
      <4>2. CASE k # 1
        BY <3>3, <4>2 DEF Behind
      <4> QED BY <4>1, <4>2
    <3> QED BY <1>12, <1>13, <3>3, <3>5 DEF Waiting
  <2>2. ASSUME NEW i \in DOMAIN segments, v.results[i] # None
        PROVE  Settled(v, i)
    <3>1. CASE \E b \in DOMAIN batch : indexed[done + b] = i
      BY <1>8, <1>12, <3>1 DEF Settled
    <3>2. CASE ~ \E b \in DOMAIN batch : indexed[done + b] = i
      <4>1. v.results[i] = w.results[i]
        BY <1>7, <1>12, <3>2
      <4>2. Settled(w, i)
        BY <1>2, <2>2, <4>1
      <4> QED BY <1>12, <4>1, <4>2 DEF Settled
    <3> QED BY <3>1, <3>2
  <2>3. BatchesOK(v)
    BY <1>3, <1>4, <1>5, <1>12 DEF BatchesOK
  <2> QED BY <1>2, <1>12, <1>13, <2>1, <2>2, <2>3 DEF RunOK, Running
<1> QED BY <1>14, <1>15, GoesKeeps

LEMMA TranslateBatchKeeps ==
  ASSUME IInv, NEW p \in Runs, TranslateBatch(p)
  PROVE  IInv'
<1> DEFINE w == work[p]
           batch == Head(w.batches)
           asked(b) == Asked(w, w.segments[batch[b]])
           texts == [b \in DOMAIN batch |-> To(asked(b), w.target)]
<1>1. /\ step[p] = "batch" /\ w.batches # <<>> /\ Complete(w) /\ BatchDone(p, texts)
      /\ UNCHANGED <<transcription, created, step, about, failures, byClient>>
  BY Zenon DEF TranslateBatch
<1>2. /\ \A i \in DOMAIN w.segments : w.segments[i] \in Segments
      /\ failures \in 0..MaxFailures
  BY RunTypes
<1>3. w.target \in Languages /\ \A i \in DOMAIN w.segments : Original(w.segments[i])
  BY <1>1 DEF IInv, RunOK, Running
<1>4. \A b \in DOMAIN batch : batch[b] \in DOMAIN w.segments
  BY <1>1, HeadBatch, Zenon
<1>5. ASSUME NEW b \in DOMAIN batch
      PROVE  texts[b] \in Texts /\ texts[b].line = w.segments[batch[b]].text.line
  <2>1. PICK s : s = w.segments[batch[b]]
    OBVIOUS
  <2>2. s \in Segments /\ Original(s) /\ asked(b) # None
    BY <1>1, <1>2, <1>3, <1>4, <2>1 DEF Complete
  <2>3. asked(b) \in Texts /\ asked(b).line = s.text.line
    BY <2>1, <2>2 DEF Asked, Segments, Original
  <2>4. texts[b] = To(asked(b), w.target)
    OBVIOUS
  <2> HIDE DEF texts, asked
  <2> QED BY <1>3, <2>1, <2>3, <2>4 DEF To, Texts
<1> HIDE DEF texts
<1> QED BY <1>1, <1>2, <1>5, BatchKeeps

LEMMA TranslateOneByOneKeeps ==
  ASSUME IInv, NEW p \in Runs, TranslateOneByOne(p)
  PROVE  IInv'
<1> DEFINE w == work[p]
           batch == Head(w.batches)
           text(b) == w.segments[batch[b]].text
<1>1. PICK kept \in SUBSET DOMAIN batch :
        BatchDone(p, [b \in DOMAIN batch |-> IF b \in kept THEN text(b) ELSE To(text(b), w.target)])
  BY Zenon DEF TranslateOneByOne
<1> DEFINE texts == [b \in DOMAIN batch |-> IF b \in kept THEN text(b) ELSE To(text(b), w.target)]
<1>2. /\ step[p] = "batch" /\ w.batches # <<>>
      /\ failures' = failures \/ (failures < MaxFailures /\ failures' = failures + 1)
      /\ UNCHANGED <<transcription, created, step, about, byClient>>
  BY DEF TranslateOneByOne
<1>3. /\ \A i \in DOMAIN w.segments : w.segments[i] \in Segments
      /\ failures \in 0..MaxFailures
  BY RunTypes
<1>4. failures' \in 0..MaxFailures
  <2>1. MaxFailures \in Nat
    BY TranscriptsAssumption
  <2> QED BY <1>2, <1>3, <2>1
<1>5. w.target \in Languages
  BY <1>2 DEF IInv, RunOK, Running
<1>6. \A b \in DOMAIN batch : batch[b] \in DOMAIN w.segments
  BY <1>2, HeadBatch, Zenon
<1>7. ASSUME NEW b \in DOMAIN batch
      PROVE  texts[b] \in Texts /\ texts[b].line = w.segments[batch[b]].text.line
  <2>1. text(b) \in Texts
    BY <1>3, <1>6 DEF Segments
  <2>2. texts[b] = text(b) \/ texts[b] = To(text(b), w.target)
    OBVIOUS
  <2> HIDE DEF texts
  <2> QED BY <1>5, <2>1, <2>2 DEF To, Texts
<1>8. BatchDone(p, texts)
  BY <1>1
<1> HIDE DEF texts
<1> QED BY <1>2, <1>4, <1>7, <1>8, BatchKeeps

LEMMA GroupDoneKeeps ==
  ASSUME IInv, NEW p \in Runs, GroupDone(p)
  PROVE  IInv'
<1> DEFINE w == work[p]
           segments == w.segments
           G == w.groups
           indexed == Head(G)
<1>1. /\ step[p] = "batch" /\ w.batches = <<>> /\ Running(p)
      /\ UNCHANGED <<transcription, created, about, failures, byClient>>
  BY DEF GroupDone, Running
<1>2. /\ w \in Works /\ segments \in Seq(Segments) /\ G \in Seq(Seq(Nat)) /\ failures \in 0..MaxFailures
      /\ w.groupDone \in Nat
  BY RunTypes
<1>3. /\ w.target \in Languages
      /\ \A k \in DOMAIN G : IsGroup(segments, G[k])
      /\ \A i \in DOMAIN segments :
           /\ Original(segments[i])
           /\ w.results[i] = None => Waiting(p, i)
           /\ w.results[i] # None => Settled(w, i)
  BY <1>1 DEF IInv, RunOK
<1>4. G # <<>> /\ w.groupDone = Len(indexed)
  <2>1. G # <<>> /\ Cuts(<<>>, indexed, w.groupDone, Len(indexed))
    BY <1>1 DEF IInv, RunOK, BatchesOK
  <2>2. Len(<<>>) + 1 = 1
    OBVIOUS
  <2> QED BY <2>1, <2>2, Zenon DEF Cuts
<1>5. /\ indexed = G[1] /\ 1 \in DOMAIN G
      /\ Tail(G) \in Seq(Seq(Nat))
      /\ \A k \in DOMAIN Tail(G) : k + 1 \in DOMAIN G /\ Tail(G)[k] = G[k + 1]
      /\ \A k \in DOMAIN G : k # 1 => k - 1 \in DOMAIN Tail(G) /\ Tail(G)[k - 1] = G[k]
  <2> HIDE DEF w, G
  <2> QED BY <1>2, <1>4, TailOfGroups
<1>6. work \in [Runs -> Works] /\ step \in [Runs -> {"idle", "group", "batch", "done"}]
  BY DEF IInv, TypeOK, Works
<1>7. PICK v : v = [w EXCEPT !.groups = Tail(G)]
  OBVIOUS
<1>8. work' = [work EXCEPT ![p] = v] /\ step' = [step EXCEPT ![p] = "group"]
  <2>1. work' = [work EXCEPT ![p].groups = Tail(G)] /\ step' = [step EXCEPT ![p] = "group"]
    BY DEF GroupDone
  <2> QED BY <1>6, <1>7, <2>1
<1>9. /\ v \in Works /\ v.segments = segments /\ v.target = w.target /\ v.results = w.results
      /\ v.translateSub = w.translateSub /\ v.groups = Tail(G)
  BY <1>2, <1>5, <1>7 DEF Works
<1>10. Goes(p, v, "group")
  BY <1>1, <1>2, <1>8, <1>9 DEF Goes
<1>11. work'[p] = v /\ step'[p] = "group"
  BY <1>6, <1>8
<1>12. ASSUME NEW i \in DOMAIN segments, v.results[i] = None
       PROVE  Waiting(p, i)'
  <2>1. PICK k \in DOMAIN G : \E a \in DOMAIN G[k] : a > Behind(p, k) /\ G[k][a] = i
    BY <1>3, <1>9, <1>12 DEF Waiting
  <2>2. PICK a \in DOMAIN G[k] : a > Behind(p, k) /\ G[k][a] = i
    BY <2>1
  <2>3. a \in 1..Len(G[k]) /\ Len(G[k]) \in Nat
    <3>1. G[k] \in Seq(Nat)
      BY <1>2
    <3> QED BY <2>2, <3>1, LenProperties
  <2>4. k # 1
    <3>1. SUFFICES ASSUME k = 1 PROVE FALSE
      OBVIOUS
    <3>2. PICK n : n = Len(G[k])
      OBVIOUS
    <3>3. Behind(p, k) = n
      BY <1>1, <1>4, <1>5, <3>1, <3>2 DEF Behind
    <3>4. a \in 1..n /\ n \in Nat /\ a > n
      BY <2>2, <2>3, <3>2, <3>3, Zenon
    <3> QED BY ONLY <3>4
  <2>5. k - 1 \in DOMAIN v.groups /\ v.groups[k - 1] = G[k]
    BY <1>5, <1>9, <2>4
  <2>6. Behind(p, k - 1)' = 0 /\ a > 0
    BY <1>11, <2>3 DEF Behind
  <2> QED BY <1>11, <2>2, <2>5, <2>6 DEF Waiting
<1>13. \A i \in DOMAIN segments : v.results[i] # None => Settled(v, i)
  BY <1>3, <1>9 DEF Settled
<1>14. \A k \in DOMAIN v.groups : IsGroup(segments, v.groups[k])
  BY <1>3, <1>5, <1>9
<1>15. RunOK(p)'
  BY <1>3, <1>9, <1>11, <1>12, <1>13, <1>14 DEF RunOK, Running
<1> QED BY <1>10, <1>15, GoesKeeps

-----------------------------------------------------------------------------
(* Runs start and end.                                                      *)

Labels == {"idle", "group", "batch", "done"}
WorkTyped ==
  /\ work \in [Runs -> Works] /\ step \in [Runs -> Labels]
  /\ \A q \in Runs : DOMAIN work[q].results = DOMAIN work[q].segments

LEMMA WorkFromInv == ASSUME IInv PROVE WorkTyped
BY DEF IInv, TypeOK, WorkTyped, Works, Labels

\* What a started run has in hand: the segments, each in a group and none with a result.
LEMMA Starts ==
  ASSUME IInv, NEW p \in Runs, NEW segments \in Seq(Segments), NEW target \in Languages,
         NEW sub \in BOOLEAN, \A i \in DOMAIN segments : Original(segments[i]),
         translateAll(p, segments, target, sub), step' = [step EXCEPT ![p] = "group"]
  PROVE  /\ WorkTyped' /\ \A q \in Runs : RunOK(q)'
         /\ Running(p)' /\ work'[p].segments = segments /\ work'[p].translateSub = sub
         /\ \A q \in Runs : q # p => work'[q] = work[q] /\ step'[q] = step[q]
<1>1. work \in [Runs -> Works] /\ step \in [Runs -> Labels]
      /\ \A q \in Runs : DOMAIN work[q].results = DOMAIN work[q].segments
  BY WorkFromInv DEF WorkTyped
<1>2. PICK v : v = [NoWork EXCEPT !.segments = segments, !.target = target, !.translateSub = sub,
                                  !.groups = groupBySourceLanguage(segments),
                                  !.results = [i \in DOMAIN segments |-> None]]
  OBVIOUS
<1>3. work' = [work EXCEPT ![p] = v]
  BY <1>2 DEF translateAll
<1>4. PICK gs : gs = groupBySourceLanguage(segments)
  OBVIOUS
<1>5. /\ gs \in Seq(Seq(Nat)) /\ \A k \in DOMAIN gs : IsGroup(segments, gs[k])
      /\ \A i \in DOMAIN segments : \E k \in DOMAIN gs : \E a \in DOMAIN gs[k] : gs[k][a] = i
  BY <1>4, GroupsCover
<1>6. PICK results : results = [i \in DOMAIN segments |-> None]
  OBVIOUS
<1>7. results \in Seq(Results \cup {None}) /\ DOMAIN results = DOMAIN segments
      /\ \A i \in DOMAIN segments : results[i] = None
  <2>1. DOMAIN segments = 1..Len(segments) /\ Len(segments) \in Nat
    BY LenProperties
  <2>2. results \in [1..Len(segments) -> Results \cup {None}]
    BY <1>6, <2>1
  <2> QED BY <1>6, <2>1, <2>2, SeqDef
<1>8. /\ v.segments = segments /\ v.target = target /\ v.translateSub = sub /\ v.groups = gs
      /\ v.results = results /\ v.batches = <<>> /\ v.groupDone = 0 /\ v \in Works
  <2>1. v = [segments |-> segments, target |-> target, translateSub |-> sub, groups |-> gs,
             batches |-> <<>>, groupDone |-> 0, results |-> results]
    BY <1>2, <1>4, <1>6 DEF NoWork
  <2>2. <<>> \in Seq(Seq(Nat)) /\ 0 \in Nat /\ target \in Languages \cup {None}
    OBVIOUS
  <2> QED BY <1>5, <1>7, <2>1, <2>2 DEF Works
<1>9. /\ work'[p] = v /\ step'[p] = "group"
      /\ \A q \in Runs : q # p => work'[q] = work[q] /\ step'[q] = step[q]
  BY <1>1, <1>3
<1>10. WorkTyped'
  <2>1. work' \in [Runs -> Works] /\ step' \in [Runs -> Labels]
    BY <1>1, <1>3, <1>8 DEF Labels
  <2>2. \A q \in Runs : DOMAIN work'[q].results = DOMAIN work'[q].segments
    BY <1>1, <1>7, <1>8, <1>9
  <2> QED BY <2>1, <2>2 DEF WorkTyped
<1>11. RunOK(p)'
  <2>1. ASSUME NEW i \in DOMAIN segments PROVE Waiting(p, i)'
    <3>1. PICK k \in DOMAIN gs : \E a \in DOMAIN gs[k] : gs[k][a] = i
      BY <1>5
    <3>2. PICK a \in DOMAIN gs[k] : gs[k][a] = i
      BY <3>1
    <3>3. a > 0
      <4>1. gs[k] \in Seq(Nat)
        BY <1>5
      <4> QED BY <3>2, <4>1, LenProperties
    <3>4. Behind(p, k)' = 0
      BY <1>9 DEF Behind
    <3> QED BY <1>8, <1>9, <3>2, <3>3, <3>4 DEF Waiting
  <2> QED BY <1>5, <1>7, <1>8, <1>9, <2>1 DEF RunOK, Running
<1>12. \A q \in Runs : RunOK(q)'
  BY <1>9, <1>11, RunKept DEF IInv
<1> QED BY <1>8, <1>9, <1>10, <1>12 DEF Running

LEMMA Ends ==
  ASSUME IInv, NEW p \in Runs,
         step' = [step EXCEPT ![p] = "done"], work' = [work EXCEPT ![p] = NoWork]
  PROVE  /\ WorkTyped' /\ \A q \in Runs : RunOK(q)'
         /\ ~Running(p)'
         /\ \A q \in Runs : q # p => work'[q] = work[q] /\ step'[q] = step[q]
<1>1. work \in [Runs -> Works] /\ step \in [Runs -> Labels]
      /\ \A q \in Runs : DOMAIN work[q].results = DOMAIN work[q].segments
  BY WorkFromInv DEF WorkTyped
<1>2. NoWork \in Works /\ DOMAIN NoWork.results = DOMAIN NoWork.segments
  BY DEF NoWork, Works
<1>3. /\ work'[p] = NoWork /\ step'[p] = "done"
      /\ \A q \in Runs : q # p => work'[q] = work[q] /\ step'[q] = step[q]
  BY <1>1
<1>4. WorkTyped'
  <2>1. work' \in [Runs -> Works] /\ step' \in [Runs -> Labels]
    BY <1>1, <1>2 DEF Labels
  <2> QED BY <1>1, <1>2, <1>3, <2>1 DEF WorkTyped
<1>5. RunOK(p)'
  BY <1>3 DEF RunOK, Running
<1>6. \A q \in Runs : RunOK(q)'
  BY <1>3, <1>5, RunKept DEF IInv
<1> QED BY <1>3, <1>4, <1>6 DEF Running

-----------------------------------------------------------------------------
(* Rows.                                                                    *)

RowsTyped ==
  /\ transcription \in [Ids -> Transcriptions \cup {None}]
  /\ created \in 0..MaxTranscriptions
  /\ \A t \in Ids : transcription[t] # None => t <= created
  /\ \A j \in Jobs : \A t, u \in findByJobId(j) : t = u
  /\ byClient \subseteq 1..created

LEMMA RowsFromInv ==
  ASSUME IInv
  PROVE  /\ RowsTyped /\ 1..created \subseteq Ids
         /\ \A t \in Ids : RowsOK(t)
         /\ \A t \in Ids : transcription[t] # None =>
              /\ transcription[t].job \in Jobs /\ transcription[t].segments \in Seq(Rows)
              /\ \A i \in DOMAIN transcription[t].segments : transcription[t].segments[i] \in Rows
<1>1. RowsTyped /\ \A t \in Ids : RowsOK(t)
  BY DEF IInv, TypeOK, RowsTyped
<1>2. 1..created \subseteq Ids
  <2>1. created \in 0..MaxTranscriptions /\ MaxTranscriptions \in Nat
    BY <1>1, TranscriptsAssumption DEF RowsTyped
  <2> QED BY <2>1 DEF Ids
<1>3. ASSUME NEW t \in Ids, transcription[t] # None
      PROVE  /\ transcription[t].job \in Jobs /\ transcription[t].segments \in Seq(Rows)
             /\ \A i \in DOMAIN transcription[t].segments : transcription[t].segments[i] \in Rows
  <2>1. transcription[t] \in Transcriptions
    BY <1>1, <1>3 DEF RowsTyped
  <2>2. transcription[t].job \in Jobs /\ transcription[t].segments \in Seq(Rows)
    BY <2>1 DEF Transcriptions
  <2> QED BY <2>2, LenProperties
<1> QED BY <1>1, <1>2, <1>3

\* Rows that were there are the same to read, or gone.
RowsKept ==
  /\ RowsTyped' /\ created <= created'
  /\ \A t \in Ids : RowsOK(t)'
  /\ \A t \in 1..created :
       \/ transcription'[t] = None
       \/ /\ transcription[t] # None
          /\ \A segments : ReadFrom(segments, transcription[t].segments) =>
                           ReadFrom(segments, transcription'[t].segments)

\* Rows change, runs end, and what goes on goes on with what it had.
LEMMA RowsGo ==
  ASSUME IInv, RowsKept, WorkTyped', \A q \in Runs : RunOK(q)',
         \A q \in Runs : Running(q)' => Running(q) /\ work'[q] = work[q],
         UNCHANGED <<about, failures>>
  PROVE  IInv'
<1>1. TypeOK'
  <2>1. RowsTyped' /\ WorkTyped' /\ failures \in 0..MaxFailures /\ about \in [Calls -> Ids \cup {None}]
    BY DEF RowsKept, IInv, TypeOK
  <2> QED BY <2>1 DEF TypeOK, RowsTyped, WorkTyped, Works, Labels
<1>2. \A j \in Jobs : CallbackOK(j)'
  BY DEF IInv, CallbackOK, Runs
<1>3. ASSUME NEW c \in Calls, Running(c)' PROVE CallOK(c)'
  <2>1. Running(c) /\ work'[c] = work[c] /\ about'[c] = about[c]
    BY <1>3 DEF Runs
  <2>2. PICK t : t = about[c]
    OBVIOUS
  <2>3. /\ work[c].translateSub /\ t \in 1..created
        /\ transcription[t] # None => ReadFrom(work[c].segments, transcription[t].segments)
    BY <2>1, <2>2 DEF IInv, CallOK
  <2>4. t \in 1..created'
    <3>1. created \in Nat /\ created' \in Nat /\ created <= created'
      BY RowsFromInv DEF RowsKept, RowsTyped
    <3> QED BY <2>3, <3>1
  <2>5. transcription'[t] # None => ReadFrom(work[c].segments, transcription'[t].segments)
    BY <2>3 DEF RowsKept
  <2> QED BY <2>1, <2>2, <2>3, <2>4, <2>5 DEF CallOK
<1>4. \A c \in Calls : CallOK(c)'
  BY <1>3 DEF CallOK
<1> QED BY <1>1, <1>2, <1>4 DEF IInv, RowsKept

\* A new transcription is of what was recorded or posted, and the others are what they were.
LEMMA CreateKeepsRows ==
  ASSUME IInv, NEW j \in Jobs, NEW segments, NEW source \in Seq(Segments),
         DOMAIN segments = DOMAIN source,
         \A i \in DOMAIN source :
           NewRow(segments[i]) \in Rows /\ InPlace(NewRow(segments[i]), source[i]),
         \A i, k \in DOMAIN source : segments[i].language = segments[k].language,
         Unique(j, segments), created < MaxTranscriptions, create(j, segments),
         \/ byClient' = byClient /\ source = Recorded[j]
         \/ byClient' = byClient \cup {created + 1} /\ source = Posted[j]
  PROVE  RowsKept
<1> DEFINE rows == [i \in DOMAIN segments |-> NewRow(segments[i])]
<1>1. PICK n : n = created + 1
  OBVIOUS
<1>2. created \in Nat /\ created' = n /\ n \in Nat /\ n > created /\ n \in Ids
      /\ 1..created \subseteq Ids /\ n \in 1..n /\ 1..created \subseteq 1..n
      /\ MaxTranscriptions \in Nat /\ n \in 0..MaxTranscriptions
  <2>1. created \in 0..MaxTranscriptions /\ created' = n /\ MaxTranscriptions \in Nat
    BY <1>1, RowsFromInv, TranscriptsAssumption DEF RowsTyped, create
  <2> QED BY <1>1, <2>1 DEF Ids
<1>3. rows \in Seq(Rows) /\ DOMAIN rows = DOMAIN source /\ Len(rows) = Len(source)
      /\ \A i \in DOMAIN source : rows[i] = NewRow(segments[i])
  <2>1. DOMAIN source = 1..Len(source) /\ Len(source) \in Nat
    BY LenProperties
  <2>2. rows \in [1..Len(source) -> Rows]
    BY <2>1
  <2>3. rows \in Seq(Rows)
    BY <2>1, <2>2, SeqDef
  <2>4. DOMAIN rows = 1..Len(rows) /\ Len(rows) \in Nat
    <3> HIDE DEF rows
    <3> QED BY <2>3, LenProperties
  <2>5. DOMAIN rows = DOMAIN source /\ \A i \in DOMAIN source : rows[i] = NewRow(segments[i])
    OBVIOUS
  <2>6. Len(rows) = Len(source)
    <3>1. PICK x, y : x = Len(rows) /\ y = Len(source)
      OBVIOUS
    <3>2. x \in Nat /\ y \in Nat /\ 1..x = 1..y
      BY <2>1, <2>4, <2>5, <3>1, Zenon
    <3>3. (x \in 1..x <=> x \in 1..y) /\ (y \in 1..x <=> y \in 1..y)
      BY <3>2, Zenon
    <3>4. x = y
      BY ONLY <3>2, <3>3
    <3> QED BY <3>1, <3>4
  <2> QED BY <2>3, <2>5, <2>6
<1> HIDE DEF rows
<1>4. PICK new : new = [job |-> j, segments |-> rows]
  OBVIOUS
<1>5. new.job = j /\ new.segments = rows /\ new \in Transcriptions /\ new # None
  <2>1. new \in Transcriptions
    BY <1>3, <1>4 DEF Transcriptions
  <2> QED BY <1>4, <2>1, TranscriptsAssumption
<1>6. transcription' = [transcription EXCEPT ![n] = new]
  BY <1>1, <1>4 DEF create, rows
<1>7. /\ RowsTyped /\ \A t \in Ids : RowsOK(t)
  BY RowsFromInv
<1>8. /\ transcription'[n] = new /\ \A t \in Ids : t # n => transcription'[t] = transcription[t]
      /\ transcription[n] = None
  <2>1. transcription[n] = None
    <3>1. ~(n <= created)
      BY <1>2
    <3> QED BY <1>2, <1>7, <3>1 DEF RowsTyped
  <2> QED BY <1>2, <1>6, <1>7, <2>1 DEF RowsTyped
<1>9. byClient' \subseteq 1..n /\ \A t \in 1..created : t \in byClient' <=> t \in byClient
  <2>1. byClient \subseteq 1..created
    BY <1>7 DEF RowsTyped
  <2>2. n \notin 1..created
    BY <1>2
  <2> QED BY <1>1, <1>2, <2>1, <2>2
<1>10. Source(n)' = source
  <2>1. transcription'[n].job = j
    BY <1>5, <1>8
  <2>2. n \notin byClient
    <3>1. n \notin 1..created
      BY <1>2
    <3> QED BY <1>7, <3>1 DEF RowsTyped
  <2>3. IF n \in byClient' THEN source = Posted[j] ELSE source = Recorded[j]
    BY <1>1, <2>2
  <2> QED BY <2>1, <2>3 DEF Source
<1>11. RowsTyped'
  <2>1. transcription' \in [Ids -> Transcriptions \cup {None}]
    BY <1>5, <1>6, <1>7 DEF RowsTyped
  <2>2. ASSUME NEW t \in Ids, transcription'[t] # None PROVE t <= created'
    <3>1. t = n \/ t <= created
      BY <1>7, <1>8, <2>2 DEF RowsTyped
    <3>2. t \in Nat
      BY DEF Ids
    <3> QED BY <1>2, <3>1, <3>2
  <2>3. ASSUME NEW i \in Jobs, NEW t \in findByJobId(i)', NEW u \in findByJobId(i)' PROVE t = u
    <3>1. \A v \in findByJobId(i)' : v = n \/ v \in findByJobId(i)
      BY <1>8 DEF findByJobId
    <3>2. n \in findByJobId(i)' => i = j
      BY <1>5, <1>8 DEF findByJobId
    <3>3. findByJobId(j) = {}
      BY DEF Unique
    <3>4. \A v, w \in findByJobId(i) : v = w
      BY <1>7 DEF RowsTyped
    <3> QED BY <3>1, <3>2, <3>3, <3>4
  <2> QED BY <1>2, <1>9, <2>1, <2>2, <2>3 DEF RowsTyped
<1>12. ASSUME NEW t \in Ids, transcription'[t] # None
       PROVE  Stored(transcription'[t].segments, Source(t)')
  <2>1. CASE t = n
    <3>1. transcription'[t].segments = rows /\ Source(t)' = source
      BY <1>5, <1>8, <1>10, <2>1
    <3>2. \A i \in DOMAIN source : /\ rows[i].segmentId = segments[i].segmentId
                                   /\ rows[i].language = segments[i].language
                                   /\ rows[i].translatedBy = None
      BY <1>3 DEF NewRow
    <3>3. \A i, k \in DOMAIN source : i # k => segments[i].segmentId # segments[k].segmentId
      BY DEF Unique
    <3>4. Stored(rows, source)
      BY <1>3, <3>2, <3>3 DEF Stored
    <3> QED BY <3>1, <3>4
  <2>2. CASE t # n
    <3>1. transcription'[t] = transcription[t] /\ transcription[t] # None
      BY <1>8, <1>12, <2>2
    <3>2. t \in 1..created
      <4>1. t <= created
        BY <1>7, <3>1 DEF RowsTyped
      <4> QED BY <1>2, <4>1 DEF Ids
    <3>3. Source(t)' = Source(t)
      BY <1>9, <3>1, <3>2 DEF Source
    <3> QED BY <1>7, <3>1, <3>3 DEF RowsOK
  <2> QED BY <2>1, <2>2
<1>13. \A t \in Ids : RowsOK(t)'
  BY <1>12 DEF RowsOK
<1>14. ASSUME NEW t \in 1..created PROVE transcription'[t] = transcription[t]
  <2>1. t \in Ids /\ t # n
    BY <1>2
  <2> QED BY <1>8, <2>1
<1> QED BY <1>2, <1>11, <1>13, <1>14 DEF RowsKept

LEMMA SourceTyped ==
  ASSUME NEW j \in Jobs
  PROVE  /\ Recorded[j] \in Seq(Segments) /\ Posted[j] \in Seq(Segments)
         /\ \A i \in DOMAIN Recorded[j] : Recorded[j][i] \in Segments /\ Original(Recorded[j][i])
         /\ \A i \in DOMAIN Posted[j] :
              /\ Posted[j][i] \in Segments /\ Original(Posted[j][i])
              /\ Posted[j][i].originalText = None /\ Posted[j][i].language = None
<1>1. Recorded[j] \in Seq(Segments) /\ Posted[j] \in Seq(Segments)
  BY TranscriptsAssumption
<1>2. /\ \A s \in Range(Recorded[j]) : Original(s)
      /\ \A s \in Range(Posted[j]) : Original(s) /\ s.originalText = None /\ s.language = None
  BY TranscriptsAssumption DEF Original
<1>3. /\ \A i \in DOMAIN Recorded[j] : Recorded[j][i] \in Range(Recorded[j])
      /\ \A i \in DOMAIN Posted[j] : Posted[j][i] \in Range(Posted[j])
  BY DEF Range
<1>4. /\ \A i \in DOMAIN Recorded[j] : Recorded[j][i] \in Segments
      /\ \A i \in DOMAIN Posted[j] : Posted[j][i] \in Segments
  BY <1>1, LenProperties
<1> QED BY <1>1, <1>2, <1>3, <1>4

LEMMA CreateKeeps ==
  ASSUME IInv, NEW j \in Jobs, Create(j)
  PROVE  IInv'
<1> DEFINE source == Posted[j]
<1>1. /\ created < MaxTranscriptions /\ Unique(j, source) /\ create(j, source)
      /\ byClient' = byClient \cup {created + 1} /\ UNCHANGED <<step, about, work, failures>>
  BY DEF Create
<1>2. source \in Seq(Segments)
      /\ \A i \in DOMAIN source : source[i] \in Segments /\ source[i].language = None
  BY SourceTyped
<1>3. ASSUME NEW i \in DOMAIN source
      PROVE  NewRow(source[i]) \in Rows /\ InPlace(NewRow(source[i]), source[i])
  <2>1. PICK s \in Segments : s = source[i]
    BY <1>2
  <2>2. NewRow(s) \in Rows /\ InPlace(NewRow(s), s)
    BY DEF NewRow, Rows, Segments, InPlace
  <2> QED BY <2>1, <2>2
<1>4. RowsKept
  <2>1. \A i, k \in DOMAIN source : source[i].language = source[k].language
    BY <1>2
  <2> HIDE DEF source
  <2>2. byClient' = byClient \cup {created + 1} /\ source = Posted[j]
    BY <1>1 DEF source
  <2> QED BY <1>1, <1>2, <1>3, <2>1, <2>2, CreateKeepsRows
<1>5. WorkTyped' /\ \A q \in Runs : RunOK(q)'
  <2>1. WorkTyped'
    BY <1>1, WorkFromInv DEF WorkTyped
  <2>2. \A q \in Runs : work'[q] = work[q] /\ step'[q] = step[q]
    BY <1>1
  <2> QED BY <2>1, <2>2, RunKept DEF IInv
<1>6. \A q \in Runs : Running(q)' => Running(q) /\ work'[q] = work[q]
  BY <1>1 DEF Running
<1> QED BY <1>1, <1>4, <1>5, <1>6, RowsGo

LEMMA CallbackPublishesKeeps ==
  ASSUME IInv, NEW j \in Jobs, CallbackPublishes(j)
  PROVE  IInv'
<1> DEFINE source == Recorded[j]
           results == work[j].results
           segments == buildCreateTranscriptionInput(j, results)
<1>1. /\ step[j] = "group" /\ Translated(j) /\ Running(j) /\ j \in Runs
      /\ step' = [step EXCEPT ![j] = "done"] /\ work' = [work EXCEPT ![j] = NoWork]
      /\ UNCHANGED <<about, failures, byClient>>
  BY DEF CallbackPublishes, Translated, Running, Runs
<1>2. IF Unique(j, segments) THEN created < MaxTranscriptions /\ create(j, segments)
      ELSE UNCHANGED <<transcription, created>>
  BY DEF CallbackPublishes
<1>3. source \in Seq(Segments) /\ \A i \in DOMAIN source : source[i] \in Segments
  BY SourceTyped
<1>4. work[j].segments = source
  BY <1>1 DEF IInv, CallbackOK
<1>5. /\ DOMAIN results = DOMAIN source /\ DOMAIN segments = DOMAIN source
      /\ \A i \in DOMAIN source : results[i] \in Results /\ InPlace(results[i], source[i])
  <2>1. DOMAIN results = DOMAIN source /\ results \in Seq(Results \cup {None})
    BY <1>1, <1>4, RunTypes
  <2>2. \A i \in DOMAIN source : results[i] # None /\ InPlace(results[i], source[i])
    BY <1>1, <1>4, LinesFromInv DEF LinesStayInPlace
  <2>3. \A i \in DOMAIN results : results[i] \in Results \cup {None}
    BY <2>1, LenProperties
  <2>4. DOMAIN segments = DOMAIN results
    BY DEF buildCreateTranscriptionInput
  <2> QED BY <2>1, <2>2, <2>3, <2>4
<1>6. ASSUME NEW i \in DOMAIN source
      PROVE  /\ NewRow(segments[i]) \in Rows /\ InPlace(NewRow(segments[i]), source[i])
             /\ segments[i].language = Spoken[j]
  <2>1. PICK r \in Results : r = results[i] /\ InPlace(r, source[i])
    BY <1>5
  <2>2. segments[i] = [segmentId |-> r.segmentId, startTime |-> r.startTime, endTime |-> r.endTime,
                       text |-> r.text, originalText |-> r.originalText, language |-> Spoken[j]]
    BY <1>5, <2>1 DEF buildCreateTranscriptionInput
  <2> HIDE DEF segments, source
  <2>3. Spoken[j] \in Languages
    BY TranscriptsAssumption
  <2>4. NewRow(segments[i]) \in Rows
    BY <2>2, <2>3 DEF NewRow, Rows, Results
  <2>5. InPlace(NewRow(segments[i]), source[i])
    BY <2>1, <2>2 DEF NewRow, InPlace
  <2> QED BY <2>2, <2>4, <2>5
<1>7. RowsKept
  <2>1. CASE Unique(j, segments)
    <3>1. \A i, k \in DOMAIN source : segments[i].language = segments[k].language
      BY <1>6
    <3> HIDE DEF segments, source
    <3>2. byClient' = byClient /\ source = Recorded[j]
      BY <1>1 DEF source
    <3> QED BY <1>2, <1>3, <1>5, <1>6, <2>1, <3>1, <3>2, CreateKeepsRows
  <2>2. CASE ~Unique(j, segments)
    <3>1. UNCHANGED <<transcription, created, byClient>>
      BY <1>1, <1>2, <2>2
    <3> QED BY <3>1, RowsFromInv
            DEF RowsKept, RowsTyped, RowsOK, Source, findByJobId
  <2> QED BY <2>1, <2>2
<1>8. /\ WorkTyped' /\ \A q \in Runs : RunOK(q)'
      /\ ~Running(j)' /\ \A q \in Runs : q # j => work'[q] = work[q] /\ step'[q] = step[q]
  BY <1>1, Ends
<1>9. \A q \in Runs : Running(q)' => Running(q) /\ work'[q] = work[q]
  BY <1>8 DEF Running
<1> QED BY <1>1, <1>7, <1>8, <1>9, RowsGo

LEMMA DeleteKeeps ==
  ASSUME IInv, NEW t \in Ids, Delete(t)
  PROVE  IInv'
<1>1. /\ transcription' = [transcription EXCEPT ![t] = None]
      /\ UNCHANGED <<created, step, about, work, failures, byClient>>
  BY DEF Delete
<1>2. RowsTyped /\ (\A u \in Ids : RowsOK(u)) /\ 1..created \subseteq Ids
  BY RowsFromInv
<1>3. \A u \in Ids : transcription'[u] = None \/ transcription'[u] = transcription[u]
  BY <1>1, <1>2 DEF RowsTyped
<1>4. RowsTyped'
  <2>1. transcription' \in [Ids -> Transcriptions \cup {None}]
    BY <1>1, <1>2 DEF RowsTyped
  <2>2. \A j \in Jobs : findByJobId(j)' \subseteq findByJobId(j)
    BY <1>3 DEF findByJobId
  <2> QED BY <1>1, <1>2, <1>3, <2>1, <2>2 DEF RowsTyped
<1>5. \A u \in Ids : RowsOK(u)'
  BY <1>1, <1>2, <1>3 DEF RowsOK, Source
<1>6. RowsKept
  <2>1. created <= created'
    <3>1. created \in Nat
      BY <1>2 DEF RowsTyped
    <3> QED BY <1>1, <3>1
  <2> QED BY <1>2, <1>3, <1>4, <1>5, <2>1 DEF RowsKept
<1>7. WorkTyped' /\ \A q \in Runs : RunOK(q)'
  <2>1. WorkTyped'
    BY <1>1, WorkFromInv DEF WorkTyped
  <2>2. \A q \in Runs : work'[q] = work[q] /\ step'[q] = step[q]
    BY <1>1
  <2> QED BY <2>1, <2>2, RunKept DEF IInv
<1>8. \A q \in Runs : Running(q)' => Running(q) /\ work'[q] = work[q]
  BY <1>1 DEF Running
<1> QED BY <1>1, <1>6, <1>7, <1>8, RowsGo

-----------------------------------------------------------------------------
(* Translating what is stored.                                              *)

\* The stored segments are read in the order of the segmentId, each once.
LEMMA ReadsRows ==
  ASSUME IInv, NEW t \in Ids, transcription[t] # None,
         NEW segments, segments = mapSegment(findByIdWithSegment(t))
  PROVE  /\ segments \in Seq(Segments)
         /\ ReadFrom(segments, transcription[t].segments)
         /\ \A i \in DOMAIN segments : Original(segments[i])
         /\ \A i, k \in DOMAIN segments : i < k => segments[i].segmentId < segments[k].segmentId
<1> DEFINE rows == transcription[t].segments
           source == Source(t)
<1>1. /\ transcription[t].job \in Jobs /\ rows \in Seq(Rows)
      /\ \A i \in DOMAIN rows : rows[i] \in Rows
  BY RowsFromInv
<1>2. Stored(rows, source)
  BY DEF IInv, RowsOK
<1>3. source \in Seq(Segments) /\ \A i \in DOMAIN source : Original(source[i])
  BY <1>1, SourceTyped DEF Source
<1>4. PICK sorted : sorted = BySegmentId(rows)
  OBVIOUS
<1>5. segments = mapSegment(sorted)
  BY <1>4 DEF findByIdWithSegment
<1> HIDE DEF rows, source
<1>6. /\ sorted \in Seq(Rows) /\ DOMAIN sorted = 1..Len(sorted)
      /\ \A i \in DOMAIN rows : \E r \in DOMAIN sorted : sorted[r] = rows[i]
      /\ \A r \in DOMAIN sorted : \E i \in DOMAIN rows : sorted[r] = rows[i]
      /\ \A i, k \in DOMAIN sorted : i < k => sorted[i].segmentId < sorted[k].segmentId
  <2>1. OwnIds(rows)
    BY <1>2 DEF Stored, OwnIds
  <2>2. \A x \in Rows : x.segmentId \in Nat
    BY DEF Rows
  <2> QED BY <1>1, <1>4, <2>1, <2>2, BySegmentIdSorts, SMTT(30)
<1>7. DOMAIN segments = DOMAIN sorted /\ \A r \in DOMAIN sorted : segments[r] = AsRead(sorted[r])
  BY <1>5 DEF mapSegment, AsRead
<1>8. \A row \in Rows : AsRead(row) \in Segments /\ AsRead(row).segmentId = row.segmentId
  BY DEF AsRead, Rows, Segments
<1>9. segments \in Seq(Segments)
  <2>1. \A r \in DOMAIN sorted : segments[r] \in Segments
    BY <1>1, <1>6, <1>7, <1>8
  <2>2. Len(sorted) \in Nat
    BY <1>6, LenProperties
  <2>3. segments = [r \in DOMAIN segments |-> segments[r]]
    BY <1>5 DEF mapSegment
  <2>4. segments \in [1..Len(sorted) -> Segments]
    BY <1>6, <1>7, <2>1, <2>3
  <2> QED BY <2>2, <2>4, SeqDef
<1>10. ReadFrom(segments, rows)
  <2>1. ASSUME NEW i \in DOMAIN rows PROVE \E k \in DOMAIN segments : segments[k] = AsRead(rows[i])
    <3>1. PICK r \in DOMAIN sorted : sorted[r] = rows[i]
      BY <1>6
    <3> QED BY <1>7, <3>1
  <2>2. ASSUME NEW k \in DOMAIN segments PROVE \E i \in DOMAIN rows : segments[k] = AsRead(rows[i])
    <3>1. PICK i \in DOMAIN rows : sorted[k] = rows[i]
      BY <1>6, <1>7
    <3> QED BY <1>7, <3>1
  <2> QED BY <2>1, <2>2 DEF ReadFrom
<1>11. ASSUME NEW k \in DOMAIN segments PROVE Original(segments[k])
  <2>1. PICK i \in DOMAIN rows : segments[k] = AsRead(rows[i])
    BY <1>10 DEF ReadFrom
  <2>2. InPlace(rows[i], source[i]) /\ i \in DOMAIN source
    <3>1. DOMAIN rows = 1..Len(rows) /\ DOMAIN source = 1..Len(source) /\ Len(rows) = Len(source)
      BY <1>1, <1>2, <1>3, LenProperties DEF Stored
    <3> QED BY <1>2, <3>1 DEF Stored
  <2>3. Original(source[i])
    BY <1>3, <2>2
  <2> QED BY <2>1, <2>2, <2>3 DEF Original, InPlace, AsRead
<1>12. ASSUME NEW i \in DOMAIN segments, NEW k \in DOMAIN segments, i < k
       PROVE  segments[i].segmentId < segments[k].segmentId
  <2>1. sorted[i] \in Rows /\ sorted[k] \in Rows /\ sorted[i].segmentId < sorted[k].segmentId
    BY <1>1, <1>6, <1>7, <1>12
  <2>2. segments[i] = AsRead(sorted[i]) /\ segments[k] = AsRead(sorted[k])
    BY <1>7
  <2> QED BY <1>8, <2>1, <2>2
<1> QED BY <1>9, <1>10, <1>11, <1>12 DEF rows

LEMMA TranslateReadsKeeps ==
  ASSUME IInv, NEW c \in Calls, TranslateReads(c)
  PROVE  IInv'
<1>1. /\ step[c] = "idle" /\ c \in Runs /\ step' = [step EXCEPT ![c] = "group"]
      /\ UNCHANGED <<transcription, created, failures, byClient>>
  BY DEF TranslateReads, Runs
<1>2. PICK t \in Ids, target \in Wanted :
        /\ transcription[t] # None
        /\ about' = [about EXCEPT ![c] = t]
        /\ translateAll(c, mapSegment(findByIdWithSegment(t)), target, TRUE)
  BY DEF TranslateReads
<1>3. PICK segments : segments = mapSegment(findByIdWithSegment(t))
  OBVIOUS
<1>4. /\ segments \in Seq(Segments) /\ ReadFrom(segments, transcription[t].segments)
      /\ \A i \in DOMAIN segments : Original(segments[i])
  BY <1>2, <1>3, ReadsRows
<1>5. translateAll(c, segments, target, TRUE) /\ target \in Languages
  BY <1>2, <1>3, TranscriptsAssumption
<1>6. /\ WorkTyped' /\ \A q \in Runs : RunOK(q)'
      /\ Running(c)' /\ work'[c].segments = segments /\ work'[c].translateSub = TRUE
      /\ \A q \in Runs : q # c => work'[q] = work[q] /\ step'[q] = step[q]
  BY <1>1, <1>4, <1>5, Starts
<1>7. about' \in [Calls -> Ids \cup {None}] /\ about'[c] = t
      /\ \A d \in Calls : d # c => about'[d] = about[d]
  BY <1>2 DEF IInv, TypeOK
<1>8. TypeOK'
  <2>1. RowsTyped' /\ failures' \in 0..MaxFailures
    BY <1>1, RowsFromInv DEF RowsTyped, findByJobId, IInv, TypeOK
  <2> QED BY <1>6, <1>7, <2>1 DEF TypeOK, RowsTyped, WorkTyped, Works, Labels
<1>9. \A j \in Jobs : CallbackOK(j)'
  <2>1. \A j \in Jobs : j \in Runs /\ j # c
    BY TranscriptsAssumption DEF Runs
  <2>2. \A j \in Jobs : work'[j] = work[j] /\ step'[j] = step[j]
    BY <1>6, <2>1
  <2> QED BY <2>2 DEF IInv, CallbackOK, Running
<1>10. CallOK(c)'
  <2>1. t \in 1..created
    <3>1. t <= created /\ created \in Nat
      BY <1>2, RowsFromInv DEF RowsTyped
    <3> QED BY <3>1 DEF Ids
  <2> QED BY <1>1, <1>4, <1>6, <1>7, <2>1 DEF CallOK
<1>11. ASSUME NEW d \in Calls, d # c PROVE CallOK(d)'
  <2>1. work'[d] = work[d] /\ step'[d] = step[d] /\ about'[d] = about[d]
    BY <1>6, <1>7, <1>11 DEF Runs
  <2> QED BY <1>1, <2>1 DEF IInv, CallOK, Running
<1>12. \A t2 \in Ids : RowsOK(t2)'
  BY <1>1 DEF IInv, RowsOK, Source
<1> QED BY <1>6, <1>8, <1>9, <1>10, <1>11, <1>12 DEF IInv

LEMMA CallbackDownloadsKeeps ==
  ASSUME IInv, NEW j \in Jobs, CallbackDownloads(j)
  PROVE  IInv'
<1>1. /\ step[j] = "idle" /\ j \in Runs /\ step' = [step EXCEPT ![j] = "group"]
      /\ UNCHANGED <<transcription, created, about, failures, byClient>>
      /\ translateAll(j, Recorded[j], Target[j], FALSE)
  BY DEF CallbackDownloads, Runs
<1>2. /\ Recorded[j] \in Seq(Segments) /\ \A i \in DOMAIN Recorded[j] : Original(Recorded[j][i])
      /\ Target[j] \in Languages
  BY SourceTyped, TranscriptsAssumption
<1>3. /\ WorkTyped' /\ \A q \in Runs : RunOK(q)'
      /\ Running(j)' /\ work'[j].segments = Recorded[j] /\ work'[j].translateSub = FALSE
      /\ \A q \in Runs : q # j => work'[q] = work[q] /\ step'[q] = step[q]
  BY <1>1, <1>2, Starts
<1>4. TypeOK'
  <2>1. RowsTyped' /\ failures' \in 0..MaxFailures /\ about' \in [Calls -> Ids \cup {None}]
    BY <1>1, RowsFromInv DEF RowsTyped, findByJobId, IInv, TypeOK
  <2> QED BY <1>3, <2>1 DEF TypeOK, RowsTyped, WorkTyped, Works, Labels
<1>5. \A i \in Jobs : CallbackOK(i)'
  <2>1. ASSUME NEW i \in Jobs, i # j PROVE CallbackOK(i)'
    <3>1. work'[i] = work[i] /\ step'[i] = step[i]
      BY <1>3, <2>1 DEF Runs
    <3> QED BY <3>1 DEF IInv, CallbackOK, Running
  <2>2. CallbackOK(j)'
    BY <1>3 DEF CallbackOK
  <2> QED BY <2>1, <2>2
<1>6. \A c \in Calls : CallOK(c)'
  <2>1. \A c \in Calls : c \in Runs /\ c # j
    BY TranscriptsAssumption DEF Runs
  <2>2. \A c \in Calls : work'[c] = work[c] /\ step'[c] = step[c]
    BY <1>3, <2>1
  <2> QED BY <1>1, <2>2 DEF IInv, CallOK, Running
<1>7. \A t \in Ids : RowsOK(t)'
  BY <1>1 DEF IInv, RowsOK, Source
<1> QED BY <1>3, <1>4, <1>5, <1>6, <1>7 DEF IInv

\* What a call stores: of every row what it was, and a text of its line, or nothing, as the
\* language of the row is the one asked for or another.
LEMMA UpdatedRow ==
  ASSUME IInv, NEW c \in Calls, Translated(c), NEW t, t = about[c], transcription[t] # None,
         NEW i \in DOMAIN transcription[t].segments
  PROVE  LET row == transcription[t].segments[i]
             new == Updated(c, row)
         IN  /\ new \in Rows /\ new.segmentId = row.segmentId /\ new.language = row.language
             /\ AsRead(new) = AsRead(row)
             /\ \A s : InPlace(row, s) => InPlace(new, s)
             /\ new.translatedBy = IF SameLanguage(row.language, work[c].target)
                                   THEN row.translatedBy ELSE c
<1> DEFINE rows == transcription[t].segments
           w == work[c]
           segments == w.segments
           results == w.results
<1>1. c \in Runs /\ Running(c) /\ step[c] = "group"
  BY DEF Translated, Running, Runs
<1>2. t \in 1..created /\ t \in Ids /\ w.translateSub /\ ReadFrom(segments, rows)
  BY <1>1, RowsFromInv DEF IInv, CallOK
<1>3. rows \in Seq(Rows) /\ \A a \in DOMAIN rows : rows[a] \in Rows
  BY <1>2, RowsFromInv
<1>4. Stored(rows, Source(t))
  BY <1>2 DEF IInv, RowsOK
<1>5. /\ DOMAIN results = DOMAIN segments
      /\ \A a \in DOMAIN results : results[a] \in Results \cup {None}
  <2>1. DOMAIN results = DOMAIN segments /\ results \in Seq(Results \cup {None})
    BY <1>1, RunTypes
  <2> QED BY <2>1, LenProperties
<1>6. \A a \in DOMAIN segments :
        /\ results[a] \in Results /\ InPlace(results[a], segments[a])
        /\ results[a].translatedText = None <=> SameLanguage(segments[a].language, w.target)
  <2>1. ASSUME NEW a \in DOMAIN segments PROVE results[a] # None /\ Settled(w, a)
    <3>1. results[a] # None
      BY <1>1, LinesFromInv DEF LinesStayInPlace
    <3> QED BY <1>1, <3>1 DEF IInv, RunOK
  <2> QED BY <1>2, <1>5, <2>1 DEF Settled
<1>7. PICK row \in Rows : row = rows[i]
  BY <1>3
<1>8. PICK k : k = CHOOSE x \in DOMAIN results : results[x].segmentId = row.segmentId
  OBVIOUS
<1>9. k \in DOMAIN segments /\ results[k].segmentId = row.segmentId
  <2>1. PICK a \in DOMAIN segments : segments[a] = AsRead(row)
    BY <1>2, <1>7 DEF ReadFrom
  <2>2. a \in DOMAIN results /\ results[a].segmentId = row.segmentId
    BY <1>5, <1>6, <2>1 DEF InPlace, AsRead
  <2>3. k \in DOMAIN results /\ results[k].segmentId = row.segmentId
    <3> HIDE DEF results
    <3> QED BY <1>8, <2>2, Zenon
  <2> QED BY <1>5, <2>3
<1>10. segments[k] = AsRead(row)
  <2>1. PICK a \in DOMAIN rows : segments[k] = AsRead(rows[a])
    BY <1>2, <1>9 DEF ReadFrom
  <2>2. rows[a].segmentId = row.segmentId
    <3>1. AsRead(rows[a]).segmentId = rows[a].segmentId
      BY DEF AsRead
    <3>2. results[k].segmentId = segments[k].segmentId
      BY <1>6, <1>9, Zenon DEF InPlace
    <3> QED BY <1>9, <2>1, <3>1, <3>2, Zenon
  <2>3. a = i
    BY <1>4, <1>7, <2>2 DEF Stored
  <2> QED BY <1>7, <2>1, <2>3
<1>11. PICK text : text = results[k].translatedText
  OBVIOUS
<1>12. /\ text \in Texts \cup {None}
       /\ text = None <=> SameLanguage(row.language, w.target)
       /\ text # None => text.line = row.text.line
  <2>1. results[k] \in Results /\ InPlace(results[k], segments[k])
        /\ (results[k].translatedText = None <=> SameLanguage(segments[k].language, w.target))
    BY <1>6, <1>9
  <2>2. text \in Texts \cup {None}
    BY <1>11, <2>1 DEF Results
  <2>3. segments[k].language = row.language /\ segments[k].text = row.text
    BY <1>10 DEF AsRead
  <2> HIDE DEF segments, results
  <2> QED BY <1>11, <2>1, <2>2, <2>3 DEF InPlace
<1>13. PICK new : new = Updated(c, row)
  OBVIOUS
<1>14. new = IF text = None THEN row ELSE [row EXCEPT !.translatedText = text, !.translatedBy = c]
  <2> DEFINE first == CHOOSE a \in DOMAIN results : results[a].segmentId = row.segmentId
             found == results[first].translatedText
  <2>1. new = IF found = None THEN row ELSE [row EXCEPT !.translatedText = found, !.translatedBy = c]
    BY <1>13 DEF Updated
  <2>2. found = text
    BY <1>8, <1>11
  <2> HIDE DEF found
  <2> QED BY <2>1, <2>2
<1>15. /\ new \in Rows /\ new.segmentId = row.segmentId /\ new.language = row.language
       /\ AsRead(new) = AsRead(row)
       /\ new.translatedBy = IF SameLanguage(row.language, w.target) THEN row.translatedBy ELSE c
  <2>1. CASE text = None
    BY <1>12, <1>14, <2>1
  <2>2. CASE text # None
    <3>1. text \in Texts /\ ~SameLanguage(row.language, w.target)
      BY <1>12, <2>2
    <3>2. new = [row EXCEPT !.translatedText = text, !.translatedBy = c]
      BY <1>14, <2>2
    <3> QED BY <3>1, <3>2 DEF Rows, AsRead
  <2> QED BY <2>1, <2>2
<1>16. ASSUME NEW s, InPlace(row, s) PROVE InPlace(new, s)
  <2>1. CASE text = None
    BY <1>14, <1>16, <2>1
  <2>2. CASE text # None
    <3>1. new = [row EXCEPT !.translatedText = text, !.translatedBy = c] /\ text.line = row.text.line
      BY <1>12, <1>14, <2>2
    <3> QED BY <1>16, <3>1 DEF InPlace, Rows
  <2> QED BY <2>1, <2>2
<1> QED BY <1>7, <1>13, <1>15, <1>16

LEMMA TranslateStoresKeeps ==
  ASSUME IInv, NEW c \in Calls, TranslateStores(c)
  PROVE  IInv'
<1>0. PICK t : t = about[c]
  OBVIOUS
<1> DEFINE rows == transcription[t].segments
<1>1. /\ step[c] = "group" /\ Translated(c) /\ Running(c) /\ c \in Runs
      /\ step' = [step EXCEPT ![c] = "done"] /\ work' = [work EXCEPT ![c] = NoWork]
      /\ UNCHANGED <<created, about, failures, byClient>>
  BY DEF TranslateStores, Translated, Running, Runs
<1>2. /\ WorkTyped' /\ \A q \in Runs : RunOK(q)'
      /\ ~Running(c)' /\ \A q \in Runs : q # c => work'[q] = work[q] /\ step'[q] = step[q]
  BY <1>1, Ends
<1>3. \A q \in Runs : Running(q)' => Running(q) /\ work'[q] = work[q]
  BY <1>2 DEF Running
<1>4. RowsTyped /\ (\A u \in Ids : RowsOK(u)) /\ 1..created \subseteq Ids /\ t \in 1..created
  BY <1>0, <1>1, RowsFromInv DEF IInv, CallOK
<1>5. RowsKept
  <2>1. CASE transcription[t] = None
    <3>1. UNCHANGED <<transcription, created, byClient>>
      BY <1>0, <1>1, <2>1 DEF TranslateStores
    <3> QED BY <3>1, RowsFromInv DEF RowsKept, RowsTyped, RowsOK, Source, findByJobId
  <2>2. CASE transcription[t] # None
    <3> DEFINE new == [i \in DOMAIN rows |-> Updated(c, rows[i])]
    <3>1. transcription' = [transcription EXCEPT ![t].segments = new]
      BY <1>0, <2>2 DEF TranslateStores, updateTranslatedSegments
    <3>2. PICK old \in Transcriptions : old = transcription[t]
      BY <1>4, <2>2 DEF RowsTyped
    <3>3. rows = old.segments /\ rows \in Seq(Rows) /\ old.job \in Jobs
      BY <3>2 DEF Transcriptions
    <3>4. Stored(rows, Source(t))
      BY <1>4, <2>2 DEF RowsOK
    <3>5. \A i \in DOMAIN rows :
            /\ new[i] = Updated(c, rows[i])
            /\ new[i] \in Rows /\ new[i].segmentId = rows[i].segmentId
            /\ new[i].language = rows[i].language /\ AsRead(new[i]) = AsRead(rows[i])
            /\ \A s : InPlace(rows[i], s) => InPlace(new[i], s)
            /\ new[i].translatedBy = IF SameLanguage(rows[i].language, work[c].target)
                                     THEN rows[i].translatedBy ELSE c
      <4>1. \A i \in DOMAIN rows : new[i] = Updated(c, rows[i])
        OBVIOUS
      <4>2. ASSUME NEW i \in DOMAIN rows
            PROVE  LET row == rows[i]
                       n == Updated(c, row)
                   IN  /\ n \in Rows /\ n.segmentId = row.segmentId /\ n.language = row.language
                       /\ AsRead(n) = AsRead(row)
                       /\ \A s : InPlace(row, s) => InPlace(n, s)
                       /\ n.translatedBy = IF SameLanguage(row.language, work[c].target)
                                           THEN row.translatedBy ELSE c
        BY <1>0, <1>1, <2>2, UpdatedRow, SMTT(30)
      <4> HIDE DEF new
      <4> QED BY <4>1, <4>2
    <3>6. new \in Seq(Rows) /\ DOMAIN new = DOMAIN rows /\ Len(new) = Len(rows)
      <4>1. DOMAIN rows = 1..Len(rows) /\ Len(rows) \in Nat
        BY <3>3, LenProperties
      <4>2. DOMAIN new = DOMAIN rows /\ new = [i \in DOMAIN new |-> new[i]]
        OBVIOUS
      <4> HIDE DEF new, rows
      <4>3. new \in [1..Len(rows) -> Rows]
        BY <3>5, <4>1, <4>2
      <4>4. new \in Seq(Rows)
        BY <4>1, <4>3, SeqDef
      <4>5. Len(new) = Len(rows)
        BY <4>1, <4>2, <4>4, LenProperties
      <4> QED BY <4>2, <4>4, <4>5
    <3> HIDE DEF new
    <3>7. PICK now : now = [old EXCEPT !.segments = new]
      OBVIOUS
    <3>8. now \in Transcriptions /\ now.job = old.job /\ now.segments = new
      BY <3>6, <3>7 DEF Transcriptions
    <3>9. now # None /\ old # None
      BY <3>8, TranscriptsAssumption
    <3>10. /\ transcription'[t] = now
           /\ \A u \in Ids : u # t => transcription'[u] = transcription[u]
           /\ transcription' \in [Ids -> Transcriptions \cup {None}]
      <4>1. transcription' = [transcription EXCEPT ![t] = now]
        BY <1>4, <3>1, <3>2, <3>7 DEF RowsTyped
      <4> QED BY <1>4, <3>8, <4>1 DEF RowsTyped
    <3>11. \A u \in Ids : /\ transcription'[u] # None <=> transcription[u] # None
                          /\ transcription[u] # None => transcription'[u].job = transcription[u].job
      BY <3>2, <3>8, <3>9, <3>10
    <3>12. RowsTyped'
      <4>1. \A j \in Jobs : findByJobId(j)' = findByJobId(j)
        BY <3>11 DEF findByJobId
      <4> QED BY <1>1, <1>4, <3>10, <3>11, <4>1 DEF RowsTyped
    <3>13. Stored(new, Source(t))
      <4>1. \A i \in DOMAIN new : InPlace(new[i], Source(t)[i])
        BY <3>4, <3>5, <3>6 DEF Stored
      <4>2. ASSUME NEW i \in DOMAIN new, NEW k \in DOMAIN new
            PROVE  /\ i # k => new[i].segmentId # new[k].segmentId
                   /\ new[i].language = new[k].language /\ new[i].translatedBy = new[k].translatedBy
        <5>1. /\ i # k => rows[i].segmentId # rows[k].segmentId
              /\ rows[i].language = rows[k].language /\ rows[i].translatedBy = rows[k].translatedBy
          BY <3>4, <3>6 DEF Stored
        <5> QED BY <3>5, <3>6, <5>1
      <4> QED BY <3>4, <3>6, <4>1, <4>2 DEF Stored
    <3>14. ASSUME NEW u \in Ids PROVE RowsOK(u)'
      <4>1. CASE u = t
        <5>1. Source(t)' = Source(t)
          BY <1>1, <3>2, <3>8, <3>10 DEF Source
        <5> QED BY <3>8, <3>10, <3>13, <4>1, <5>1 DEF RowsOK
      <4>2. CASE u # t
        BY <1>1, <1>4, <3>10, <4>2 DEF RowsOK, Source
      <4> QED BY <4>1, <4>2
    <3>15. ASSUME NEW segments, ReadFrom(segments, rows) PROVE ReadFrom(segments, new)
      BY <3>5, <3>6, <3>15 DEF ReadFrom
    <3>16. ASSUME NEW u \in 1..created
           PROVE  \/ transcription'[u] = None
                  \/ /\ transcription[u] # None
                     /\ \A segments : ReadFrom(segments, transcription[u].segments) =>
                                      ReadFrom(segments, transcription'[u].segments)
      <4>1. CASE u = t
        <5>1. transcription'[u].segments = new /\ transcription[u].segments = rows
          BY <3>8, <3>10, <4>1
        <5> QED BY <2>2, <3>15, <4>1, <5>1
      <4>2. CASE u # t
        BY <1>4, <3>10, <4>2
      <4> QED BY <4>1, <4>2
    <3>17. created <= created'
      <4>1. created \in Nat
        BY <1>4 DEF RowsTyped
      <4> QED BY <1>1, <4>1
    <3> QED BY <3>12, <3>14, <3>16, <3>17 DEF RowsKept
  <2> QED BY <2>1, <2>2
<1> QED BY <1>1, <1>2, <1>3, <1>5, RowsGo

-----------------------------------------------------------------------------
(* The theorems.                                                            *)

LEMMA InvStep == IInv /\ [Next]_vars => IInv'
<1> SUFFICES ASSUME IInv, [Next]_vars PROVE IInv'
  OBVIOUS
<1>1. ASSUME NEW p \in Runs, RunStep(p) PROVE IInv'
  <2>1. CASE NextGroup(p)
    BY <2>1, NextGroupKeeps
  <2>2. CASE TranslateBatch(p)
    BY <2>2, TranslateBatchKeeps
  <2>3. CASE TranslateOneByOne(p)
    BY <2>3, TranslateOneByOneKeeps
  <2>4. CASE GroupDone(p)
    BY <2>4, GroupDoneKeeps
  <2> QED BY <1>1, <2>1, <2>2, <2>3, <2>4 DEF RunStep
<1>2. ASSUME NEW j \in Jobs, CallbackDownloads(j) PROVE IInv'
  BY <1>2, CallbackDownloadsKeeps
<1>3. ASSUME NEW j \in Jobs, CallbackPublishes(j) PROVE IInv'
  BY <1>3, CallbackPublishesKeeps
<1>4. ASSUME NEW j \in Jobs, Create(j) PROVE IInv'
  BY <1>4, CreateKeeps
<1>5. ASSUME NEW c \in Calls, TranslateReads(c) PROVE IInv'
  BY <1>5, TranslateReadsKeeps
<1>6. ASSUME NEW c \in Calls, TranslateStores(c) PROVE IInv'
  BY <1>6, TranslateStoresKeeps
<1>7. ASSUME NEW t \in Ids, Delete(t) PROVE IInv'
  BY <1>7, DeleteKeeps
<1>8. CASE UNCHANGED vars
  <2>1. UNCHANGED <<transcription, created, step, about, work, failures, byClient>>
    BY <1>8 DEF vars
  <2>2. RowsKept
    BY <2>1, RowsFromInv DEF RowsKept, RowsTyped, RowsOK, Source, findByJobId
  <2>3. WorkTyped'
    BY <2>1, WorkFromInv DEF WorkTyped
  <2>4. \A q \in Runs : work'[q] = work[q] /\ step'[q] = step[q]
    BY <2>1
  <2>5. \A q \in Runs : RunOK(q)'
    BY <2>4, RunKept DEF IInv
  <2>6. \A q \in Runs : Running(q)' => Running(q) /\ work'[q] = work[q]
    BY <2>4 DEF Running
  <2> QED BY <2>1, <2>2, <2>3, <2>5, <2>6, RowsGo
<1> QED BY <1>1, <1>2, <1>3, <1>4, <1>5, <1>6, <1>7, <1>8 DEF Next

\* IInv is an invariant: translateAll's groups, batches and results stay together, and the rows
\* stay what was recorded or posted, whatever callbacks, calls, clients and deletions do.
THEOREM InvInvariant == Spec => []IInv
<1>1. Init => IInv
  BY InvInit
<1>2. IInv /\ [Next]_vars => IInv'
  BY InvStep
<1> QED BY <1>1, <1>2, PTL DEF Spec

\* Every variable keeps its type: a job has one transcription, and translateAll has one place
\* for the result of each segment.
THEOREM TypeCorrect == Spec => []TypeOK
<1>1. IInv => TypeOK
  BY DEF IInv
<1> QED BY <1>1, InvInvariant, PTL

\* "Map back to the original position", "never drop a line": whatever languages are mixed, at
\* whatever limits of a request and whichever requests fail, translateAll returns every line at
\* its place, and what is stored is what was recorded or posted, with texts of the same lines.
THEOREM LinesAlwaysInPlace == Spec => []LinesStayInPlace
<1>1. IInv => LinesStayInPlace
  BY LinesFromInv
<1> QED BY <1>1, InvInvariant, PTL

\* The translated texts of a transcription are of one request, however many translate it at
\* once: one transaction stores them all, and which it stores depends on the languages alone.
THEOREM OneTranslationAlways == Spec => []OneTranslation
<1>1. IInv => OneTranslation
  BY OneFromInv
<1> QED BY <1>1, InvInvariant, PTL

\* Every request to Google stays within both limits, unless it is one text over the limit by
\* itself, and the requests still to come are the rest of the group, in order.
THEOREM RequestsAlwaysFit == Spec => []RequestsFit
<1>1. IInv => RequestsFit
  BY FitFromInv
<1> QED BY <1>1, InvInvariant, PTL

\* Segments that end after they start, one after the other by their segmentId.
InTime(segments) ==
  \A i, k \in DOMAIN segments :
    /\ segments[i].startTime <= segments[i].endTime
    /\ segments[i].segmentId < segments[k].segmentId => segments[i].endTime <= segments[k].startTime
SpokenInTime == \A j \in Jobs : InTime(Recorded[j]) /\ InTime(Posted[j])

LEMMA CuesFromInv == ASSUME SpokenInTime, IInv PROVE CuesInOrder
<1> SUFFICES ASSUME NEW j \in Jobs, NEW format \in Timed, HasSubtitle(j)
             PROVE  LET cues == Subtitle(j, format) IN
                    \A i, k \in DOMAIN cues :
                      /\ Readable(format, cues[i].start) /\ Readable(format, cues[i].end)
                      /\ NotAfter(cues[i].start, cues[i].end)
                      /\ i < k => NotAfter(cues[i].end, cues[k].start)
  BY DEF CuesInOrder
<1>1. PICK t : t = CHOOSE x \in Ids : x \in findByJobId(j)
  OBVIOUS
<1>2. t \in Ids /\ t \in findByJobId(j)
  <2>1. \E u \in Ids : u \in findByJobId(j)
    BY DEF HasSubtitle, findByJobId
  <2> QED BY <1>1, <2>1, Zenon
<1>3. transcription[t] # None
  BY <1>2 DEF findByJobId
<1> DEFINE rows == transcription[t].segments
           source == Source(t)
<1>4. PICK segments : segments = mapSegment(findByIdWithSegment(t))
  OBVIOUS
<1>5. /\ segments \in Seq(Segments) /\ ReadFrom(segments, rows)
      /\ \A i, k \in DOMAIN segments : i < k => segments[i].segmentId < segments[k].segmentId
  BY <1>2, <1>3, <1>4, ReadsRows
<1>6. /\ transcription[t].job \in Jobs /\ rows \in Seq(Rows) /\ Stored(rows, source)
  BY <1>2, <1>3, RowsFromInv DEF RowsOK
<1>7. source \in Seq(Segments) /\ InTime(source)
  BY <1>6, SourceTyped DEF Source, SpokenInTime
<1>8. Subtitle(j, format) = formatSubtitle(segments, format, FALSE)
  BY <1>1, <1>4 DEF Subtitle, findByJobIdWithSegments
<1> HIDE DEF rows, source
<1>9. /\ DOMAIN segments \subseteq Nat
      /\ \A i \in DOMAIN segments : segments[i].startTime \in Nat /\ segments[i].endTime \in Nat
  <2>1. DOMAIN segments \subseteq Nat /\ \A i \in DOMAIN segments : segments[i] \in Segments
    BY <1>5, LenProperties
  <2> QED BY <2>1 DEF Segments
<1>10. ASSUME NEW k \in DOMAIN segments
       PROVE  \E i \in DOMAIN source : /\ segments[k].segmentId = source[i].segmentId
                                       /\ segments[k].startTime = source[i].startTime
                                       /\ segments[k].endTime = source[i].endTime
  <2>1. PICK i \in DOMAIN rows : segments[k] = AsRead(rows[i])
    BY <1>5 DEF ReadFrom
  <2>2. InPlace(rows[i], source[i]) /\ i \in DOMAIN source
    <3>1. DOMAIN rows = 1..Len(rows) /\ DOMAIN source = 1..Len(source) /\ Len(rows) = Len(source)
      BY <1>6, <1>7, LenProperties DEF Stored
    <3> QED BY <1>6, <3>1 DEF Stored
  <2> QED BY <2>1, <2>2 DEF AsRead, InPlace
<1>11. \A i \in DOMAIN segments : segments[i].startTime <= segments[i].endTime
  BY <1>7, <1>10 DEF InTime
<1>12. ASSUME NEW i \in DOMAIN segments, NEW k \in DOMAIN segments, i < k
       PROVE  segments[i].endTime <= segments[k].startTime
  <2>1. segments[i].segmentId < segments[k].segmentId
    BY <1>5, <1>12
  <2>2. PICK a \in DOMAIN source : /\ segments[i].segmentId = source[a].segmentId
                                   /\ segments[i].endTime = source[a].endTime
    BY <1>10
  <2>3. PICK b \in DOMAIN source : /\ segments[k].segmentId = source[b].segmentId
                                   /\ segments[k].startTime = source[b].startTime
    BY <1>10
  <2> QED BY <1>7, <2>1, <2>2, <2>3 DEF InTime
<1>13. PICK S, no, cues :
         S = DOMAIN segments /\ no = FALSE /\ cues = formatSubtitle(segments, format, no)
  OBVIOUS
<1>14. /\ DOMAIN cues = S
       /\ \A i \in S : /\ Readable(format, cues[i].start) /\ Readable(format, cues[i].end)
                       /\ NotAfter(cues[i].start, cues[i].end)
       /\ \A i, k \in S : i < k => NotAfter(cues[i].end, cues[k].start)
  <2>1. /\ DOMAIN segments = S /\ S \subseteq Nat
        /\ \A i \in S : segments[i].startTime \in Nat /\ segments[i].endTime \in Nat
        /\ \A i \in S : segments[i].startTime <= segments[i].endTime
        /\ \A i, k \in S : i < k => segments[i].endTime <= segments[k].startTime
    BY <1>9, <1>11, <1>12, <1>13
  <2> QED BY <1>13, <2>1, CuesFollowSegments
<1> QED BY <1>8, <1>13, <1>14, Zenon

\* When what was recorded and posted is in order by its segmentId, in whatever order it came,
\* every file of it with times shows one line after the other, whatever the times round to.
THEOREM CuesAlwaysInOrder == ASSUME SpokenInTime PROVE Spec => []CuesInOrder
<1>1. IInv => CuesInOrder
  BY CuesFromInv
<1> QED BY <1>1, InvInvariant, PTL
=============================================================================
