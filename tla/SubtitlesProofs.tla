--------------------------- MODULE SubtitlesProofs ---------------------------
(* Theorems about Subtitles.                                                *)
EXTENDS Subtitles, Integers, FiniteSetTheorems, SequenceTheorems, TLAPS

\* x is k units and a rest; an hour is sixty minutes, a minute sixty seconds of n each; and x
\* is the instant that the fields h, m, s and f show. Left unexpanded where only the lemmas
\* about them matter.
Splits(x, unit, k, rest) == k \in Nat /\ rest \in 0..(unit - 1) /\ x = unit * k + rest
Clock(n, minute, hour) == /\ n \in Nat /\ n > 0 /\ minute \in Nat /\ minute > 0 /\ minute = 60 * n
                          /\ hour \in Nat /\ hour > 0 /\ hour = 60 * minute
Shows(x, n, minute, hour, h, m, s, f) ==
  /\ x \in Nat /\ h \in Nat /\ m \in 0..59 /\ s \in 0..59 /\ f \in 0..(n - 1)
  /\ x = hour * h + minute * m + n * s + f

\* Euclid's division, and that no other remainder will do.
LEMMA Division ==
  ASSUME NEW d \in Nat, d > 0, NEW x \in Nat, NEW q, q = x \div d, NEW r, r = x % d
  PROVE  q \in Nat /\ r \in 0..(d - 1) /\ x = d * q + r
OBVIOUS

LEMMA Split ==
  ASSUME NEW d \in Nat, d > 0, NEW x \in Nat
  PROVE  Splits(x, d, x \div d, x % d) /\ x \div d \in Nat /\ x % d \in Nat
<1>1. PICK q, r : q = x \div d /\ r = x % d
  OBVIOUS
<1>2. q \in Nat /\ r \in 0..(d - 1) /\ x = d * q + r
  BY <1>1, Division
<1>3. r \in Nat
  BY <1>2
<1> QED BY <1>1, <1>2, <1>3, Zenon DEF Splits

LEMMA Remainder ==
  ASSUME NEW d \in Nat, d > 0, NEW x \in Nat, NEW q, NEW r, Splits(x, d, q, r)
  PROVE  x % d = r
BY DEF Splits

LEMMA Fits ==
  ASSUME NEW d \in Nat, d > 0, NEW q \in Nat, d * q < d * 60
  PROVE  q < 60
OBVIOUS

\* Hours and minutes counted in minutes; with seconds, counted in seconds.
LEMMA InMinutes ==
  ASSUME NEW minute \in Nat, NEW h \in Nat, NEW m \in Nat
  PROVE  (60 * minute) * h + minute * m = minute * (60 * h + m)
OBVIOUS

LEMMA InSeconds ==
  ASSUME NEW n \in Nat, NEW k \in Nat, NEW s \in Nat
  PROVE  (60 * n) * k + n * s = n * (60 * k + s)
OBVIOUS

\* Dividing by the hour, the rest by the minute and its rest by the second leaves the rests
\* of x itself.
LEMMA Chain ==
  ASSUME NEW n, NEW minute, NEW hour, Clock(n, minute, hour), NEW x \in Nat,
         NEW h, NEW y, Splits(x, hour, h, y), NEW m, NEW z, Splits(y, minute, m, z),
         NEW s, NEW f, Splits(z, n, s, f)
  PROVE  x % minute = z /\ x % n = f /\ Shows(x, n, minute, hour, h, m, s, f)
<1>1. /\ n \in Nat /\ n > 0 /\ minute \in Nat /\ minute > 0 /\ minute = 60 * n
      /\ hour \in Nat /\ hour > 0 /\ hour = 60 * minute
  BY DEF Clock
<1>2. /\ h \in Nat /\ y \in 0..(hour - 1) /\ x = hour * h + y
      /\ m \in Nat /\ z \in 0..(minute - 1) /\ y = minute * m + z
      /\ s \in Nat /\ f \in 0..(n - 1) /\ z = n * s + f
  BY DEF Splits
<1>3. m < 60
  <2>1. minute * m < minute * 60
    BY <1>1, <1>2
  <2> QED BY ONLY <1>1, <1>2, <2>1, Fits
<1>4. s < 60
  <2>1. n * s < n * 60
    BY <1>1, <1>2
  <2> QED BY ONLY <1>1, <1>2, <2>1, Fits
<1>5. /\ hour * h \in Nat /\ minute * m \in Nat /\ n * s \in Nat
      /\ y \in Nat /\ z \in Nat /\ f \in Nat
  BY <1>1, <1>2
<1>6. PICK k : k = 60 * h + m
  OBVIOUS
<1>7. k \in Nat /\ x = minute * k + z
  <2>1. hour * h + minute * m = minute * k
    BY ONLY <1>1, <1>2, <1>6, InMinutes
  <2> QED BY ONLY <1>2, <1>5, <1>6, <2>1
<1>8. x % minute = z
  <2>1. Splits(x, minute, k, z)
    BY ONLY <1>2, <1>7 DEF Splits
  <2> QED BY <1>1, <2>1, Remainder, Zenon
<1>9. x % n = f
  <2>1. PICK j : j = 60 * k + s
    OBVIOUS
  <2>2. minute * k + n * s = n * j
    BY ONLY <1>1, <1>2, <1>7, <2>1, InSeconds
  <2>3. minute * k \in Nat /\ j \in Nat
    BY ONLY <1>1, <1>2, <1>7, <2>1
  <2>4. x = n * j + f
    BY ONLY <1>2, <1>5, <1>7, <2>2, <2>3
  <2>5. Splits(x, n, j, f)
    BY ONLY <1>2, <2>3, <2>4 DEF Splits
  <2> QED BY <1>1, <2>5, Remainder, Zenon
<1>10. x = hour * h + minute * m + n * s + f
  BY ONLY <1>2, <1>5
<1>11. m \in 0..59 /\ s \in 0..59
  BY ONLY <1>2, <1>3, <1>4
<1> QED BY <1>2, <1>8, <1>9, <1>10, <1>11, Zenon DEF Shows

\* The fields of x, taken as the code takes them.
LEMMA Cut ==
  ASSUME NEW n, NEW minute, NEW hour, Clock(n, minute, hour), NEW x \in Nat
  PROVE  Shows(x, n, minute, hour, x \div hour, (x % hour) \div minute, (x % minute) \div n, x % n)
<1>1. /\ n \in Nat /\ n > 0 /\ minute \in Nat /\ minute > 0 /\ hour \in Nat /\ hour > 0
  BY DEF Clock
<1>2. PICK y : y = x % hour
  OBVIOUS
<1>3. Splits(x, hour, x \div hour, y) /\ y \in Nat
  BY ONLY x \in Nat, <1>1, <1>2, Split
<1>4. PICK z : z = y % minute
  OBVIOUS
<1>5. Splits(y, minute, y \div minute, z) /\ z \in Nat
  BY ONLY <1>1, <1>3, <1>4, Split
<1>6. Splits(z, n, z \div n, z % n)
  BY ONLY <1>1, <1>5, Split
<1>7. /\ x % minute = z /\ x % n = z % n
      /\ Shows(x, n, minute, hour, x \div hour, y \div minute, z \div n, z % n)
  BY <1>3, <1>5, <1>6, Chain, Zenon
<1> QED BY <1>2, <1>7, Zenon

\* Of two numbers divided by the same d, the smaller has the smaller quotient, or the same
\* and no larger remainder.
LEMMA QuotientFirst ==
  ASSUME NEW d \in Nat, d > 0, NEW q \in Nat, NEW p \in Nat,
         NEW r \in 0..(d - 1), NEW g \in 0..(d - 1), d * q + r <= d * p + g
  PROVE  q < p \/ (q = p /\ r <= g)
<1>1. CASE q > p
  <2>1. d * q >= d * (p + 1)
    BY <1>1
  <2>2. d * (p + 1) = d * p + d
    OBVIOUS
  <2> QED BY <2>1, <2>2
<1>2. CASE q = p
  BY <1>2
<1> QED BY <1>1, <1>2

\* A field below 60 times its unit d, with a rest below d, stays below the next unit.
LEMMA Below ==
  ASSUME NEW d \in Nat, d > 0, NEW q \in 0..59, NEW r \in 0..(d - 1)
  PROVE  d * q + r \in 0..(60 * d - 1)
<1>1. d * q <= d * 59 /\ d * q \in Nat
  OBVIOUS
<1> QED BY <1>1

\* Fields in their ranges are ordered as the instants they are of.
LEMMA FieldsOrdered ==
  ASSUME NEW n, NEW minute, NEW hour, Clock(n, minute, hour),
         NEW x, NEW h, NEW m, NEW s, NEW f, Shows(x, n, minute, hour, h, m, s, f),
         NEW y, NEW i, NEW k, NEW t, NEW g, Shows(y, n, minute, hour, i, k, t, g), x <= y
  PROVE  h < i \/ (h = i /\ (m < k \/ (m = k /\ (s < t \/ (s = t /\ f <= g)))))
<1>1. /\ n \in Nat /\ n > 0 /\ minute \in Nat /\ minute > 0 /\ minute = 60 * n
      /\ hour \in Nat /\ hour > 0 /\ hour = 60 * minute
  BY DEF Clock
<1>2. /\ h \in Nat /\ m \in 0..59 /\ s \in 0..59 /\ f \in 0..(n - 1)
      /\ x = hour * h + minute * m + n * s + f
      /\ i \in Nat /\ k \in 0..59 /\ t \in 0..59 /\ g \in 0..(n - 1)
      /\ y = hour * i + minute * k + n * t + g
  BY DEF Shows
<1>3. PICK u, v : u = n * s + f /\ v = n * t + g
  OBVIOUS
<1>4. u \in 0..(minute - 1) /\ v \in 0..(minute - 1)
  BY ONLY <1>1, <1>2, <1>3, Below
<1>5. PICK a, b : a = minute * m + u /\ b = minute * k + v
  OBVIOUS
<1>6. a \in 0..(hour - 1) /\ b \in 0..(hour - 1)
  BY ONLY <1>1, <1>2, <1>4, <1>5, Below
<1>7. hour * h + a <= hour * i + b
  <2>1. /\ hour * h \in Nat /\ minute * m \in Nat /\ n * s \in Nat /\ f \in Nat
        /\ hour * i \in Nat /\ minute * k \in Nat /\ n * t \in Nat /\ g \in Nat
    BY ONLY <1>1, <1>2
  <2> QED BY ONLY x <= y, <1>2, <1>3, <1>5, <2>1
<1>8. h < i \/ (h = i /\ a <= b)
  BY ONLY <1>1, <1>2, <1>6, <1>7, QuotientFirst
<1>9. a <= b => m < k \/ (m = k /\ u <= v)
  <2>1. m \in Nat /\ k \in Nat
    BY <1>2
  <2> QED BY ONLY <1>1, <1>4, <1>5, <2>1, QuotientFirst
<1>10. u <= v => s < t \/ (s = t /\ f <= g)
  <2>1. s \in Nat /\ t \in Nat
    BY <1>2
  <2> QED BY ONLY <1>1, <1>2, <1>3, <2>1, QuotientFirst
<1> QED BY <1>8, <1>9, <1>10, Zenon

\* The units of an instant in a format: how many make a second, a minute and an hour.
Second(format) == IF format = "ASS" THEN 100 ELSE 1000
Minute(format) == IF format = "ASS" THEN 6000 ELSE 60000
Hour(format) == IF format = "ASS" THEN 360000 ELSE 3600000
Units(format, ms) == IF format = "ASS" THEN Centiseconds(ms) ELSE ms

LEMMA UnitsFit ==
  ASSUME NEW format
  PROVE  Clock(Second(format), Minute(format), Hour(format))
BY SMTT(30) DEF Second, Minute, Hour, Clock

ShowsTime(format, ms, t) ==
  Shows(Units(format, ms), Second(format), Minute(format), Hour(format), t.h, t.m, t.s, t.fraction)

LEMMA TimestampCut ==
  ASSUME NEW format \in Timed, NEW ms \in Nat
  PROVE  ShowsTime(format, ms, Timestamp(format, ms))
<1>1. PICK x, n, minute, hour : /\ x = Units(format, ms) /\ n = Second(format)
                                /\ minute = Minute(format) /\ hour = Hour(format)
  OBVIOUS
<1>2. PICK t : t = Timestamp(format, ms)
  OBVIOUS
<1>3. x \in Nat
  BY <1>1, SMTT(30) DEF Units, Centiseconds
<1>4. /\ t.h = x \div hour /\ t.m = (x % hour) \div minute
      /\ t.s = (x % minute) \div n /\ t.fraction = x % n
  <2>1. CASE format = "ASS"
    BY <1>1, <1>2, <2>1, SMTT(30) DEF Timestamp, toAssTimestamp, Units, Second, Minute, Hour
  <2>2. CASE format # "ASS"
    BY <1>1, <1>2, <2>2, SMTT(30)
    DEF Timestamp, toVttTimestamp, toSrtTimestamp, Units, Second, Minute, Hour, Timed, Formats
  <2> QED BY <2>1, <2>2
<1>5. Clock(n, minute, hour)
  BY <1>1, UnitsFit, Zenon
<1>6. Shows(x, n, minute, hour, t.h, t.m, t.s, t.fraction)
  BY <1>3, <1>4, <1>5, Cut, Zenon
<1> QED BY <1>1, <1>2, <1>6, Zenon DEF ShowsTime

LEMMA UnitsOrdered ==
  ASSUME NEW format \in Timed, NEW a \in Nat, NEW b \in Nat, a <= b
  PROVE  Units(format, a) <= Units(format, b)
<1>1. Centiseconds(a) <= Centiseconds(b)
  <2> DEFINE p == a \div 10
             q == b \div 10
             c == a % 10
             d == b % 10
  <2>1. p \in Nat /\ q \in Nat /\ c \in 0..9 /\ d \in 0..9 /\ a - 10 * p = c /\ b - 10 * q = d
    <3>1. \A u \in Nat : \A w, r : w = u \div 10 /\ r = u % 10 => w \in Nat /\ r \in 0..9 /\ u = 10 * w + r
      BY Division
    <3> QED BY <3>1
  <2>2. Centiseconds(a) = (IF c > 5 \/ (c = 5 /\ a \in TiesUp) THEN p + 1 ELSE p)
    BY DEF Centiseconds
  <2>3. Centiseconds(b) = (IF d > 5 \/ (d = 5 /\ b \in TiesUp) THEN q + 1 ELSE q)
    BY DEF Centiseconds
  <2> HIDE DEF p, q, c, d
  <2>4. p < q \/ (p = q /\ c < d) \/ (p = q /\ a = b)
    BY <2>1
  <2>5. CASE p < q
    BY <2>1, <2>2, <2>3, <2>5
  <2>6. CASE p = q /\ c < d
    BY <2>1, <2>2, <2>3, <2>6
  <2>7. CASE p = q /\ a = b
    BY <2>1, <2>2, <2>7
  <2> QED BY <2>4, <2>5, <2>6, <2>7
<1> QED BY <1>1 DEF Units

\* Every timestamp of a file has its fields in range, and the instants it shows are in the
\* order of the times they were made from, to the hour and whatever a tie is rounded to.
THEOREM TimestampsKeepOrder ==
  ASSUME NEW format \in Timed, NEW a \in Nat, NEW b \in Nat, a <= b
  PROVE  /\ Readable(format, Timestamp(format, a))
         /\ NotAfter(Timestamp(format, a), Timestamp(format, b))
<1> DEFINE s == Timestamp(format, a)
           t == Timestamp(format, b)
<1>1. ShowsTime(format, a, s) /\ ShowsTime(format, b, t)
  BY TimestampCut, Zenon
<1>2. Units(format, a) <= Units(format, b)
  BY UnitsOrdered, Zenon
<1>3. Readable(format, s)
  <2>1. s.m \in 0..59 /\ s.s \in 0..59 /\ s.fraction \in 0..(Second(format) - 1)
    BY <1>1 DEF ShowsTime, Shows
  <2> HIDE DEF s
  <2> QED BY <2>1, SMTT(30) DEF Readable, Second
<1> HIDE DEF s, t
<1>4. s.h < t.h \/ (s.h = t.h /\ (s.m < t.m \/ (s.m = t.m /\ (s.s < t.s \/ (s.s = t.s /\ s.fraction <= t.fraction)))))
  <2>1. PICK n, minute, hour, x, y :
           /\ n = Second(format) /\ minute = Minute(format) /\ hour = Hour(format)
           /\ x = Units(format, a) /\ y = Units(format, b)
    OBVIOUS
  <2>2. /\ Clock(n, minute, hour) /\ x <= y
        /\ Shows(x, n, minute, hour, s.h, s.m, s.s, s.fraction)
        /\ Shows(y, n, minute, hour, t.h, t.m, t.s, t.fraction)
    BY <1>1, <1>2, <2>1, UnitsFit, Zenon DEF ShowsTime
  <2> QED BY ONLY <2>2, FieldsOrdered
<1>5. NotAfter(s, t)
  BY <1>4, Zenon DEF NotAfter
<1> QED BY <1>3, <1>5 DEF s, t

\* The cues of a file, in every format with times: segments that follow one another are shown
\* one after the other, each from its start to its end.
THEOREM CuesFollowSegments ==
  ASSUME NEW format \in Timed, NEW segments, NEW translate, NEW S,
         DOMAIN segments = S, S \subseteq Nat,
         \A i \in S : segments[i].startTime \in Nat /\ segments[i].endTime \in Nat,
         \A i \in S : segments[i].startTime <= segments[i].endTime,
         \A i, k \in S : i < k => segments[i].endTime <= segments[k].startTime,
         NEW cues, cues = formatSubtitle(segments, format, translate)
  PROVE  /\ DOMAIN cues = S
         /\ \A i \in S :
              /\ cues[i].text = Line(segments[i], translate)
              /\ Readable(format, cues[i].start) /\ Readable(format, cues[i].end)
              /\ NotAfter(cues[i].start, cues[i].end)
         /\ \A i, k \in S : i < k => NotAfter(cues[i].end, cues[k].start)
<1>1. /\ DOMAIN cues = S
      /\ \A i \in S : /\ cues[i].start = Timestamp(format, segments[i].startTime)
                      /\ cues[i].end = Timestamp(format, segments[i].endTime)
                      /\ cues[i].text = Line(segments[i], translate)
  BY DEF formatSubtitle, buildCues, Timed
<1>2. ASSUME NEW i \in S
      PROVE  /\ Readable(format, cues[i].start) /\ Readable(format, cues[i].end)
             /\ NotAfter(cues[i].start, cues[i].end)
  <2>1. /\ segments[i].startTime \in Nat /\ segments[i].endTime \in Nat
        /\ segments[i].startTime <= segments[i].endTime /\ segments[i].endTime <= segments[i].endTime
    OBVIOUS
  <2> QED BY <1>1, <2>1, TimestampsKeepOrder
<1>3. ASSUME NEW i \in S, NEW k \in S, i < k
      PROVE  NotAfter(cues[i].end, cues[k].start)
  <2>1. /\ segments[i].endTime \in Nat /\ segments[k].startTime \in Nat
        /\ segments[i].endTime <= segments[k].startTime
    BY <1>3
  <2> QED BY <1>1, <2>1, TimestampsKeepOrder
<1> QED BY <1>1, <1>2, <1>3
-----------------------------------------------------------------------------
(* Sorting.  The rank of an element is the number of those up to it: ranks   *)
(* are in the order of the keys, so no two elements have one, so every       *)
(* number up to the size of the set is the rank of an element.               *)

\* No two elements of S have a key.
HasKeys(S, key) ==
  /\ IsFiniteSet(S)
  /\ \A x \in S : key[x] \in Nat
  /\ \A x, y \in S : key[x] = key[y] => x = y
Upto(S, key, x) == {y \in S : key[y] <= key[x]}
Rank(S, key, x) == Cardinality(Upto(S, key, x))

LEMMA RankInRange ==
  ASSUME NEW S, NEW key, HasKeys(S, key), NEW x \in S
  PROVE  Rank(S, key, x) \in 1..Cardinality(S)
<1> DEFINE U == Upto(S, key, x)
<1>1. U \in SUBSET S /\ x \in U /\ IsFiniteSet(S)
  BY DEF HasKeys, Upto
<1> HIDE DEF U
<1>2. IsFiniteSet(U) /\ Cardinality(U) <= Cardinality(S)
  BY <1>1, FS_Subset
<1>3. Cardinality(U) \in Nat /\ Cardinality(S) \in Nat /\ Cardinality(U) # 0
  BY <1>1, <1>2, FS_CardinalityType, FS_EmptySet
<1> QED BY <1>2, <1>3 DEF Rank, U

LEMMA RankFollowsKey ==
  ASSUME NEW S, NEW key, HasKeys(S, key), NEW x \in S, NEW y \in S, key[x] < key[y]
  PROVE  Rank(S, key, x) < Rank(S, key, y)
<1> DEFINE T == Upto(S, key, x)
           U == Upto(S, key, y)
<1>1. U \in SUBSET S /\ T \in SUBSET U /\ y \in U /\ y \notin T /\ IsFiniteSet(S)
  BY DEF HasKeys, Upto
<1> HIDE DEF T, U
<1>2. IsFiniteSet(U)
  BY <1>1, FS_Subset
<1>3. IsFiniteSet(T) /\ Cardinality(T) <= Cardinality(U) /\ Cardinality(T) # Cardinality(U)
  BY <1>1, <1>2, FS_Subset
<1>4. Cardinality(T) \in Nat /\ Cardinality(U) \in Nat
  BY <1>2, <1>3, FS_CardinalityType
<1> QED BY <1>3, <1>4 DEF Rank, T, U

LEMMA RanksDiffer ==
  ASSUME NEW S, NEW key, HasKeys(S, key), NEW x \in S, NEW y \in S,
         Rank(S, key, x) = Rank(S, key, y)
  PROVE  x = y
<1>1. key[x] \in Nat /\ key[y] \in Nat /\ (key[x] = key[y] => x = y)
  BY DEF HasKeys
<1>2. Rank(S, key, x) \in Nat /\ Rank(S, key, y) \in Nat
  BY RankInRange
<1>3. ~(key[x] < key[y]) /\ ~(key[y] < key[x])
  BY <1>2, RankFollowsKey
<1> QED BY <1>1, <1>3

LEMMA EveryRankTaken ==
  ASSUME NEW S, NEW key, HasKeys(S, key), NEW r \in 1..Cardinality(S)
  PROVE  \E x \in S : Rank(S, key, x) = r
<1> DEFINE n == Cardinality(S)
           f == [x \in S |-> Rank(S, key, x)]
<1>1. IsFiniteSet(S) /\ n \in Nat
  BY FS_CardinalityType DEF HasKeys
<1>2. IsFiniteSet(1..n) /\ Cardinality(1..n) = n
  BY <1>1, FS_Interval
<1>3. f \in Injection(S, 1..n)
  BY RankInRange, RanksDiffer DEF Injection, IsInjective
<1>4. f \in Surjection(S, 1..n)
  <2> HIDE DEF f, n
  <2> QED BY <1>2, <1>3, FS_Injection DEF n
<1> QED BY <1>4 DEF Surjection

\* InOrder(S, key) has every element of S once, in the order of the keys.
LEMMA InOrderSorts ==
  ASSUME NEW S, NEW key, HasKeys(S, key), NEW s, s = InOrder(S, key)
  PROVE  /\ s \in Seq(S) /\ Len(s) = Cardinality(S) /\ DOMAIN s = 1..Len(s)
         /\ \A x \in S : \E r \in 1..Len(s) : s[r] = x
         /\ \A i, k \in 1..Len(s) : i < k => key[s[i]] < key[s[k]]
<1> DEFINE n == Cardinality(S)
<1>1. n \in Nat
  BY FS_CardinalityType DEF HasKeys
<1>2. s = [r \in 1..n |-> CHOOSE x \in S : Rank(S, key, x) = r]
  BY DEF InOrder, Rank, Upto
<1> HIDE DEF n
<1>3. \A r \in 1..n : s[r] \in S /\ Rank(S, key, s[r]) = r
  BY <1>2, EveryRankTaken DEF n
<1>4. s \in Seq(S) /\ Len(s) = n /\ DOMAIN s = 1..n
  BY <1>1, <1>2, <1>3
<1>5. \A x \in S : \E r \in 1..n : s[r] = x
  BY <1>3, RankInRange, RanksDiffer DEF n
<1>6. ASSUME NEW i \in 1..n, NEW k \in 1..n, i < k
      PROVE  key[s[i]] < key[s[k]]
  <2>1. s[i] \in S /\ s[k] \in S /\ Rank(S, key, s[i]) = i /\ Rank(S, key, s[k]) = k
    BY <1>3
  <2>2. key[s[i]] \in Nat /\ key[s[k]] \in Nat
    BY <2>1 DEF HasKeys
  <2>3. key[s[k]] # key[s[i]]
    BY <1>6, <2>1 DEF HasKeys
  <2>4. ~(key[s[k]] < key[s[i]])
    <3>1. SUFFICES ASSUME key[s[k]] < key[s[i]] PROVE FALSE
      OBVIOUS
    <3>2. k < i
      BY <2>1, <3>1, RankFollowsKey
    <3> QED BY <1>1, <1>6, <3>2
  <2> QED BY <2>2, <2>3, <2>4
<1> QED BY <1>4, <1>5, <1>6 DEF n

\* Segments with a segmentId of their own each.
OwnIds(segments) ==
  \A i, k \in DOMAIN segments : segments[i].segmentId = segments[k].segmentId => segments[i] = segments[k]

\* As they are read: the segments there are, in the order of the segmentId.
LEMMA BySegmentIdSorts ==
  ASSUME NEW X, NEW segments \in Seq(X), \A x \in X : x.segmentId \in Nat, OwnIds(segments),
         NEW s, s = BySegmentId(segments)
  PROVE  /\ s \in Seq(Range(segments)) /\ s \in Seq(X) /\ DOMAIN s = 1..Len(s)
         /\ \A i \in DOMAIN segments : \E r \in DOMAIN s : s[r] = segments[i]
         /\ \A r \in DOMAIN s : \E i \in DOMAIN segments : s[r] = segments[i]
         /\ \A i, k \in DOMAIN s : i < k => s[i].segmentId < s[k].segmentId
<1> DEFINE S == Range(segments)
           key == [x \in S |-> x.segmentId]
<1>1. DOMAIN segments = 1..Len(segments) /\ Len(segments) \in Nat
  BY LenProperties
<1>2. S \subseteq X /\ \A x \in S : \E i \in DOMAIN segments : x = segments[i]
  BY <1>1 DEF Range
<1>3. IsFiniteSet(S)
  <2>1. segments \in Surjection(DOMAIN segments, S)
    BY <1>1 DEF Surjection, Range
  <2>2. IsFiniteSet(DOMAIN segments)
    BY <1>1, FS_Interval
  <2> HIDE DEF S
  <2> QED BY <2>1, <2>2, FS_Surjection
<1>4. HasKeys(S, key)
  <2>1. \A x \in S : key[x] = x.segmentId /\ key[x] \in Nat
    BY <1>2
  <2>2. \A x, y \in S : key[x] = key[y] => x = y
    BY <1>2, <2>1 DEF OwnIds
  <2> HIDE DEF S, key
  <2> QED BY <1>3, <2>1, <2>2 DEF HasKeys
<1>5. s = InOrder(S, key)
  BY DEF BySegmentId
<1> HIDE DEF key
<1>6. /\ s \in Seq(S) /\ DOMAIN s = 1..Len(s)
      /\ \A x \in S : \E r \in 1..Len(s) : s[r] = x
      /\ \A i, k \in 1..Len(s) : i < k => key[s[i]] < key[s[k]]
  <2> HIDE DEF S
  <2> QED BY <1>4, <1>5, InOrderSorts
<1>7. \A r \in DOMAIN s : s[r] \in S
  <2> HIDE DEF S
  <2> QED BY <1>6
<1>8. \A i, k \in DOMAIN s : i < k => s[i].segmentId < s[k].segmentId
  <2>1. \A x \in S : key[x] = x.segmentId
    BY DEF key
  <2> HIDE DEF S
  <2> QED BY <1>6, <1>7, <2>1
<1>9. \A i \in DOMAIN segments : segments[i] \in S
  BY DEF Range
<1>10. s \in Seq(X)
  <2> HIDE DEF S
  <2> QED BY <1>2, <1>6, SeqMonotonic
<1> QED BY <1>2, <1>6, <1>7, <1>8, <1>9, <1>10
=============================================================================
