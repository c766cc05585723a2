--------------------------- MODULE MeteringProofs ---------------------------
(* Theorems about Metering, for any users, uploads, durations and quotas.   *)
EXTENDS Metering, Sums

\* An upload that was not posted has left no trace; one that was not signed either is not due.
PostedFirst ==
  \A j \in Jobs :
    /\ ingest[j] = "none" =>
         /\ status[j] = "ABSENT" /\ entry[j] = "none"
         /\ \A r \in Results : r[1] = j => callback[r] = "none"
         /\ \A g \in Jobs : later[g][j] = 0
         /\ gate[j] # "signed" => unseen[j] = 0
    /\ gate[j] \in {"sum", "subscription"} => ingest[j] = "none"
    /\ gate[j] \in {"none", "signed"} => later[j] = Nothing

\* What a gate has read is what the user has, but for what was billed since; unless it is blind.
ReadInv ==
  \A j \in Jobs \ blind :
    gate[j] \in {"sum", "subscription"} =>
      /\ j \in Timed /\ tier[Owner[j]] = read[j].tier
      /\ used[Owner[j]] = read[j].used + SumFunctionOnSet(later[j], JobsOf(Owner[j]))

\* What passed the sum would fit, had the user nothing on the way but what was visible.
SumInv ==
  \A j \in Jobs \ blind :
    gate[j] = "subscription" =>
      read[j].used + SumFunctionOnSet(visible[j], JobsOf(Owner[j])) + Declared[j] < Quota[read[j].tier]

MeterInv == TypeOK /\ PostedFirst /\ ReadInv /\ SumInv /\ NoBlindOvershoot

-----------------------------------------------------------------------------
(* Sums over the uploads of a user.                                         *)

LEMMA Constants ==
  /\ \A j \in Jobs : /\ Owner[j] \in Users /\ j \in JobsOf(Owner[j])
                     /\ Declared[j] \in Int /\ Stored[j] \in Nat /\ Measured[j] \in Nat
  /\ \A t \in Tiers : Quota[t] \in Nat /\ Quota[t] > 0
BY MeteringAssumption DEF JobsOf

LEMMA JobsOfFinite == ASSUME NEW u PROVE JobsOf(u) \in SUBSET Jobs /\ IsFiniteSet(JobsOf(u))
<1>1. JobsOf(u) \in SUBSET Jobs
  BY DEF JobsOf
<1> QED BY <1>1, MeteringAssumption, FS_Subset

LEMMA TotalNat ==
  ASSUME NEW f \in [Jobs -> Nat], NEW u
  PROVE  SumFunctionOnSet(f, JobsOf(u)) \in Nat
BY JobsOfFinite, SumNat

LEMMA TotalSame ==
  ASSUME NEW f, NEW g, NEW u, \A k \in JobsOf(u) : f[k] = g[k]
  PROVE  SumFunctionOnSet(f, JobsOf(u)) = SumFunctionOnSet(g, JobsOf(u))
BY JobsOfFinite, SumSame

LEMMA TotalChange ==
  ASSUME NEW f \in [Jobs -> Nat], NEW g \in [Jobs -> Nat], NEW u, NEW j \in JobsOf(u),
         \A k \in JobsOf(u) : k # j => f[k] = g[k]
  PROVE  SumFunctionOnSet(g, JobsOf(u)) + f[j] = SumFunctionOnSet(f, JobsOf(u)) + g[j]
<1>1. (\A k \in JobsOf(u) : f[k] \in Nat /\ g[k] \in Nat) /\ \A k \in JobsOf(u) \ {j} : f[k] = g[k]
  BY JobsOfFinite
<1> QED BY <1>1, JobsOfFinite, SumChange

LEMMA TotalPlus ==
  ASSUME NEW f \in [Jobs -> Nat], NEW g \in [Jobs -> Nat], NEW h, NEW u,
         \A k \in JobsOf(u) : h[k] = f[k] + g[k]
  PROVE  SumFunctionOnSet(h, JobsOf(u))
           = SumFunctionOnSet(f, JobsOf(u)) + SumFunctionOnSet(g, JobsOf(u))
<1>1. \A k \in JobsOf(u) : f[k] \in Nat /\ g[k] \in Nat /\ h[k] = f[k] + g[k]
  BY JobsOfFinite
<1> QED BY <1>1, JobsOfFinite, SumPlus

\* What is covered by two others adds up to no more than they do.
LEMMA TotalCovered ==
  ASSUME NEW h \in [Jobs -> Nat], NEW f \in [Jobs -> Nat], NEW g \in [Jobs -> Nat], NEW u,
         \A k \in JobsOf(u) : h[k] <= f[k] + g[k]
  PROVE  SumFunctionOnSet(h, JobsOf(u))
           <= SumFunctionOnSet(f, JobsOf(u)) + SumFunctionOnSet(g, JobsOf(u))
<1> DEFINE S == JobsOf(u)
           a == [k \in S |-> h[k]]
           b == [k \in S |-> f[k] + g[k]]
<1>0. IsFiniteSet(S) /\ S \in SUBSET Jobs
  BY JobsOfFinite
<1>1. a \in [S -> Nat] /\ b \in [S -> Nat]
  BY <1>0
<1>2. \A k \in S : a[k] <= b[k] /\ a[k] = h[k] /\ b[k] = f[k] + g[k]
  OBVIOUS
<1> HIDE DEF a, b
<1>3. SumFunctionOnSet(a, S) <= SumFunctionOnSet(b, S)
  BY <1>0, <1>1, <1>2, SumMonotone
<1>4. SumFunctionOnSet(h, S) = SumFunctionOnSet(a, S)
  BY <1>2, TotalSame
<1>5. SumFunctionOnSet(b, S) = SumFunctionOnSet(f, S) + SumFunctionOnSet(g, S)
  BY <1>2, TotalPlus
<1> QED BY <1>3, <1>4, <1>5

\* The gate's sum over the rows is what is on the way.
LEMMA ReservedIsOnTheWay ==
  ASSUME TypeOK, NEW u
  PROVE  /\ OnTheWay(u) \in [Jobs -> Nat]
         /\ SumFunctionOnSet(duration, Reserving(u)) = SumFunctionOnSet(OnTheWay(u), JobsOf(u))
<1> DEFINE R == Reserving(u)
           N == JobsOf(u) \ R
           f == OnTheWay(u)
<1>1. f \in [Jobs -> Nat] /\ R \in SUBSET JobsOf(u)
  BY DEF OnTheWay, TypeOK, Reserving
<1>2. /\ IsFiniteSet(R) /\ IsFiniteSet(N) /\ R \cap N = {} /\ R \cup N = JobsOf(u)
      /\ \A k \in R \cup N : f[k] \in Nat
  BY <1>1, JobsOfFinite, FS_Subset
<1>3. (\A k \in R : duration[k] = f[k]) /\ (\A k \in N : f[k] = 0)
  BY DEF OnTheWay, Reserving, JobsOf
<1> HIDE DEF R, N, f
<1>4. SumFunctionOnSet(f, R \cup N) = SumFunctionOnSet(f, R) + SumFunctionOnSet(f, N)
  BY <1>2, SumUnion
<1>5. SumFunctionOnSet(f, N) = 0
  BY <1>2, <1>3, SumZero
<1>6. SumFunctionOnSet(duration, R) = SumFunctionOnSet(f, R)
  BY <1>2, <1>3, SumSame
<1>7. SumFunctionOnSet(f, R) \in Nat
  BY <1>2, SumNat
<1>8. SumFunctionOnSet(f, R \cup N) = SumFunctionOnSet(f, JobsOf(u))
  BY ONLY <1>2, Zenon
<1>9. SumFunctionOnSet(duration, R) = SumFunctionOnSet(f, JobsOf(u))
  BY ONLY <1>4, <1>5, <1>6, <1>7, <1>8
<1> QED BY <1>1, <1>9 DEF R, f

-----------------------------------------------------------------------------
(* What is due.                                                             *)

LEMMA DueValues ==
  /\ Due \in [Jobs -> Nat]
  /\ \A k \in Jobs : Due[k] = IF InFlight(k) THEN Measured[k] ELSE 0
BY Constants DEF Due

LEMMA DueStays ==
  ASSUME \A r \in Results : callback'[r] = "billed" <=> callback[r] = "billed",
         \A k \in Jobs : (gate'[k] = "signed" \/ ingest'[k] # "none") <=> (gate[k] = "signed" \/ ingest[k] # "none")
  PROVE  Due' = Due
<1>1. Results' = Results
  BY DEF Results
<1>2. \A k \in Jobs : InFlight(k)' <=> InFlight(k)
  BY <1>1 DEF InFlight, Billed
<1> QED BY <1>2 DEF Due

\* A step that leaves what is used, due and unseen alone.
LEMMA Untouched ==
  ASSUME NoBlindOvershoot, UNCHANGED <<used, tier, unseen>>, Due' = Due
  PROVE  NoBlindOvershoot'
<1>1. \A u : JobsOf(u)' = JobsOf(u)
  BY DEF JobsOf
<1> QED BY <1>1 DEF NoBlindOvershoot

\* The other users keep what they have.
LEMMA OthersUntouched ==
  ASSUME NoBlindOvershoot, NEW u \in Users, NEW v \in Users, v # u,
         used'[v] = used[v], tier'[v] = tier[v],
         \A k \in Jobs : Owner[k] # u => Due'[k] = Due[k] /\ unseen'[k] = unseen[k]
  PROVE  used'[v] + SumFunctionOnSet(Due', JobsOf(v)) < Quota[tier'[v]] + SumFunctionOnSet(unseen', JobsOf(v))
<1>1. \A k \in JobsOf(v) : k \in Jobs /\ Owner[k] # u
  BY DEF JobsOf
<1>2. SumFunctionOnSet(Due', JobsOf(v)) = SumFunctionOnSet(Due, JobsOf(v))
  BY <1>1, TotalSame
<1>3. SumFunctionOnSet(unseen', JobsOf(v)) = SumFunctionOnSet(unseen, JobsOf(v))
  BY <1>1, TotalSame
<1> QED BY <1>2, <1>3 DEF NoBlindOvershoot

\* An upload that was not posted and not signed becomes due, with all of it unseen.
LEMMA UnseenFits ==
  ASSUME MeterInv, NEW j \in Jobs, Due[j] = 0, unseen[j] = 0, Due'[j] = Measured[j],
         Due' \in [Jobs -> Nat], \A k \in Jobs : k # j => Due'[k] = Due[k],
         unseen' = [unseen EXCEPT ![j] = Measured[j]], UNCHANGED <<used, tier>>
  PROVE  NoBlindOvershoot'
<1> DEFINE u == Owner[j]
           S(f) == SumFunctionOnSet(f, JobsOf(u))
<1>0. TypeOK /\ NoBlindOvershoot /\ u \in Users /\ j \in JobsOf(u) /\ Measured[j] \in Nat
  BY Constants DEF MeterInv
<1>1. unseen \in [Jobs -> Nat] /\ unseen' \in [Jobs -> Nat] /\ Due \in [Jobs -> Nat]
  BY <1>0, DueValues DEF TypeOK
<1>j. JobsOf(u) \in SUBSET Jobs /\ \A v : JobsOf(v)' = JobsOf(v)
  BY JobsOfFinite DEF JobsOf
<1>2. S(Due') + Due[j] = S(Due) + Due'[j]
  <2>1. \A k \in JobsOf(u) : k # j => Due[k] = Due'[k]
    BY <1>j
  <2> QED BY <1>0, <1>1, <2>1, TotalChange
<1>3. S(unseen') + unseen[j] = S(unseen) + unseen'[j]
  <2>1. \A k \in JobsOf(u) : k # j => unseen[k] = unseen'[k]
    BY <1>j, <1>1
  <2> QED BY ONLY <1>0, <1>1, <2>1, TotalChange
<1>4. unseen'[j] = Measured[j]
  BY <1>1
<1>5. {S(Due), S(Due'), S(unseen), S(unseen'), used[u], Quota[tier[u]]} \subseteq Nat
  <2>1. used[u] \in Nat /\ Quota[tier[u]] \in Nat
    BY <1>0, Constants DEF TypeOK
  <2>2. S(Due) \in Nat /\ S(Due') \in Nat
    BY <1>1, TotalNat
  <2>3. S(unseen) \in Nat /\ S(unseen') \in Nat
    <3>1. unseen \in [Jobs -> Nat] /\ unseen' \in [Jobs -> Nat]
      BY ONLY <1>1
    <3> QED BY ONLY <3>1, TotalNat
  <2> HIDE DEF S
  <2> QED BY ONLY <2>1, <2>2, <2>3
<1>6. used[u] + S(Due) < Quota[tier[u]] + S(unseen)
  BY <1>0 DEF NoBlindOvershoot
<1>7. used'[u] + S(Due') < Quota[tier'[u]] + S(unseen')
  <2> HIDE DEF S, u
  <2> QED BY <1>0, <1>2, <1>3, <1>4, <1>5, <1>6
<1>8. ASSUME NEW v \in Users, v # u
      PROVE  used'[v] + SumFunctionOnSet(Due', JobsOf(v)) < Quota[tier'[v]] + SumFunctionOnSet(unseen', JobsOf(v))
  <2>1. \A k \in Jobs : Owner[k] # u => Due'[k] = Due[k] /\ unseen'[k] = unseen[k]
    BY <1>1
  <2> QED BY <1>0, <1>8, <2>1, OthersUntouched
<1> QED BY <1>j, <1>7, <1>8 DEF NoBlindOvershoot

-----------------------------------------------------------------------------
(* The gate.                                                                *)

\* What a gate grants with its eyes open fits, but for what is unseen.
LEMMA AdmitFits ==
  ASSUME MeterInv, NEW j \in Jobs, gate[j] \in {"sum", "subscription"}, j \notin blind,
         NEW summed \in [Jobs -> Nat],
         read[j].used + SumFunctionOnSet(summed, JobsOf(Owner[j])) + Declared[j] < Quota[read[j].tier],
         Admit(j, summed), UNCHANGED <<used, tier, callback, ingest>>
  PROVE  NoBlindOvershoot'
<1> DEFINE u == Owner[j]
           S(f) == SumFunctionOnSet(f, JobsOf(u))
           h == [k \in Jobs |-> Due[k] + later[j][k]]
           w == [k \in Jobs |-> IF k = j THEN 0 ELSE unseen'[k]]
<1>0. TypeOK /\ PostedFirst /\ ReadInv /\ NoBlindOvershoot
  BY DEF MeterInv
<1>1. /\ u \in Users /\ j \in JobsOf(u) /\ Measured[j] \in Nat /\ Declared[j] \in Int
      /\ JobsOf(u) \in SUBSET Jobs /\ \A v : JobsOf(v)' = JobsOf(v)
  BY Constants, JobsOfFinite DEF JobsOf
<1>2. /\ ingest[j] = "none" /\ later[j] \in [Jobs -> Nat] /\ later[j][j] = 0
      /\ \A r \in Results : r[1] = j => callback[r] = "none"
  BY <1>0 DEF PostedFirst, TypeOK
<1>3. /\ gate'[j] = "signed" /\ \A k \in Jobs : k # j => gate'[k] = gate[k]
      /\ unseen' = [k \in Jobs |->
                      IF k = j THEN Beyond(Measured[j], Declared[j])
                      ELSE IF Owner[k] = Owner[j] THEN Beyond(Due[k] + later[j][k], summed[k])
                      ELSE unseen[k]]
  BY <1>0 DEF Admit, Leave, TypeOK
<1>4. /\ Due \in [Jobs -> Nat] /\ Due[j] = 0
      /\ Due' \in [Jobs -> Nat] /\ Due'[j] = Measured[j]
      /\ \A k \in Jobs : k # j => Due'[k] = Due[k]
  <2>1. ~InFlight(j)
    BY <1>2, <1>0 DEF InFlight, TypeOK
  <2>2. InFlight(j)'
    BY <1>2, <1>3 DEF InFlight, Billed
  <2>3. \A k \in Jobs : k # j => (InFlight(k)' <=> InFlight(k))
    BY <1>3 DEF InFlight, Billed
  <2> QED BY <2>1, <2>2, <2>3, Constants, DueValues DEF Due
<1>5. unseen' \in [Jobs -> Nat]
  <2>1. \A k \in Jobs : unseen'[k] \in Nat
    BY <1>0, <1>1, <1>2, <1>3, <1>4 DEF Beyond, TypeOK
  <2> QED BY <1>3, <2>1
<1>6. h \in [Jobs -> Nat] /\ w \in [Jobs -> Nat]
  BY <1>2, <1>4, <1>5
<1>7. S(h) = S(Due) + S(later[j])
  <2>1. \A k \in JobsOf(u) : h[k] = Due[k] + later[j][k]
    BY <1>1
  <2> HIDE DEF h, S
  <2> QED BY <1>2, <1>4, <2>1, TotalPlus DEF S
<1>8. S(h) <= S(summed) + S(w)
  <2>1. ASSUME NEW k \in JobsOf(u)
        PROVE  h[k] <= summed[k] + w[k]
    <3>1. CASE k = j
      BY <1>1, <1>2, <1>4, <3>1
    <3>2. CASE k # j
      <4>1. k \in Jobs /\ Owner[k] = Owner[j] /\ h[k] \in Nat /\ summed[k] \in Nat
        BY <1>6 DEF JobsOf
      <4>2. w[k] = Beyond(h[k], summed[k])
        BY <1>3, <3>2, <4>1
      <4> QED BY <4>1, <4>2 DEF Beyond
    <3> QED BY <3>1, <3>2
  <2> HIDE DEF h, w, S
  <2> QED BY <1>6, <2>1, TotalCovered DEF S
<1>9. S(unseen') = S(w) + Beyond(Measured[j], Declared[j])
  <2>1. \A k \in JobsOf(u) : k # j => w[k] = unseen'[k]
    BY <1>1
  <2>2. w[j] = 0 /\ unseen'[j] = Beyond(Measured[j], Declared[j])
    BY <1>3
  <2> HIDE DEF w, S
  <2>3. S(unseen') + w[j] = S(w) + unseen'[j]
    BY <1>1, <1>5, <1>6, <2>1, TotalChange DEF S
  <2>4. S(unseen') \in Nat
    BY <1>5, TotalNat DEF S
  <2> QED BY <2>2, <2>3, <2>4
<1>10. S(Due') = S(Due) + Measured[j]
  <2>1. \A k \in JobsOf(u) : k # j => Due[k] = Due'[k]
    BY <1>1, <1>4
  <2>2. S(Due') + Due[j] = S(Due) + Due'[j]
    BY <1>1, <1>4, <2>1, TotalChange
  <2>3. S(Due') \in Nat
    BY <1>4, TotalNat
  <2> HIDE DEF S
  <2> QED BY <1>4, <2>2, <2>3
<1>11. tier[u] = read[j].tier /\ used[u] = read[j].used + S(later[j])
  BY <1>0 DEF ReadInv
<1>12. {S(h), S(w), S(Due), S(later[j]), S(summed), read[j].used, Quota[tier[u]]} \subseteq Nat
  <2>1. read[j].used \in Nat /\ Quota[tier[u]] \in Nat
    BY <1>0, <1>1, Constants DEF TypeOK
  <2> HIDE DEF h, w
  <2> QED BY <1>2, <1>4, <1>6, <2>1, TotalNat
<1>13. used'[u] + S(Due') < Quota[tier'[u]] + S(unseen')
  <2>1. read[j].used + S(summed) + Declared[j] < Quota[tier[u]]
    BY <1>11
  <2>2. Measured[j] <= Declared[j] + Beyond(Measured[j], Declared[j]) /\ Beyond(Measured[j], Declared[j]) \in Int
    BY <1>1 DEF Beyond
  <2> HIDE DEF h, w, S, u
  <2> QED BY <1>1, <1>7, <1>8, <1>9, <1>10, <1>11, <1>12, <2>1, <2>2
<1>14. ASSUME NEW v \in Users, v # u
       PROVE  used'[v] + SumFunctionOnSet(Due', JobsOf(v)) < Quota[tier'[v]] + SumFunctionOnSet(unseen', JobsOf(v))
  <2>1. \A k \in Jobs : Owner[k] # u => Due'[k] = Due[k] /\ unseen'[k] = unseen[k]
    BY <1>3, <1>4
  <2> QED BY <1>0, <1>1, <1>14, <2>1, OthersUntouched
<1> QED BY <1>1, <1>13, <1>14 DEF NoBlindOvershoot

\* A call of the gate that ends: nothing is remembered of it.
LEMMA LeaveInv ==
  ASSUME MeterInv, NEW j \in Jobs, gate[j] \in {"sum", "subscription"}, NEW outcome \in {"none", "signed"},
         Leave(j, outcome), unseen' \in [Jobs -> Nat],
         \A k \in Jobs : k # j /\ gate[k] # "signed" /\ ingest[k] = "none" => unseen'[k] = 0,
         outcome = "none" => unseen'[j] = unseen[j],
         UNCHANGED <<userVars, rowVars, callVars, queueVars, callback>>
  PROVE  TypeOK' /\ PostedFirst' /\ ReadInv' /\ SumInv'
<1>0. TypeOK /\ PostedFirst /\ ReadInv /\ SumInv
  BY DEF MeterInv
<1>1. /\ gate' = [gate EXCEPT ![j] = outcome] /\ read' = [read EXCEPT ![j] = Unread]
      /\ visible' = [visible EXCEPT ![j] = Nothing] /\ later' = [later EXCEPT ![j] = Nothing]
      /\ blind' = blind \ {j}
  BY DEF Leave
<1>2. Nothing \in [Jobs -> Nat] /\ \A k \in Jobs : Nothing[k] = 0
  BY DEF Nothing
<1>3. Unread \in [tier : Tiers, used : Nat]
  BY MeteringAssumption DEF Unread
<1>4. TypeOK'
  BY <1>0, <1>1, <1>2, <1>3
     DEF TypeOK, userVars, rowVars, callVars, queueVars, JobsOf, Results, Subscriptions, JobStatus
<1>5. PostedFirst'
  <2>1. Results' = Results /\ Nothing' = Nothing
    BY DEF Results, Nothing
  <2>2. UNCHANGED <<ingest, status, entry, callback>>
    BY DEF rowVars, callVars, queueVars
  <2>3. \A k \in Jobs : k # j => gate'[k] = gate[k] /\ later'[k] = later[k]
    BY <1>0, <1>1 DEF TypeOK
  <2>4. gate'[j] = outcome /\ later'[j] = Nothing
    BY <1>0, <1>1 DEF TypeOK
  <2>5. outcome = "none" => unseen'[j] = 0
    BY <1>0 DEF PostedFirst
  <2> QED BY <1>0, <1>2, <2>1, <2>2, <2>3, <2>4, <2>5 DEF PostedFirst
<1>6. \A k \in Jobs \ blind' : gate'[k] \in {"sum", "subscription"} =>
        k \in Jobs \ blind /\ gate'[k] = gate[k] /\ read'[k] = read[k] /\ visible'[k] = visible[k] /\ later'[k] = later[k]
  BY <1>0, <1>1 DEF TypeOK
<1>7. \A u : JobsOf(u)' = JobsOf(u)
  BY DEF JobsOf
<1>8. ReadInv' /\ SumInv'
  BY <1>0, <1>6, <1>7 DEF ReadInv, SumInv, userVars
<1> QED BY <1>4, <1>5, <1>8

LEMMA RefuseInv ==
  ASSUME MeterInv, NEW j \in Jobs, gate[j] \in {"sum", "subscription"}, Refuse(j),
         UNCHANGED <<userVars, rowVars, callVars, queueVars, callback>>
  PROVE  MeterInv'
<1>0. TypeOK /\ PostedFirst /\ NoBlindOvershoot
  BY DEF MeterInv
<1>1. Leave(j, "none") /\ unseen' = unseen
  BY DEF Refuse
<1>2. unseen' \in [Jobs -> Nat] /\ \A k \in Jobs : gate[k] # "signed" /\ ingest[k] = "none" => unseen'[k] = 0
  BY <1>0, <1>1 DEF TypeOK, PostedFirst
<1>3. TypeOK' /\ PostedFirst' /\ ReadInv' /\ SumInv'
  BY <1>1, <1>2, LeaveInv
<1>4. \A k \in Jobs : gate'[k] = "signed" <=> gate[k] = "signed"
  BY <1>0, <1>1 DEF Leave, TypeOK
<1>5. Due' = Due
  BY <1>4, DueStays DEF callVars
<1>6. NoBlindOvershoot'
  BY <1>0, <1>1, <1>5, Untouched DEF userVars
<1> QED BY <1>3, <1>6 DEF MeterInv

LEMMA AdmitInv ==
  ASSUME MeterInv, NEW j \in Jobs, gate[j] \in {"sum", "subscription"}, NEW summed \in [Jobs -> Nat],
         j \notin blind =>
           read[j].used + SumFunctionOnSet(summed, JobsOf(Owner[j])) + Declared[j] < Quota[read[j].tier],
         Admit(j, summed), UNCHANGED <<userVars, rowVars, callVars, queueVars, callback>>
  PROVE  MeterInv'
<1>0. TypeOK /\ PostedFirst /\ NoBlindOvershoot
  BY DEF MeterInv
<1>1. Leave(j, "signed") /\ UNCHANGED <<used, tier, callback, ingest>>
  BY DEF Admit, userVars, callVars
<1>2. /\ ingest[j] = "none" /\ unseen[j] = 0 /\ later[j] \in [Jobs -> Nat]
      /\ \A r \in Results : r[1] = j => callback[r] = "none"
      /\ \A k \in Jobs : ingest[k] = "none" => later[j][k] = 0
      /\ \A k \in Jobs : ingest[k] = "none" /\ gate[k] # "signed" => unseen[k] = 0
      /\ unseen \in [Jobs -> Nat]
  BY <1>0 DEF PostedFirst, TypeOK
<1>3. \A k \in Jobs : ingest[k] = "none" /\ gate[k] # "signed" => Due[k] = 0
  BY DueValues DEF InFlight
<1>4. unseen' = [k \in Jobs |->
        IF j \in blind THEN IF k = j THEN Measured[j] ELSE unseen[k]
        ELSE IF k = j THEN Beyond(Measured[j], Declared[j])
        ELSE IF Owner[k] = Owner[j] THEN Beyond(Due[k] + later[j][k], summed[k])
        ELSE unseen[k]]
  BY DEF Admit
<1>6. ASSUME NEW k \in Jobs
      PROVE  unseen'[k] \in Nat
  <2>1. Measured[k] \in Nat /\ Measured[j] \in Nat /\ Declared[j] \in Int /\ unseen[k] \in Nat
    BY <1>2, Constants
  <2>2. Due[k] \in Nat /\ later[j][k] \in Nat /\ summed[k] \in Nat
    BY <1>2, DueValues
  <2>3. Beyond(Measured[j], Declared[j]) \in Nat
    BY <2>1 DEF Beyond
  <2>4. Beyond(Due[k] + later[j][k], summed[k]) \in Nat
    BY <2>2 DEF Beyond
  <2> QED BY <1>4, <2>1, <2>3, <2>4
<1>7. unseen' \in [Jobs -> Nat]
  BY <1>4, <1>6
<1>8. ASSUME NEW k \in Jobs, k # j, gate[k] # "signed", ingest[k] = "none"
      PROVE  unseen'[k] = 0
  <2>1. Due[k] = 0 /\ later[j][k] = 0 /\ unseen[k] = 0 /\ summed[k] \in Nat
    BY <1>2, <1>3, <1>8
  <2>2. Beyond(Due[k] + later[j][k], summed[k]) = 0
    BY <2>1 DEF Beyond
  <2> QED BY <1>4, <1>8, <2>1, <2>2
<1>9. TypeOK' /\ PostedFirst' /\ ReadInv' /\ SumInv'
  BY <1>1, <1>7, <1>8, LeaveInv
<1>10. CASE j \notin blind
  <2>1. NoBlindOvershoot'
    BY <1>1, <1>10, AdmitFits
  <2> QED BY <1>9, <2>1 DEF MeterInv
<1>11. CASE j \in blind
  <2>1. gate'[j] = "signed" /\ \A k \in Jobs : k # j => gate'[k] = gate[k]
    BY <1>0, <1>1 DEF Leave, TypeOK
  <2>2. Results' = Results
    BY DEF Results
  <2>3. InFlight(j)' /\ \A k \in Jobs : k # j => (InFlight(k)' <=> InFlight(k))
    BY <1>1, <1>2, <2>1, <2>2 DEF InFlight, Billed
  <2>4. Due[j] = 0
    BY <1>0, <1>2, <1>3 DEF TypeOK
  <2>5. Due' \in [Jobs -> Nat] /\ Due'[j] = Measured[j] /\ \A k \in Jobs : k # j => Due'[k] = Due[k]
    BY <2>3, Constants DEF Due
  <2>6. unseen' = [unseen EXCEPT ![j] = Measured[j]]
    <3>1. unseen' = [k \in Jobs |-> IF k = j THEN Measured[j] ELSE unseen[k]]
      BY <1>4, <1>11
    <3> QED BY <1>2, <3>1
  <2>7. NoBlindOvershoot'
    BY <1>1, <1>2, <2>4, <2>5, <2>6, UnseenFits
  <2> QED BY <1>9, <2>7 DEF MeterInv
<1> QED BY <1>10, <1>11

LEMMA GateUserInv ==
  ASSUME MeterInv, NEW j \in Jobs, GateUser(j)
  PROVE  MeterInv'
<1> DEFINE u == Owner[j]
<1>0. TypeOK /\ PostedFirst /\ ReadInv /\ SumInv /\ NoBlindOvershoot /\ u \in Users
  BY Constants DEF MeterInv
<1>1. /\ gate[j] = "none" /\ ingest[j] = "none" /\ gate' = [gate EXCEPT ![j] = "sum"]
      /\ read' = [read EXCEPT ![j] = [tier |-> tier[u], used |-> used[u]]]
      /\ blind' = IF j \in Timed THEN blind ELSE blind \cup {j}
      /\ UNCHANGED <<visible, later, userVars, rowVars, callVars, queueVars, callback, unseen>>
  BY DEF GateUser
<1>2. [tier |-> tier[u], used |-> used[u]] \in [tier : Tiers, used : Nat]
  BY <1>0 DEF TypeOK
<1>3. TypeOK'
  BY <1>0, <1>1, <1>2
     DEF TypeOK, userVars, rowVars, callVars, queueVars, JobsOf, Results, Subscriptions, JobStatus
<1>4. gate'[j] = "sum" /\ \A k \in Jobs : k # j => gate'[k] = gate[k]
  BY <1>0, <1>1 DEF TypeOK
<1>5. PostedFirst'
  <2>1. Results' = Results /\ Nothing' = Nothing
    BY DEF Results, Nothing
  <2>2. UNCHANGED <<ingest, status, entry, callback, later, unseen>>
    BY <1>1 DEF rowVars, callVars, queueVars
  <2> QED BY <1>0, <1>1, <1>4, <2>1, <2>2 DEF PostedFirst
<1>6. \A v : JobsOf(v)' = JobsOf(v)
  BY DEF JobsOf
<1>7. ReadInv' /\ SumInv'
  <2>1. UNCHANGED <<used, tier, visible, later>>
    BY <1>1 DEF userVars
  <2>2. ASSUME NEW k \in Jobs \ blind', gate'[k] \in {"sum", "subscription"}, k # j
        PROVE  k \in Jobs \ blind /\ gate'[k] = gate[k] /\ read'[k] = read[k]
    BY <1>0, <1>1, <1>4, <2>2 DEF TypeOK
  <2>3. read'[j].tier = tier[u] /\ read'[j].used = used[u]
    BY <1>0, <1>1 DEF TypeOK
  <2>4. SumFunctionOnSet(later[j], JobsOf(u)) = 0
    <3>1. IsFiniteSet(JobsOf(u)) /\ \A k \in JobsOf(u) : later[j][k] = 0
      BY <1>0, <1>1, JobsOfFinite DEF PostedFirst, Nothing
    <3> QED BY <3>1, SumZero
  <2>5. used[u] \in Nat /\ (j \notin blind' => j \in Timed)
    BY <1>0, <1>1 DEF TypeOK
  <2>6. SumInv'
    BY <1>0, <1>4, <1>6, <2>1, <2>2 DEF SumInv
  <2>7. ASSUME NEW k \in Jobs \ blind', gate'[k] \in {"sum", "subscription"}
        PROVE  /\ k \in Timed /\ tier[Owner[k]] = read'[k].tier
               /\ used[Owner[k]] = read'[k].used + SumFunctionOnSet(later[k], JobsOf(Owner[k]))
    <3>1. CASE k = j
      BY <2>3, <2>4, <2>5, <2>7, <3>1
    <3>2. CASE k # j
      BY <1>0, <2>2, <2>7, <3>2 DEF ReadInv
    <3> QED BY <3>1, <3>2
  <2> QED BY <1>6, <2>1, <2>6, <2>7 DEF ReadInv
<1>8. \A k \in Jobs : gate'[k] = "signed" <=> gate[k] = "signed"
  BY <1>1, <1>4
<1>9. Due' = Due
  BY <1>1, <1>8, DueStays DEF callVars
<1>10. NoBlindOvershoot'
  BY <1>0, <1>1, <1>9, Untouched DEF userVars
<1> QED BY <1>3, <1>5, <1>7, <1>10 DEF MeterInv

LEMMA GateReservationInv ==
  ASSUME MeterInv, NEW j \in Jobs, GateReservation(j)
  PROVE  MeterInv'
<1> DEFINE u == Owner[j]
           o == OnTheWay(u)
<1>0. TypeOK /\ PostedFirst /\ ReadInv /\ SumInv /\ NoBlindOvershoot
  BY DEF MeterInv
<1>1. gate[j] = "sum" /\ UNCHANGED <<userVars, rowVars, callVars, queueVars, callback>>
  BY DEF GateReservation
<1>2. /\ o \in [Jobs -> Nat]
      /\ SumFunctionOnSet(duration, Reserving(u)) = SumFunctionOnSet(o, JobsOf(u))
  BY <1>0, ReservedIsOnTheWay
<1>3. ASSUME ~Exceeded(j), j \notin blind
      PROVE  read[j].used + SumFunctionOnSet(o, JobsOf(u)) + Declared[j] < Quota[read[j].tier]
  <2>1. j \in Timed
    BY <1>0, <1>1, <1>3 DEF ReadInv
  <2>2. ~(read[j].used + SumFunctionOnSet(duration, Reserving(u)) + Declared[j] >= Quota[read[j].tier])
    BY <1>3, <2>1 DEF Exceeded
  <2>3. read[j].used \in Nat /\ Quota[read[j].tier] \in Nat /\ Declared[j] \in Int
    BY <1>0, Constants DEF TypeOK
  <2>4. SumFunctionOnSet(o, JobsOf(u)) \in Nat
    BY <1>2, TotalNat
  <2> HIDE DEF o, u
  <2> QED BY <1>2, <2>2, <2>3, <2>4
<1>4. CASE Refuse(j)
  BY <1>1, <1>4, RefuseInv
<1>5. CASE ~Exceeded(j) /\ Admit(j, o)
  BY <1>1, <1>2, <1>3, <1>5, AdmitInv
<1>6. CASE /\ ~Exceeded(j) /\ gate' = [gate EXCEPT ![j] = "subscription"]
           /\ visible' = [visible EXCEPT ![j] = o]
           /\ UNCHANGED <<read, later, blind, unseen>>
  <2>1. gate'[j] = "subscription" /\ \A k \in Jobs : k # j => gate'[k] = gate[k]
    BY <1>0, <1>6 DEF TypeOK
  <2>2. visible'[j] = o /\ \A k \in Jobs : k # j => visible'[k] = visible[k]
    BY <1>0, <1>6 DEF TypeOK
  <2>3. TypeOK'
    BY <1>0, <1>1, <1>2, <1>6
       DEF TypeOK, userVars, rowVars, callVars, queueVars, JobsOf, Results, Subscriptions, JobStatus
  <2>4. UNCHANGED <<ingest, status, entry, callback, later, unseen, used, tier, read, blind>>
    BY <1>1, <1>6 DEF rowVars, callVars, queueVars, userVars
  <2>5. Results' = Results /\ Nothing' = Nothing /\ \A v : JobsOf(v)' = JobsOf(v)
    BY DEF Results, Nothing, JobsOf
  <2>6. PostedFirst'
    BY <1>0, <1>1, <2>1, <2>4, <2>5 DEF PostedFirst
  <2>7. ReadInv'
    BY <1>0, <1>1, <2>1, <2>4, <2>5 DEF ReadInv
  <2>8. SumInv'
    <3> HIDE DEF o
    <3>1. ASSUME NEW k \in Jobs \ blind, gate'[k] = "subscription"
          PROVE  read[k].used + SumFunctionOnSet(visible'[k], JobsOf(Owner[k])) + Declared[k] < Quota[read[k].tier]
      <4>1. CASE k = j
        BY <1>3, <1>6, <2>2, <3>1, <4>1
      <4>2. CASE k # j
        BY <1>0, <2>1, <2>2, <3>1, <4>2 DEF SumInv
      <4> QED BY <4>1, <4>2
    <3> QED BY <2>4, <2>5, <3>1 DEF SumInv
  <2>9. \A k \in Jobs : gate'[k] = "signed" <=> gate[k] = "signed"
    BY <1>1, <2>1
  <2>10. Due' = Due
    BY <2>4, <2>9, DueStays
  <2>11. NoBlindOvershoot'
    BY <1>0, <2>4, <2>10, Untouched
  <2> QED BY <2>3, <2>6, <2>7, <2>8, <2>11 DEF MeterInv
<1> QED BY <1>4, <1>5, <1>6 DEF GateReservation

LEMMA GateSubscriptionInv ==
  ASSUME MeterInv, NEW j \in Jobs, GateSubscription(j)
  PROVE  MeterInv'
<1>1. gate[j] = "subscription" /\ UNCHANGED <<userVars, rowVars, callVars, queueVars, callback>>
  BY DEF GateSubscription
<1>2. CASE Refuse(j)
  BY <1>1, <1>2, RefuseInv
<1>3. CASE Admit(j, visible[j])
  <2>1. visible[j] \in [Jobs -> Nat]
    BY DEF MeterInv, TypeOK
  <2>2. j \notin blind =>
          read[j].used + SumFunctionOnSet(visible[j], JobsOf(Owner[j])) + Declared[j] < Quota[read[j].tier]
    BY <1>1 DEF MeterInv, SumInv
  <2> QED BY <1>1, <1>3, <2>1, <2>2, AdmitInv
<1> QED BY <1>2, <1>3 DEF GateSubscription

-----------------------------------------------------------------------------
(* The other calls, the worker and the listeners.                           *)

\* A step that touches neither gates nor users, bills nothing, posts only what was signed, and
\* leaves no trace of what was not posted.
LEMMA QuietStep ==
  ASSUME MeterInv, TypeOK', UNCHANGED <<gateVars, used, tier, unseen>>,
         \A r \in Results : callback'[r] = "billed" <=> callback[r] = "billed",
         \A k \in Jobs :
           /\ ingest'[k] = ingest[k] \/ (ingest'[k] # "none" /\ (ingest[k] # "none" \/ gate[k] = "signed"))
           /\ ingest[k] = "none" /\ ingest'[k] = "none" =>
                /\ status'[k] = status[k] /\ entry'[k] = entry[k]
                /\ \A r \in Results : r[1] = k => callback'[r] = callback[r]
  PROVE  MeterInv'
<1>0. TypeOK /\ PostedFirst /\ ReadInv /\ SumInv /\ NoBlindOvershoot
  BY DEF MeterInv
<1>1. UNCHANGED <<gate, read, visible, later, blind>>
  BY DEF gateVars
<1>2. Results' = Results /\ Nothing' = Nothing /\ \A v : JobsOf(v)' = JobsOf(v)
  BY DEF Results, Nothing, JobsOf
<1>3. PostedFirst'
  BY <1>0, <1>1, <1>2 DEF PostedFirst
<1>4. ReadInv' /\ SumInv'
  BY <1>0, <1>1, <1>2 DEF ReadInv, SumInv
<1>5. Due' = Due
  BY <1>1, DueStays
<1>6. NoBlindOvershoot'
  BY <1>0, <1>5, Untouched
<1> QED BY <1>3, <1>4, <1>6 DEF MeterInv

LEMMA IngestCheckInv ==
  ASSUME MeterInv, NEW j \in Jobs, IngestCheck(j)
  PROVE  MeterInv'
<1>0. TypeOK /\ PostedFirst /\ ReadInv /\ SumInv /\ NoBlindOvershoot
  BY DEF MeterInv
<1>1. /\ gate[j] \in {"none", "signed"} /\ ingest[j] = "none"
      /\ ingest' = [ingest EXCEPT ![j] = "create"]
      /\ unseen' = IF gate[j] = "signed" THEN unseen ELSE [unseen EXCEPT ![j] = Measured[j]]
      /\ UNCHANGED <<request, userVars, rowVars, gateVars, queueVars, callback>>
  BY DEF IngestCheck
<1>2. ingest'[j] = "create" /\ \A k \in Jobs : k # j => ingest'[k] = ingest[k]
  BY <1>0, <1>1 DEF TypeOK
<1>3. unseen' \in [Jobs -> Nat]
  BY <1>0, <1>1, Constants DEF TypeOK
<1>4. TypeOK'
  BY <1>0, <1>1, <1>3
     DEF TypeOK, userVars, rowVars, gateVars, queueVars, JobsOf, Results, Subscriptions, JobStatus
<1>5. CASE gate[j] = "signed"
  <2>1. UNCHANGED <<gateVars, used, tier, unseen, status, entry, callback>>
    BY <1>1, <1>5 DEF userVars, rowVars, queueVars
  <2> QED BY <1>2, <1>4, <1>5, <2>1, QuietStep
<1>6. CASE gate[j] # "signed"
  <2>1. unseen' = [unseen EXCEPT ![j] = Measured[j]] /\ \A k \in Jobs : k # j => unseen'[k] = unseen[k]
    BY <1>0, <1>1, <1>6 DEF TypeOK
  <2>2. Results' = Results /\ Nothing' = Nothing /\ \A v : JobsOf(v)' = JobsOf(v)
    BY DEF Results, Nothing, JobsOf
  <2>3. UNCHANGED <<gate, read, visible, later, blind, used, tier, status, entry, callback>>
    BY <1>1 DEF userVars, rowVars, queueVars, gateVars
  <2>4. PostedFirst'
    BY <1>0, <1>1, <1>2, <2>1, <2>2, <2>3 DEF PostedFirst
  <2>5. ReadInv' /\ SumInv'
    BY <1>0, <2>2, <2>3 DEF ReadInv, SumInv
  <2>6. unseen[j] = 0 /\ \A r \in Results : r[1] = j => callback[r] = "none"
    BY <1>0, <1>1, <1>6 DEF PostedFirst
  <2>7. InFlight(j)' /\ ~InFlight(j) /\ \A k \in Jobs : k # j => (InFlight(k)' <=> InFlight(k))
    BY <1>1, <1>2, <1>6, <2>2, <2>3, <2>6 DEF InFlight, Billed
  <2>8. Due[j] = 0 /\ Due'[j] = Measured[j] /\ Due' \in [Jobs -> Nat] /\ \A k \in Jobs : k # j => Due'[k] = Due[k]
    BY <2>7, Constants DEF Due
  <2>9. NoBlindOvershoot'
    BY <2>1, <2>3, <2>6, <2>8, UnseenFits
  <2> QED BY <1>4, <2>4, <2>5, <2>9 DEF MeterInv
<1> QED BY <1>5, <1>6

LEMMA IngestInv ==
  ASSUME MeterInv, NEW j \in Jobs, IngestStep(j)
  PROVE  MeterInv'
<1>0. TypeOK /\ PostedFirst /\ Stored[j] \in Nat
  BY Constants DEF MeterInv
<1>1. CASE IngestCheck(j)
  BY <1>1, IngestCheckInv
<1>2. CASE IngestCreate(j)
  <2>1. TypeOK'
    BY <1>0, <1>2 DEF IngestCreate, TypeOK, userVars, gateVars, queueVars, JobsOf, Results, Subscriptions, JobStatus
  <2>2. UNCHANGED <<gateVars, used, tier, unseen, entry, callback>>
    BY <1>2 DEF IngestCreate, userVars, queueVars
  <2>3. /\ ingest[j] = "create" /\ ingest'[j] = "add"
        /\ \A k \in Jobs : k # j => ingest'[k] = ingest[k] /\ status'[k] = status[k]
    BY <1>0, <1>2 DEF IngestCreate, TypeOK
  <2> QED BY <2>1, <2>2, <2>3, QuietStep
<1>3. CASE Enqueue(j)
  <2>1. TypeOK'
    BY <1>0, <1>3 DEF Enqueue, TypeOK, userVars, gateVars, rowVars, JobsOf, Results, Subscriptions, JobStatus
  <2>2. UNCHANGED <<gateVars, used, tier, unseen, status, callback>>
    BY <1>3 DEF Enqueue, userVars, rowVars
  <2>3. /\ ingest[j] = "add" /\ ingest'[j] = "mark"
        /\ \A k \in Jobs : k # j => ingest'[k] = ingest[k] /\ entry'[k] = entry[k]
    BY <1>0, <1>3 DEF Enqueue, TypeOK
  <2> QED BY <2>1, <2>2, <2>3, QuietStep
<1>4. CASE MarkAsQueued(j)
  <2>1. TypeOK'
    BY <1>0, <1>4 DEF MarkAsQueued, Write, TypeOK, userVars, gateVars, queueVars, JobsOf, Results, Subscriptions, JobStatus
  <2>2. UNCHANGED <<gateVars, used, tier, unseen, entry, callback>>
    BY <1>4 DEF MarkAsQueued, userVars, queueVars
  <2>3. /\ ingest[j] = "mark" /\ ingest'[j] = "done"
        /\ \A k \in Jobs : k # j => ingest'[k] = ingest[k] /\ status'[k] = status[k]
    BY <1>0, <1>4 DEF MarkAsQueued, Write, TypeOK
  <2> QED BY <2>1, <2>2, <2>3, QuietStep
<1> QED BY <1>1, <1>2, <1>3, <1>4 DEF IngestStep

\* A write leaves a row that is gone alone, and the other rows.
LEMMA WriteLeaves ==
  ASSUME TypeOK, NEW j \in Jobs, NEW s \in JobStatus, Write(j, s)
  PROVE  /\ status' \in [Jobs -> JobStatus \cup {"ABSENT"}]
         /\ \A k \in Jobs : k # j \/ status[k] = "ABSENT" => status'[k] = status[k]
BY DEF TypeOK, Write

LEMMA RequestInv ==
  ASSUME MeterInv, NEW j \in Jobs, RequestStep(j)
  PROVE  MeterInv'
<1>0. TypeOK /\ PostedFirst
  BY DEF MeterInv
<1>1. \A k \in Jobs : ingest[k] = "none" => status[k] = "ABSENT" /\ entry[k] = "none"
  BY <1>0 DEF PostedFirst
<1>2. CASE CancelRead(j) \/ DeleteRead(j)
  <2>1. TypeOK'
    <3>1. CASE CancelRead(j)
      BY <1>0, <3>1 DEF CancelRead, Asks, TypeOK, userVars, gateVars, rowVars, queueVars, JobsOf, Results, Subscriptions, JobStatus
    <3>2. CASE DeleteRead(j)
      BY <1>0, <3>2 DEF DeleteRead, Asks, TypeOK, userVars, gateVars, rowVars, queueVars, JobsOf, Results, Subscriptions, JobStatus
    <3> QED BY <1>2, <3>1, <3>2
  <2>2. UNCHANGED <<gateVars, used, tier, unseen, status, entry, callback, ingest>>
    BY <1>2 DEF CancelRead, DeleteRead, userVars, rowVars, queueVars
  <2> QED BY <2>1, <2>2, QuietStep
<1>3. CASE CancelRemove(j)
  <2>1. TypeOK'
    BY <1>0, <1>3 DEF CancelRemove, Asks, TypeOK, userVars, gateVars, rowVars, JobsOf, Results, Subscriptions, JobStatus
  <2>2. UNCHANGED <<gateVars, used, tier, unseen, status, callback, ingest>>
    BY <1>3 DEF CancelRemove, userVars, rowVars
  <2>3. \A k \in Jobs : ingest[k] = "none" => entry'[k] = entry[k]
    BY <1>0, <1>1, <1>3 DEF CancelRemove, TypeOK
  <2> QED BY <2>1, <2>2, <2>3, QuietStep
<1>4. CASE CancelMark(j)
  <2>1. UNCHANGED <<gateVars, used, tier, unseen, entry, callback, ingest, duration, userVars, queueVars>>
    BY <1>4 DEF CancelMark, userVars, queueVars
  <2>2. Write(j, "CANCELLED") /\ "CANCELLED" \in JobStatus
    BY <1>4 DEF CancelMark, JobStatus
  <2>3. \A k \in Jobs : ingest[k] = "none" => status'[k] = status[k]
    BY <1>0, <1>1, <2>2, WriteLeaves
  <2>4. status' \in [Jobs -> JobStatus \cup {"ABSENT"}]
    BY <1>0, <2>2, WriteLeaves
  <2>5. request' \in [Jobs -> {"none", "remove", "cancel", "delete"}]
    BY <1>0, <1>4 DEF CancelMark, Asks, TypeOK
  <2>6. TypeOK'
    BY <1>0, <2>1, <2>4, <2>5 DEF TypeOK, userVars, gateVars, queueVars, JobsOf, Results, Subscriptions, JobStatus
  <2> QED BY <2>1, <2>3, <2>6, QuietStep
<1>5. CASE DeleteWrite(j)
  <2>1. UNCHANGED <<gateVars, used, tier, unseen, entry, callback, ingest>>
    BY <1>5 DEF DeleteWrite, userVars, queueVars
  <2>2. TypeOK'
    BY <1>0, <1>5 DEF DeleteWrite, Asks, TypeOK, userVars, gateVars, queueVars, JobsOf, Results, Subscriptions, JobStatus
  <2>3. \A k \in Jobs : ingest[k] = "none" => status'[k] = status[k]
    BY <1>0, <1>1, <1>5 DEF DeleteWrite, TypeOK
  <2> QED BY <2>1, <2>2, <2>3, QuietStep
<1> QED BY <1>2, <1>3, <1>4, <1>5 DEF RequestStep

LEMMA ResultsOfRuns ==
  ASSUME TypeOK, NEW j \in Jobs
  PROVE  /\ \A n \in 1..MaxRuns[j] : <<j, n>> \in Results
         /\ \A r \in Results : r[1] \in Jobs
<1>1. \A n \in 1..MaxRuns[j] : <<j, n>> \in {j} \X (1..MaxRuns[j])
  OBVIOUS
<1> QED BY <1>1 DEF Results

LEMMA WorkerInv ==
  ASSUME MeterInv, NEW j \in Jobs, WorkerStep(j)
  PROVE  MeterInv'
<1>0. TypeOK /\ PostedFirst
  BY DEF MeterInv
<1>1. \A k \in Jobs : ingest[k] = "none" => status[k] = "ABSENT" /\ entry[k] = "none"
  BY <1>0 DEF PostedFirst
<1>2. CASE WorkerStarts(j)
  <2>1. /\ entry[j] = "waiting" /\ runs[j] < MaxRuns[j]
        /\ entry' = [entry EXCEPT ![j] = "active"] /\ runs' = [runs EXCEPT ![j] = @ + 1]
        /\ activeEvents' = activeEvents \cup {<<j, runs[j] + 1>>}
        /\ UNCHANGED <<userVars, rowVars, gateVars, callVars, failedEvents, callback, unseen>>
    BY <1>2 DEF WorkerStarts
  <2>2. runs[j] \in Nat /\ MaxRuns[j] \in Nat
    BY <1>0, MeteringAssumption DEF TypeOK
  <2>3. <<j, runs[j] + 1>> \in Results
    BY <1>0, <2>1, <2>2, ResultsOfRuns
  <2>4. runs' \in [Jobs -> Nat] /\ \A k \in Jobs : runs'[k] <= MaxRuns[k]
    BY <1>0, <2>1, <2>2 DEF TypeOK
  <2>5. entry' \in [Jobs -> {"none", "waiting", "active", "done"}] /\ activeEvents' \subseteq Results
    BY <1>0, <2>1, <2>3 DEF TypeOK
  <2>6. TypeOK'
    BY <1>0, <2>1, <2>4, <2>5
       DEF TypeOK, userVars, rowVars, gateVars, callVars, JobsOf, Results, Subscriptions, JobStatus
  <2>7. UNCHANGED <<gateVars, used, tier, unseen, status, callback, ingest>>
    BY <2>1 DEF userVars, rowVars, callVars
  <2>8. \A k \in Jobs : ingest[k] = "none" => entry'[k] = entry[k]
    BY <1>0, <1>1, <2>1 DEF TypeOK
  <2> QED BY <2>6, <2>7, <2>8, QuietStep
<1>3. CASE WorkerEnds(j) \/ WorkerRetries(j)
  <2>1. entry[j] = "active" /\ UNCHANGED <<userVars, rowVars, gateVars, callVars, runs, activeEvents, callback, unseen>>
    BY <1>3 DEF WorkerEnds, WorkerRetries
  <2>2. entry' \in [Jobs -> {"none", "waiting", "active", "done"}] /\ failedEvents' \subseteq Jobs
    BY <1>0, <1>3 DEF TypeOK, WorkerEnds, WorkerRetries
  <2>3. \A k \in Jobs : ingest[k] = "none" => entry'[k] = entry[k]
    BY <1>0, <1>1, <1>3 DEF TypeOK, WorkerEnds, WorkerRetries
  <2>4. TypeOK'
    BY <1>0, <2>1, <2>2
       DEF TypeOK, userVars, rowVars, gateVars, callVars, JobsOf, Results, Subscriptions, JobStatus
  <2>5. UNCHANGED <<gateVars, used, tier, unseen, status, callback, ingest>>
    BY <2>1 DEF userVars, rowVars, callVars
  <2> QED BY <2>3, <2>4, <2>5, QuietStep
<1>4. CASE OnFailed(j)
  <2>1. UNCHANGED <<userVars, duration, gateVars, callVars, entry, runs, activeEvents, callback, unseen>>
    BY <1>4 DEF OnFailed
  <2>2. Write(j, "FAILED") /\ "FAILED" \in JobStatus /\ failedEvents' \subseteq Jobs
    BY <1>0, <1>4 DEF OnFailed, JobStatus, TypeOK
  <2>3. \A k \in Jobs : ingest[k] = "none" => status'[k] = status[k]
    BY <1>0, <1>1, <2>2, WriteLeaves
  <2>4. status' \in [Jobs -> JobStatus \cup {"ABSENT"}]
    BY <1>0, <2>2, WriteLeaves
  <2>5. TypeOK'
    BY <1>0, <2>1, <2>2, <2>4 DEF TypeOK, userVars, gateVars, callVars, JobsOf, Results, Subscriptions, JobStatus
  <2>6. UNCHANGED <<gateVars, used, tier, unseen, entry, callback, ingest>>
    BY <2>1 DEF userVars, callVars
  <2> QED BY <2>3, <2>5, <2>6, QuietStep
<1>5. ASSUME NEW outcome \in {"succeeded", "failed"}, WorkerPosts(j, outcome)
      PROVE  MeterInv'
  <2>1. /\ entry[j] = "active" /\ callback[Current(j)] = "none"
        /\ callback' = [callback EXCEPT ![Current(j)] = outcome]
        /\ UNCHANGED <<userVars, rowVars, gateVars, callVars, queueVars, unseen>>
    BY <1>5 DEF WorkerPosts
  <2>2. \A r \in Results : r = Current(j) \/ callback'[r] = callback[r]
    BY <1>0, <2>1 DEF TypeOK
  <2>3. \A r \in Results : callback'[r] = "billed" <=> callback[r] = "billed"
    BY <1>0, <2>1 DEF TypeOK
  <2>4. \A k \in Jobs : ingest[k] = "none" => \A r \in Results : r[1] = k => callback'[r] = callback[r]
    BY <1>1, <2>1, <2>2 DEF Current
  <2>5. TypeOK'
    BY <1>0, <2>1
       DEF TypeOK, userVars, rowVars, gateVars, callVars, queueVars, JobsOf, Results, Subscriptions, JobStatus
  <2>6. UNCHANGED <<gateVars, used, tier, unseen, entry, status, ingest>>
    BY <2>1 DEF userVars, callVars, rowVars, queueVars
  <2> QED BY <2>3, <2>4, <2>5, <2>6, QuietStep
<1> QED BY <1>2, <1>3, <1>4, <1>5 DEF WorkerStep

LEMMA BillInv ==
  ASSUME MeterInv, NEW r \in Results, Bill(r)
  PROVE  MeterInv'
<1> DEFINE j == r[1]
           u == Owner[j]
           M == Measured[j]
           S(f) == SumFunctionOnSet(f, JobsOf(u))
<1>0. TypeOK /\ PostedFirst /\ ReadInv /\ SumInv /\ NoBlindOvershoot
  BY DEF MeterInv
<1>1. j \in Jobs /\ u \in Users /\ M \in Nat /\ j \in JobsOf(u) /\ JobsOf(u) \in SUBSET Jobs
  BY Constants, JobsOfFinite DEF Results
<1>2. /\ callback[r] = "bill" /\ callback' = [callback EXCEPT ![r] = "billed"]
      /\ used' = [used EXCEPT ![u] = @ + M]
      /\ later' = [g \in Jobs |-> IF Reading(g, u) THEN [later[g] EXCEPT ![j] = @ + M] ELSE later[g]]
      /\ unseen' = IF Billed(j) THEN [unseen EXCEPT ![j] = @ + M] ELSE unseen
      /\ UNCHANGED <<tier, sub, changes, rowVars, gate, read, visible, blind, callVars, queueVars>>
  BY DEF Bill
<1>3. Results' = Results /\ Nothing' = Nothing /\ \A v : JobsOf(v)' = JobsOf(v)
  BY DEF Results, Nothing, JobsOf
<1>4. ingest[j] # "none" /\ later \in [Jobs -> [Jobs -> Nat]] /\ unseen \in [Jobs -> Nat] /\ used \in [Users -> Nat]
  BY <1>0, <1>1, <1>2 DEF PostedFirst, TypeOK
<1>5. unseen' \in [Jobs -> Nat] /\ \A k \in Jobs : k # j => unseen'[k] = unseen[k]
  BY <1>1, <1>2, <1>4
<1>6. used' \in [Users -> Nat] /\ used'[u] = used[u] + M /\ \A v \in Users : v # u => used'[v] = used[v]
  BY <1>1, <1>2, <1>4
<1>7. ASSUME NEW g \in Jobs
      PROVE  /\ later'[g] \in [Jobs -> Nat] /\ (~Reading(g, u) => later'[g] = later[g])
             /\ \A k \in Jobs : k # j => later'[g][k] = later[g][k]
             /\ Reading(g, u) => later'[g][j] = later[g][j] + M
  <2>1. later[g] \in [Jobs -> Nat]
    BY <1>4
  <2>2. later'[g] = IF Reading(g, u) THEN [later[g] EXCEPT ![j] = @ + M] ELSE later[g]
    BY <1>2
  <2> QED BY <1>1, <2>1, <2>2
<1>8. later' \in [Jobs -> [Jobs -> Nat]]
  BY <1>2, <1>7
<1>9. TypeOK'
  <2>1. callback' \in [Results -> {"none", "succeeded", "failed", "bill", "billed", "done"}]
    BY <1>0, <1>2 DEF TypeOK
  <2> QED BY <1>0, <1>2, <1>3, <1>5, <1>6, <1>8, <2>1
             DEF TypeOK, rowVars, callVars, queueVars, Subscriptions, JobStatus
<1>10. PostedFirst'
  <2>1. UNCHANGED <<gate, ingest, status, entry>>
    BY <1>2 DEF rowVars, callVars, queueVars
  <2>2. \A q \in Results : q[1] # j => callback'[q] = callback[q]
    BY <1>0, <1>2 DEF TypeOK
  <2>3. \A g \in Jobs : gate[g] \in {"none", "signed"} => later'[g] = later[g]
    BY <1>7 DEF Reading
  <2>4. \A g, k \in Jobs : k # j => later'[g][k] = later[g][k]
    BY <1>7
  <2> HIDE DEF j
  <2>5. ASSUME NEW k \in Jobs
        PROVE  /\ ingest[k] = "none" =>
                    /\ status[k] = "ABSENT" /\ entry[k] = "none"
                    /\ \A q \in Results : q[1] = k => callback'[q] = "none"
                    /\ \A g \in Jobs : later'[g][k] = 0
                    /\ gate[k] # "signed" => unseen'[k] = 0
               /\ gate[k] \in {"sum", "subscription"} => ingest[k] = "none"
               /\ gate[k] \in {"none", "signed"} => later'[k] = Nothing
    <3>1. CASE ingest[k] = "none"
      <4>1. k # j
        BY <1>4, <3>1
      <4>2. \A q \in Results : q[1] = k => callback'[q] = "none"
        BY <1>0, <2>2, <3>1, <4>1 DEF PostedFirst
      <4>3. \A g \in Jobs : later'[g][k] = 0
        BY <1>0, <2>4, <3>1, <4>1 DEF PostedFirst
      <4> QED BY <1>0, <1>5, <2>3, <3>1, <4>1, <4>2, <4>3 DEF PostedFirst
    <3>2. CASE ingest[k] # "none"
      BY <1>0, <2>3, <3>2 DEF PostedFirst
    <3> QED BY <3>1, <3>2
  <2> QED BY <1>3, <2>1, <2>5 DEF PostedFirst
<1>11. ReadInv' /\ SumInv'
  <2>1. UNCHANGED <<gate, read, visible, blind, tier>>
    BY <1>2
  <2>2. SumInv'
    BY <1>0, <1>3, <2>1 DEF SumInv
  <2>3. ASSUME NEW g \in Jobs \ blind, gate[g] \in {"sum", "subscription"}
        PROVE  used'[Owner[g]] = read[g].used + SumFunctionOnSet(later'[g], JobsOf(Owner[g]))
    <3>1. used[Owner[g]] = read[g].used + SumFunctionOnSet(later[g], JobsOf(Owner[g]))
      BY <1>0, <2>3 DEF ReadInv
    <3>2. CASE Owner[g] # u
      <4>1. later'[g] = later[g] /\ used'[Owner[g]] = used[Owner[g]]
        BY <1>6, <1>7, <3>2, Constants DEF Reading
      <4> QED BY <3>1, <4>1
    <3>3. CASE Owner[g] = u
      <4>1. later'[g][j] = later[g][j] + M /\ later[g] \in [Jobs -> Nat] /\ later'[g] \in [Jobs -> Nat]
        BY <1>4, <1>7, <2>3, <3>3 DEF Reading
      <4>2. \A k \in JobsOf(u) : k # j => later[g][k] = later'[g][k]
        BY <1>1, <1>7
      <4>3. S(later'[g]) + later[g][j] = S(later[g]) + later'[g][j]
        <5> HIDE DEF j, u
        <5> QED BY <1>1, <4>1, <4>2, TotalChange
      <4>4. S(later'[g]) \in Nat /\ S(later[g]) \in Nat /\ later[g][j] \in Nat
        BY <1>1, <4>1, TotalNat
      <4>5. read[g].used \in Nat /\ used[u] = read[g].used + S(later[g])
        BY <1>0, <3>1, <3>3 DEF TypeOK
      <4>6. used'[u] = read[g].used + S(later'[g])
        <5> HIDE DEF S, u, j, M
        <5> QED BY <1>1, <1>6, <4>1, <4>3, <4>4, <4>5
      <4> QED BY <3>3, <4>6
    <3> QED BY <3>2, <3>3
  <2>4. \A g \in Jobs \ blind : gate[g] \in {"sum", "subscription"} => g \in Timed /\ tier[Owner[g]] = read[g].tier
    BY <1>0 DEF ReadInv
  <2> QED BY <1>3, <2>1, <2>2, <2>3, <2>4 DEF ReadInv
<1>12. \A k \in Jobs : k # j => Due'[k] = Due[k]
  <2>1. \A k \in Jobs : k # j => (Billed(k)' <=> Billed(k))
    BY <1>0, <1>2, <1>3 DEF Billed, TypeOK
  <2> QED BY <1>2, <2>1 DEF InFlight, Due, callVars
<1>13. Due \in [Jobs -> Nat] /\ Due' \in [Jobs -> Nat] /\ Due'[j] = 0
  <2>1. Billed(j)'
    BY <1>0, <1>2, <1>3 DEF Billed, TypeOK
  <2> QED BY <1>1, <2>1, Constants DEF InFlight, Due
<1>14. Due[j] + unseen'[j] = unseen[j] + M
  <2>1. CASE Billed(j)
    BY <1>1, <1>2, <1>4, <2>1, DueValues DEF InFlight
  <2>2. CASE ~Billed(j)
    BY <1>1, <1>2, <1>4, <2>2, DueValues DEF InFlight
  <2> QED BY <2>1, <2>2
<1>15. S(Due') + Due[j] = S(Due) + Due'[j]
  <2>1. \A k \in JobsOf(u) : k # j => Due[k] = Due'[k]
    BY <1>1, <1>12
  <2> HIDE DEF j, u
  <2> QED BY <1>1, <1>13, <2>1, TotalChange
<1>16. S(unseen') + unseen[j] = S(unseen) + unseen'[j]
  <2>1. \A k \in JobsOf(u) : k # j => unseen[k] = unseen'[k]
    BY <1>1, <1>5
  <2>2. unseen \in [Jobs -> Nat] /\ unseen' \in [Jobs -> Nat] /\ j \in JobsOf(u)
    BY ONLY <1>1, <1>4, <1>5
  <2> HIDE DEF j, u
  <2> QED BY ONLY <2>1, <2>2, TotalChange
<1>17. {S(Due), S(Due'), S(unseen), S(unseen'), used[u], Quota[tier[u]], Due[j], unseen[j], unseen'[j]} \subseteq Nat
  <2>1. used[u] \in Nat /\ Quota[tier[u]] \in Nat /\ Due[j] \in Nat /\ unseen[j] \in Nat /\ unseen'[j] \in Nat
    BY <1>0, <1>1, <1>4, <1>5, <1>13, Constants DEF TypeOK
  <2>2. S(Due) \in Nat /\ S(Due') \in Nat
    BY <1>13, TotalNat
  <2>3. S(unseen) \in Nat /\ S(unseen') \in Nat
    <3>1. unseen \in [Jobs -> Nat] /\ unseen' \in [Jobs -> Nat]
      BY ONLY <1>4, <1>5
    <3> QED BY ONLY <3>1, TotalNat
  <2> HIDE DEF S
  <2> QED BY ONLY <2>1, <2>2, <2>3
<1>18. used[u] + S(Due) < Quota[tier[u]] + S(unseen)
  BY <1>0, <1>1 DEF NoBlindOvershoot
<1>19. used'[u] + S(Due') < Quota[tier'[u]] + S(unseen')
  <2>1. tier' = tier
    BY <1>2
  <2> HIDE DEF S, u, j, M
  <2> QED BY <1>1, <1>6, <1>13, <1>14, <1>15, <1>16, <1>17, <1>18, <2>1
<1>20. ASSUME NEW v \in Users, v # u
       PROVE  used'[v] + SumFunctionOnSet(Due', JobsOf(v)) < Quota[tier'[v]] + SumFunctionOnSet(unseen', JobsOf(v))
  <2>1. \A k \in Jobs : Owner[k] # u => Due'[k] = Due[k] /\ unseen'[k] = unseen[k]
    BY <1>5, <1>12
  <2>2. used'[v] = used[v] /\ tier'[v] = tier[v]
    BY <1>2, <1>6, <1>20
  <2> QED BY <1>0, <1>1, <1>20, <2>1, <2>2, OthersUntouched
<1>21. NoBlindOvershoot'
  BY <1>3, <1>19, <1>20 DEF NoBlindOvershoot
<1> QED BY <1>9, <1>10, <1>11, <1>21 DEF MeterInv

LEMMA ResultInv ==
  ASSUME MeterInv, NEW r \in Results, ResultStep(r)
  PROVE  MeterInv'
<1> DEFINE j == r[1]
<1>0. TypeOK /\ PostedFirst
  BY DEF MeterInv
<1>1. j \in Jobs /\ Measured[j] \in Nat
  BY Constants DEF Results
<1>2. \A k \in Jobs : ingest[k] = "none" =>
        status[k] = "ABSENT" /\ \A q \in Results : q[1] = k => callback[q] = "none"
  BY <1>0 DEF PostedFirst
<1>3. CASE OnActive(r)
  <2>1. UNCHANGED <<userVars, duration, gateVars, callVars, entry, runs, failedEvents, callback, unseen>>
    BY <1>3 DEF OnActive
  <2>2. Write(j, "PROCESSING") /\ "PROCESSING" \in JobStatus /\ activeEvents' \subseteq Results
    BY <1>0, <1>3 DEF OnActive, JobStatus, TypeOK
  <2>3. /\ status' \in [Jobs -> JobStatus \cup {"ABSENT"}]
        /\ \A k \in Jobs : ingest[k] = "none" => status'[k] = status[k]
    BY <1>0, <1>1, <1>2, <2>2, WriteLeaves
  <2>4. TypeOK'
    BY <1>0, <2>1, <2>2, <2>3 DEF TypeOK, userVars, gateVars, callVars, JobsOf, Results, Subscriptions, JobStatus
  <2>5. UNCHANGED <<gateVars, used, tier, unseen, entry, callback, ingest>>
    BY <2>1 DEF userVars, callVars
  <2> QED BY <2>3, <2>4, <2>5, QuietStep
<1>4. CASE Complete(r) \/ Fail(r)
  <2>1. UNCHANGED <<userVars, gateVars, callVars, queueVars, unseen>>
    BY <1>4 DEF Complete, Fail
  <2>2. /\ callback[r] \in {"succeeded", "failed"}
        /\ \E c \in {"bill", "done"} : callback' = [callback EXCEPT ![r] = c]
    BY <1>4 DEF Complete, Fail
  <2>3. \E s \in JobStatus : Write(j, s)
    BY <1>4 DEF Complete, Fail, JobStatus
  <2>4. duration' \in [Jobs -> Nat]
    BY <1>0, <1>1, <1>4 DEF Complete, Fail, TypeOK
  <2>5. /\ status' \in [Jobs -> JobStatus \cup {"ABSENT"}]
        /\ \A k \in Jobs : ingest[k] = "none" => status'[k] = status[k]
    BY <1>0, <1>1, <1>2, <2>3, WriteLeaves
  <2>6. callback' \in [Results -> {"none", "succeeded", "failed", "bill", "billed", "done"}]
    BY <1>0, <2>2 DEF TypeOK
  <2>7. \A q \in Results : q = r \/ callback'[q] = callback[q]
    BY <1>0, <2>2 DEF TypeOK
  <2>8. \A q \in Results : callback'[q] = "billed" <=> callback[q] = "billed"
    BY <1>0, <2>2 DEF TypeOK
  <2>9. \A k \in Jobs : ingest[k] = "none" => \A q \in Results : q[1] = k => callback'[q] = callback[q]
    BY <1>2, <2>2, <2>7
  <2>10. TypeOK'
    BY <1>0, <2>1, <2>4, <2>5, <2>6
       DEF TypeOK, userVars, gateVars, callVars, queueVars, JobsOf, Results, Subscriptions, JobStatus
  <2>11. UNCHANGED <<gateVars, used, tier, unseen, entry, ingest>>
    BY <2>1 DEF userVars, callVars, queueVars
  <2> QED BY <2>5, <2>8, <2>9, <2>10, <2>11, QuietStep
<1>5. CASE Bill(r)
  BY <1>5, BillInv
<1> QED BY <1>3, <1>4, <1>5 DEF ResultStep

-----------------------------------------------------------------------------
(* The webhook.                                                             *)

LEMMA SubscriptionInv ==
  ASSUME MeterInv, NEW u \in Customers, SubscriptionChanges(u)
  PROVE  MeterInv'
<1>0. TypeOK /\ u \in Users /\ Written \subseteq Subscriptions /\ MaxPlanChanges \in Nat
  BY MeteringAssumption DEF MeterInv
<1>1. /\ changes < MaxPlanChanges /\ changes' = changes + 1
      /\ UNCHANGED <<tier, used, rowVars, gateVars, callVars, queueVars, callback, unseen>>
  BY DEF SubscriptionChanges
<1>2. sub' \in [Users -> Subscriptions \cup {None}]
  BY <1>0 DEF SubscriptionChanges, TypeOK
<1>3. changes' \in 0..MaxPlanChanges
  BY <1>0, <1>1 DEF TypeOK
<1>4. TypeOK'
  BY <1>0, <1>1, <1>2, <1>3 DEF TypeOK, rowVars, gateVars, callVars, queueVars, JobsOf, Results, Subscriptions, JobStatus
<1>5. UNCHANGED <<gateVars, used, tier, unseen, status, entry, callback, ingest>>
  BY <1>1 DEF rowVars, callVars, queueVars
<1> QED BY <1>4, <1>5, QuietStep DEF MeterInv

LEMMA PlanInv ==
  ASSUME MeterInv, NEW u \in Customers, NEW t \in Tiers, PlanChanges(u, t)
  PROVE  MeterInv'
<1> DEFINE S(f) == SumFunctionOnSet(f, JobsOf(u))
<1>0. TypeOK /\ PostedFirst /\ ReadInv /\ SumInv /\ NoBlindOvershoot /\ u \in Users /\ MaxPlanChanges \in Nat
  BY MeteringAssumption DEF MeterInv
<1>1. /\ changes < MaxPlanChanges /\ changes' = changes + 1
      /\ tier' = [tier EXCEPT ![u] = t] /\ used' = [used EXCEPT ![u] = 0]
      /\ unseen' = [k \in Jobs |-> IF Owner[k] = u THEN Due[k] ELSE unseen[k]]
      /\ blind' = blind \cup {j \in Jobs : Reading(j, u)}
      /\ UNCHANGED <<sub, rowVars, gate, read, visible, later, callVars, queueVars, callback>>
  BY DEF PlanChanges, updateUserPlan
<1>2. unseen' \in [Jobs -> Nat]
  BY <1>0, <1>1, DueValues DEF TypeOK
<1>3. tier'[u] = t /\ used'[u] = 0 /\ \A v \in Users : v # u => tier'[v] = tier[v] /\ used'[v] = used[v]
  BY <1>0, <1>1 DEF TypeOK
<1>4. TypeOK'
  <2>1. changes' \in 0..MaxPlanChanges /\ tier' \in [Users -> Tiers] /\ used' \in [Users -> Nat] /\ blind' \subseteq Jobs
    BY <1>0, <1>1 DEF TypeOK
  <2> QED BY <1>0, <1>1, <1>2, <2>1 DEF TypeOK, rowVars, callVars, queueVars, JobsOf, Results, Subscriptions, JobStatus
<1>5. Results' = Results /\ Nothing' = Nothing /\ \A v : JobsOf(v)' = JobsOf(v)
  BY DEF Results, Nothing, JobsOf
<1>6. PostedFirst'
  <2>1. UNCHANGED <<gate, ingest, status, entry, callback, later>>
    BY <1>1 DEF rowVars, callVars, queueVars
  <2>2. ASSUME NEW k \in Jobs, ingest[k] = "none", gate[k] # "signed"
        PROVE  unseen'[k] = 0
    BY <1>0, <1>1, <2>2, DueValues DEF InFlight, PostedFirst
  <2> QED BY <1>0, <1>5, <2>1, <2>2 DEF PostedFirst
<1>7. ReadInv' /\ SumInv'
  <2>1. UNCHANGED <<gate, read, visible, later>> /\ blind \subseteq blind'
    BY <1>1
  <2>2. ASSUME NEW g \in Jobs \ blind', gate[g] \in {"sum", "subscription"}
        PROVE  g \in Jobs \ blind /\ tier'[Owner[g]] = tier[Owner[g]] /\ used'[Owner[g]] = used[Owner[g]]
    BY <1>1, <1>3, <2>2, Constants DEF Reading
  <2>3. ReadInv'
    BY <1>0, <1>5, <2>1, <2>2 DEF ReadInv
  <2>4. SumInv'
    BY <1>0, <1>5, <2>1 DEF SumInv
  <2> QED BY <2>3, <2>4
<1>8. Due' = Due
  BY <1>1, DueStays DEF callVars
<1>9. used'[u] + S(Due') < Quota[tier'[u]] + S(unseen')
  <2>1. \A k \in JobsOf(u) : Due[k] = unseen'[k]
    BY <1>1 DEF JobsOf
  <2>2. S(Due) = S(unseen') /\ S(Due) \in Nat
    BY <2>1, TotalSame, TotalNat, DueValues
  <2>3. Quota[t] \in Nat /\ Quota[t] > 0
    BY Constants
  <2> HIDE DEF S
  <2> QED BY <1>3, <1>8, <2>2, <2>3
<1>10. ASSUME NEW v \in Users, v # u
       PROVE  used'[v] + SumFunctionOnSet(Due', JobsOf(v)) < Quota[tier'[v]] + SumFunctionOnSet(unseen', JobsOf(v))
  <2>1. \A k \in Jobs : Owner[k] # u => Due'[k] = Due[k] /\ unseen'[k] = unseen[k]
    BY <1>1, <1>8
  <2> QED BY <1>0, <1>3, <1>10, <2>1, OthersUntouched
<1>11. NoBlindOvershoot'
  BY <1>5, <1>9, <1>10 DEF NoBlindOvershoot
<1> QED BY <1>4, <1>6, <1>7, <1>11 DEF MeterInv

-----------------------------------------------------------------------------
(* The invariant, and the theorems.                                         *)

LEMMA MeterInit == Init => MeterInv
<1> SUFFICES ASSUME Init PROVE MeterInv
  OBVIOUS
<1>1. Nothing \in [Jobs -> Nat] /\ \A j \in Jobs : Nothing[j] = 0
  BY DEF Nothing
<1>2. Unread \in [tier : Tiers, used : Nat] /\ PaidSubscription \in Subscriptions
  BY MeteringAssumption DEF Unread, PaidSubscription, Subscriptions
<1>3. TypeOK
  BY <1>1, <1>2, MeteringAssumption DEF Init, TypeOK, JobStatus
<1>4. PostedFirst /\ ReadInv /\ SumInv
  BY <1>1 DEF Init, PostedFirst, ReadInv, SumInv
<1>5. ASSUME NEW u \in Users
      PROVE  used[u] + SumFunctionOnSet(Due, JobsOf(u)) < Quota[tier[u]] + SumFunctionOnSet(unseen, JobsOf(u))
  <2>1. \A k \in JobsOf(u) : Due[k] = 0 /\ unseen[k] = 0
    BY <1>1, JobsOfFinite, DueValues DEF Init, InFlight
  <2>2. SumFunctionOnSet(Due, JobsOf(u)) = 0 /\ SumFunctionOnSet(unseen, JobsOf(u)) = 0
    BY <2>1, JobsOfFinite, SumZero
  <2>3. used[u] = 0 /\ Quota[tier[u]] \in Nat /\ Quota[tier[u]] > 0
    BY <1>3, Constants DEF Init, TypeOK
  <2> QED BY <2>2, <2>3
<1> QED BY <1>3, <1>4, <1>5 DEF MeterInv, NoBlindOvershoot

LEMMA MeterNext == MeterInv /\ [Next]_vars => MeterInv'
<1> SUFFICES ASSUME MeterInv, [Next]_vars PROVE MeterInv'
  OBVIOUS
<1>1. ASSUME NEW j \in Jobs, GateStep(j) \/ IngestStep(j) \/ RequestStep(j) \/ WorkerStep(j)
      PROVE  MeterInv'
  BY <1>1, GateUserInv, GateReservationInv, GateSubscriptionInv, IngestInv, RequestInv, WorkerInv DEF GateStep
<1>2. ASSUME NEW r \in Results, ResultStep(r)
      PROVE  MeterInv'
  BY <1>2, ResultInv
<1>3. ASSUME NEW u \in Customers, SubscriptionChanges(u) \/ \E t \in Tiers : PlanChanges(u, t)
      PROVE  MeterInv'
  BY <1>3, SubscriptionInv, PlanInv
<1>4. CASE UNCHANGED vars
  <2>1. UNCHANGED <<userVars, rowVars, gateVars, callVars, queueVars, callback, unseen>>
    BY <1>4 DEF vars
  <2>2. TypeOK'
    BY <2>1 DEF MeterInv, TypeOK, userVars, rowVars, gateVars, callVars, queueVars, JobsOf, Results, Subscriptions, JobStatus
  <2>3. UNCHANGED <<gateVars, used, tier, unseen, status, entry, callback, ingest>>
    BY <2>1 DEF userVars, rowVars, callVars, queueVars
  <2> QED BY <2>2, <2>3, QuietStep
<1> QED BY <1>1, <1>2, <1>3, <1>4 DEF Next

LEMMA MeterInvariant == Spec => []MeterInv
BY MeterInit, MeterNext, PTL DEF Spec

\* The columns, calls, entries and results of the uploads have their types, for any number of
\* uploads and activations.
THEOREM TypeCorrect == Spec => []TypeOK
<1>1. MeterInv => TypeOK
  BY DEF MeterInv
<1> QED BY <1>1, MeterInvariant, PTL

\* For any durations a client declares, a client posts and the worker measures, whether or not an
\* upload was ever signed: what a user has used and has in flight stays within the quota, but for
\* the minutes the gate could not know of when it granted them.
THEOREM NoBlindOvershootHolds == Spec => []NoBlindOvershoot
<1>1. MeterInv => NoBlindOvershoot
  BY DEF MeterInv
<1> QED BY <1>1, MeterInvariant, PTL
=============================================================================
