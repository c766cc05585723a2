-------------------------------- MODULE Sums --------------------------------
(***************************************************************************)
(* SumFunctionOnSet(f, S) of the community modules, the sum of f[x] over    *)
(* the elements x of a finite set S: it is 0 for the empty set, a natural   *)
(* number where every f[x] is one, and it grows by f[x] with x.  By         *)
(* induction over the subsets of S, each time as: a set of counterexamples  *)
(* has a smallest one, which is none.                                       *)
(***************************************************************************)
EXTENDS FiniteSetTheorems, TLAPS

\* The element the sum over s takes first.
Pick(s) == CHOOSE x \in s : TRUE
Rest(s) == s \ {Pick(s)}

\* g is the sum over every subset of S.
IsSum(g, f, S) == g = [s \in SUBSET S |-> IF s = {} THEN 0 ELSE f[Pick(s)] + g[Rest(s)]]
TheSum(f, S) == CHOOSE g : IsSum(g, f, S)

\* The library's fold is the function above.
LEMMA SumDef == ASSUME NEW f, NEW S PROVE SumFunctionOnSet(f, S) = TheSum(f, S)[S]
BY Zenon DEF SumFunctionOnSet, FoldFunctionOnSet, MapThenFoldSet, TheSum, IsSum, Pick, Rest

\* A sum goes on over a smaller set.
LEMMA RestIsSmaller ==
  ASSUME NEW s, s # {}
  PROVE  Pick(s) \in s /\ Rest(s) \subseteq s /\ Rest(s) # s
<1>1. Pick(s) \in s
  BY DEF Pick
<1> QED BY <1>1 DEF Rest

\* A family of subsets of a finite set has a smallest member.
LEMMA Smallest ==
  ASSUME NEW S, IsFiniteSet(S), NEW B \in SUBSET SUBSET S, B # {}
  PROVE  \E T \in B : \A U \in SUBSET T : U # T => U \notin B
<1>1. IsWellFoundedOn(StrictSubsetOrdering(S), SUBSET S)
  BY FS_StrictSubsetOrderingWellFounded, FS_FiniteSubsetsOfFinite
<1>2. PICK T \in B : \A U \in B : <<U, T>> \notin StrictSubsetOrdering(S)
  BY <1>1, WFMin
<1>3. \A U \in SUBSET T : U # T => U \notin B
  BY <1>2 DEF StrictSubsetOrdering
<1> QED BY <1>3

\* The defining equation of a sum.
LEMMA SumStep ==
  ASSUME NEW f, NEW S, NEW g, IsSum(g, f, S)
  PROVE  /\ g[{}] = 0
         /\ \A s \in SUBSET S : s # {} => g[s] = f[Pick(s)] + g[Rest(s)]
<1>1. {} \in SUBSET S
  OBVIOUS
<1>2. \A s \in SUBSET S : g[s] = IF s = {} THEN 0 ELSE f[Pick(s)] + g[Rest(s)]
  BY Zenon DEF IsSum
<1> QED BY <1>1, <1>2

\* Sums over different sets agree where both are defined.
LEMMA SumsAgree ==
  ASSUME NEW f, NEW A, IsFiniteSet(A), NEW B, NEW g, IsSum(g, f, A), NEW h, IsSum(h, f, B)
  PROVE  \A s \in SUBSET (A \cap B) : g[s] = h[s]
<1> DEFINE Bad == {s \in SUBSET (A \cap B) : g[s] # h[s]}
<1>1. SUFFICES ASSUME Bad # {} PROVE FALSE
  OBVIOUS
<1>2. Bad \in SUBSET SUBSET A
  OBVIOUS
<1>3. PICK T \in Bad : \A U \in SUBSET T : U # T => U \notin Bad
  <2> HIDE DEF Bad
  <2> QED BY <1>1, <1>2, Smallest
<1>4. T \in SUBSET A /\ T \in SUBSET B /\ g[T] # h[T]
  OBVIOUS
<1>5. T # {}
  BY <1>4, SumStep
<1>6. Rest(T) \in SUBSET T /\ Rest(T) # T
  BY <1>5, RestIsSmaller
<1>7. g[Rest(T)] = h[Rest(T)]
  BY <1>3, <1>4, <1>6
<1>8. g[T] = f[Pick(T)] + g[Rest(T)] /\ h[T] = f[Pick(T)] + h[Rest(T)]
  BY <1>4, <1>5, SumStep
<1> QED BY <1>4, <1>7, <1>8

\* There is such a sum, so TheSum is it: what the recursion needs is defined on smaller sets.
LEMMA SumExists ==
  ASSUME NEW f, NEW S, IsFiniteSet(S)
  PROVE  IsSum(TheSum(f, S), f, S)
<1> DEFINE Good(s) == IsSum(TheSum(f, s), f, s)
           Bad == {s \in SUBSET S : ~Good(s)}
<1>1. SUFFICES ASSUME Bad # {} PROVE FALSE
  OBVIOUS
<1>2. PICK T \in Bad : \A U \in SUBSET T : U # T => U \notin Bad
  <2>1. Bad \in SUBSET SUBSET S
    OBVIOUS
  <2> HIDE DEF Bad
  <2> QED BY <1>1, <2>1, Smallest
<1>3. T \in SUBSET S /\ ~Good(T)
  OBVIOUS
<1>4. \A U \in SUBSET T : U # T => Good(U)
  BY <1>2, <1>3
<1> HIDE DEF Bad, Good
<1> DEFINE Below(s) == TheSum(f, Rest(s))[Rest(s)]
           g == [s \in SUBSET T |-> IF s = {} THEN 0 ELSE f[Pick(s)] + Below(s)]
<1>5. ASSUME NEW s \in SUBSET T, s # {}
      PROVE  g[Rest(s)] = Below(s)
  <2> DEFINE r == Rest(s)
             h == TheSum(f, r)
  <2>1. r \in SUBSET T /\ r # T
    BY <1>5, RestIsSmaller
  <2>2. IsSum(h, f, r)
    BY <1>4, <2>1 DEF Good
  <2>3. CASE r = {}
    <3>1. h[r] = 0
      BY <2>2, <2>3, SumStep
    <3>2. g[r] = 0
      BY <2>1, <2>3
    <3> QED BY <3>1, <3>2
  <2>4. CASE r # {}
    <3>1. Rest(r) \in SUBSET r /\ Rest(r) \in SUBSET T /\ Rest(r) # T
      BY <2>1, <2>4, RestIsSmaller
    <3>2. IsSum(TheSum(f, Rest(r)), f, Rest(r))
      BY <1>4, <3>1 DEF Good
    <3>3. IsFiniteSet(r)
      BY <1>3, <2>1, FS_Subset
    <3>4. h[Rest(r)] = TheSum(f, Rest(r))[Rest(r)]
      BY <2>2, <3>1, <3>2, <3>3, SumsAgree
    <3>5. h[r] = f[Pick(r)] + h[Rest(r)]
      BY <2>2, <2>4, SumStep
    <3>6. g[r] = f[Pick(r)] + Below(r)
      BY <2>1, <2>4
    <3> QED BY <3>4, <3>5, <3>6
  <2> QED BY <2>3, <2>4
<1>6. IsSum(g, f, T)
  <2>1. \A s \in SUBSET T : (IF s = {} THEN 0 ELSE f[Pick(s)] + Below(s))
                            = (IF s = {} THEN 0 ELSE f[Pick(s)] + g[Rest(s)])
    BY <1>5
  <2> QED BY <2>1 DEF IsSum
<1>7. Good(T)
  BY <1>6 DEF Good, TheSum
<1> QED BY <1>3, <1>7

-----------------------------------------------------------------------------
(* What the sums are.                                                       *)

\* Nothing adds up to 0.
LEMMA SumEmpty == ASSUME NEW f PROVE SumFunctionOnSet(f, {}) = 0
<1>1. IsSum(TheSum(f, {}), f, {})
  BY FS_EmptySet, SumExists
<1> QED BY <1>1, SumStep, SumDef

\* A sum is its first element's value and the sum of the rest.
LEMMA SumRest ==
  ASSUME NEW f, NEW S, IsFiniteSet(S), S # {}
  PROVE  SumFunctionOnSet(f, S) = f[Pick(S)] + SumFunctionOnSet(f, Rest(S))
<1>1. Rest(S) \in SUBSET S /\ IsFiniteSet(Rest(S))
  BY RestIsSmaller, FS_Subset
<1>2. IsSum(TheSum(f, S), f, S) /\ IsSum(TheSum(f, Rest(S)), f, Rest(S))
  BY <1>1, SumExists
<1>3. TheSum(f, S)[Rest(S)] = TheSum(f, Rest(S))[Rest(S)]
  BY <1>1, <1>2, SumsAgree
<1> QED BY <1>2, <1>3, SumStep, SumDef

\* Natural numbers add up to one.
LEMMA SumNat ==
  ASSUME NEW f, NEW S, IsFiniteSet(S), \A x \in S : f[x] \in Nat
  PROVE  SumFunctionOnSet(f, S) \in Nat
<1> DEFINE Bad == {s \in SUBSET S : SumFunctionOnSet(f, s) \notin Nat}
<1>1. SUFFICES ASSUME Bad # {} PROVE FALSE
  OBVIOUS
<1>2. PICK T \in Bad : \A U \in SUBSET T : U # T => U \notin Bad
  <2>1. Bad \in SUBSET SUBSET S
    OBVIOUS
  <2> HIDE DEF Bad
  <2> QED BY <1>1, <2>1, Smallest
<1>3. T \in SUBSET S /\ IsFiniteSet(T) /\ SumFunctionOnSet(f, T) \notin Nat
  BY FS_Subset
<1>4. T # {}
  BY <1>3, SumEmpty
<1>5. SumFunctionOnSet(f, Rest(T)) \in Nat /\ f[Pick(T)] \in Nat
  BY <1>2, <1>3, <1>4, RestIsSmaller
<1> QED BY <1>3, <1>4, <1>5, SumRest

\* A sum is over the values at the elements, whatever the function is elsewhere.
LEMMA SumSame ==
  ASSUME NEW f, NEW g, NEW S, IsFiniteSet(S), \A x \in S : f[x] = g[x]
  PROVE  SumFunctionOnSet(f, S) = SumFunctionOnSet(g, S)
<1> DEFINE Bad == {s \in SUBSET S : SumFunctionOnSet(f, s) # SumFunctionOnSet(g, s)}
<1>1. SUFFICES ASSUME Bad # {} PROVE FALSE
  OBVIOUS
<1>2. PICK T \in Bad : \A U \in SUBSET T : U # T => U \notin Bad
  <2>1. Bad \in SUBSET SUBSET S
    OBVIOUS
  <2> HIDE DEF Bad
  <2> QED BY <1>1, <2>1, Smallest
<1>3. T \in SUBSET S /\ IsFiniteSet(T) /\ SumFunctionOnSet(f, T) # SumFunctionOnSet(g, T)
  BY FS_Subset
<1>4. T # {}
  BY <1>3, SumEmpty
<1>5. SumFunctionOnSet(f, Rest(T)) = SumFunctionOnSet(g, Rest(T)) /\ f[Pick(T)] = g[Pick(T)]
  BY <1>2, <1>3, <1>4, RestIsSmaller
<1> QED BY <1>3, <1>4, <1>5, SumRest

\* Any element may be taken out first: the order of a sum does not matter.
LEMMA SumRemove ==
  ASSUME NEW f, NEW S, IsFiniteSet(S), \A x \in S : f[x] \in Nat, NEW e \in S
  PROVE  SumFunctionOnSet(f, S) = f[e] + SumFunctionOnSet(f, S \ {e})
<1> DEFINE Bad == {s \in SUBSET S :
                    \E x \in s : SumFunctionOnSet(f, s) # f[x] + SumFunctionOnSet(f, s \ {x})}
<1>1. SUFFICES ASSUME Bad # {} PROVE FALSE
  OBVIOUS
<1>2. PICK T \in Bad : \A U \in SUBSET T : U # T => U \notin Bad
  <2>1. Bad \in SUBSET SUBSET S
    OBVIOUS
  <2> HIDE DEF Bad
  <2> QED BY <1>1, <2>1, Smallest
<1>3. PICK x \in T : SumFunctionOnSet(f, T) # f[x] + SumFunctionOnSet(f, T \ {x})
  OBVIOUS
<1>4. T \in SUBSET S /\ IsFiniteSet(T)
  BY FS_Subset
<1>5. \A U \in SUBSET T : U # T =>
        \A y \in U : SumFunctionOnSet(f, U) = f[y] + SumFunctionOnSet(f, U \ {y})
  BY <1>2, <1>4
<1> HIDE DEF Bad
<1> DEFINE p == Pick(T)
<1>6. p \in T /\ SumFunctionOnSet(f, T) = f[p] + SumFunctionOnSet(f, T \ {p})
  BY <1>4, RestIsSmaller, SumRest DEF Rest
<1>7. x # p
  BY <1>3, <1>6
<1>8. /\ SumFunctionOnSet(f, T \ {p}) = f[x] + SumFunctionOnSet(f, (T \ {p}) \ {x})
      /\ SumFunctionOnSet(f, T \ {x}) = f[p] + SumFunctionOnSet(f, (T \ {x}) \ {p})
  BY <1>5, <1>6, <1>7
<1>9. (T \ {p}) \ {x} = (T \ {x}) \ {p}
  OBVIOUS
<1>10. f[x] \in Nat /\ f[p] \in Nat /\ SumFunctionOnSet(f, (T \ {x}) \ {p}) \in Nat
  <2>1. (T \ {x}) \ {p} \in SUBSET S
    BY <1>4
  <2> QED BY <1>4, <1>6, <2>1, FS_Subset, SumNat
<1> HIDE DEF p
<1> QED BY <1>3, <1>6, <1>8, <1>9, <1>10

\* A sum grows by the value at a new element.
LEMMA SumAdd ==
  ASSUME NEW f, NEW S, IsFiniteSet(S), NEW e, e \notin S, \A x \in S \cup {e} : f[x] \in Nat
  PROVE  SumFunctionOnSet(f, S \cup {e}) = SumFunctionOnSet(f, S) + f[e]
<1> DEFINE T == S \cup {e}
<1>1. IsFiniteSet(T) /\ e \in T /\ T \ {e} = S /\ f[e] \in Nat
  BY FS_AddElement
<1>2. SumFunctionOnSet(f, S) \in Nat
  BY SumNat
<1> HIDE DEF T
<1>3. SumFunctionOnSet(f, T) = f[e] + SumFunctionOnSet(f, T \ {e})
  BY <1>1, SumRemove DEF T
<1> QED BY <1>1, <1>2, <1>3 DEF T

\* The sum over two sets without a common element.
LEMMA SumUnion ==
  ASSUME NEW f, NEW A, IsFiniteSet(A), NEW B, IsFiniteSet(B), A \cap B = {},
         \A x \in A \cup B : f[x] \in Nat
  PROVE  SumFunctionOnSet(f, A \cup B) = SumFunctionOnSet(f, A) + SumFunctionOnSet(f, B)
<1> DEFINE Bad == {s \in SUBSET B :
                    SumFunctionOnSet(f, A \cup s) # SumFunctionOnSet(f, A) + SumFunctionOnSet(f, s)}
<1>1. SUFFICES ASSUME Bad # {} PROVE FALSE
  OBVIOUS
<1>2. PICK T \in Bad : \A U \in SUBSET T : U # T => U \notin Bad
  <2>1. Bad \in SUBSET SUBSET B
    OBVIOUS
  <2> HIDE DEF Bad
  <2> QED BY <1>1, <2>1, Smallest
<1>3. /\ T \in SUBSET B
      /\ SumFunctionOnSet(f, A \cup T) # SumFunctionOnSet(f, A) + SumFunctionOnSet(f, T)
  OBVIOUS
<1>4. \A U \in SUBSET T : U # T =>
        SumFunctionOnSet(f, A \cup U) = SumFunctionOnSet(f, A) + SumFunctionOnSet(f, U)
  BY <1>2, <1>3
<1> HIDE DEF Bad
<1>5. SumFunctionOnSet(f, A) \in Nat
  BY SumNat
<1>6. T # {}
  <2>1. A \cup {} = A
    OBVIOUS
  <2>2. SumFunctionOnSet(f, {}) = 0
    BY SumEmpty
  <2>3. SumFunctionOnSet(f, A \cup {}) = SumFunctionOnSet(f, A) + SumFunctionOnSet(f, {})
    BY ONLY <1>5, <2>1, <2>2
  <2> QED BY ONLY <1>3, <2>3
<1>7. PICK e \in T : TRUE
  BY <1>6
<1> DEFINE U == T \ {e}
<1>8. U \in SUBSET T /\ U # T /\ e \notin U /\ e \notin A \cup U /\ T = U \cup {e}
  BY <1>3
<1>9. IsFiniteSet(U) /\ IsFiniteSet(A \cup U)
  BY <1>3, <1>8, FS_Subset, FS_Union
<1>10. (A \cup U) \cup {e} = A \cup T
  BY <1>8
<1> HIDE DEF U
<1>11. /\ SumFunctionOnSet(f, T) = SumFunctionOnSet(f, U) + f[e]
       /\ SumFunctionOnSet(f, A \cup T) = SumFunctionOnSet(f, A \cup U) + f[e]
  <2>1. (\A x \in U \cup {e} : f[x] \in Nat) /\ (\A x \in (A \cup U) \cup {e} : f[x] \in Nat)
    BY <1>3, <1>8, <1>10
  <2>2. SumFunctionOnSet(f, U \cup {e}) = SumFunctionOnSet(f, U) + f[e]
    BY <1>8, <1>9, <2>1, SumAdd
  <2>3. SumFunctionOnSet(f, (A \cup U) \cup {e}) = SumFunctionOnSet(f, A \cup U) + f[e]
    BY <1>8, <1>9, <2>1, SumAdd
  <2> QED BY <1>8, <1>10, <2>2, <2>3
<1>12. SumFunctionOnSet(f, U) \in Nat /\ f[e] \in Nat
  BY <1>3, <1>8, <1>9, SumNat
<1>13. SumFunctionOnSet(f, A \cup U) = SumFunctionOnSet(f, A) + SumFunctionOnSet(f, U)
  BY <1>4, <1>8
<1> QED BY <1>3, <1>5, <1>11, <1>12, <1>13
\* Sums add up element by element.
LEMMA SumPlus ==
  ASSUME NEW f, NEW g, NEW h, NEW S, IsFiniteSet(S),
         \A x \in S : f[x] \in Nat /\ g[x] \in Nat /\ h[x] = f[x] + g[x]
  PROVE  SumFunctionOnSet(h, S) = SumFunctionOnSet(f, S) + SumFunctionOnSet(g, S)
<1> DEFINE Bad == {s \in SUBSET S :
                    SumFunctionOnSet(h, s) # SumFunctionOnSet(f, s) + SumFunctionOnSet(g, s)}
<1>1. SUFFICES ASSUME Bad # {} PROVE FALSE
  OBVIOUS
<1>2. PICK T \in Bad : \A U \in SUBSET T : U # T => U \notin Bad
  <2>1. Bad \in SUBSET SUBSET S
    OBVIOUS
  <2> HIDE DEF Bad
  <2> QED BY <1>1, <2>1, Smallest
<1>3. /\ T \in SUBSET S /\ IsFiniteSet(T)
      /\ SumFunctionOnSet(h, T) # SumFunctionOnSet(f, T) + SumFunctionOnSet(g, T)
  <2>1. T \in SUBSET S
    OBVIOUS
  <2> QED BY <2>1, FS_Subset
<1>4. T # {}
  <2>1. /\ SumFunctionOnSet(h, {}) = 0 /\ SumFunctionOnSet(f, {}) = 0
        /\ SumFunctionOnSet(g, {}) = 0
    BY SumEmpty
  <2>2. SumFunctionOnSet(h, {}) = SumFunctionOnSet(f, {}) + SumFunctionOnSet(g, {})
    BY ONLY <2>1
  <2> QED BY ONLY <1>3, <2>2
<1> DEFINE p == Pick(T)
           R == Rest(T)
<1>5. p \in T /\ R \in SUBSET T /\ R # T /\ IsFiniteSet(R)
  BY <1>3, <1>4, RestIsSmaller, FS_Subset
<1>6. SumFunctionOnSet(h, R) = SumFunctionOnSet(f, R) + SumFunctionOnSet(g, R)
  BY <1>2, <1>3, <1>5
<1>7. /\ SumFunctionOnSet(h, T) = h[p] + SumFunctionOnSet(h, R)
      /\ SumFunctionOnSet(f, T) = f[p] + SumFunctionOnSet(f, R)
      /\ SumFunctionOnSet(g, T) = g[p] + SumFunctionOnSet(g, R)
  BY <1>3, <1>4, SumRest
<1>8. /\ f[p] \in Nat /\ g[p] \in Nat /\ h[p] = f[p] + g[p]
      /\ SumFunctionOnSet(f, R) \in Nat /\ SumFunctionOnSet(g, R) \in Nat
  BY <1>3, <1>5, SumNat
<1> HIDE DEF Bad, p, R
<1> QED BY <1>3, <1>6, <1>7, <1>8

\* Zeros add up to 0.
LEMMA SumZero ==
  ASSUME NEW f, NEW S, IsFiniteSet(S), \A x \in S : f[x] = 0
  PROVE  SumFunctionOnSet(f, S) = 0
<1>1. SumFunctionOnSet(f, S) = SumFunctionOnSet(f, S) + SumFunctionOnSet(f, S)
  BY SumPlus
<1>2. SumFunctionOnSet(f, S) \in Nat
  BY SumNat
<1>3. \A n \in Nat : n = n + n => n = 0
  BY ONLY SMT
<1> QED BY ONLY <1>1, <1>2, <1>3

\* What is no larger at any element has no larger a sum.
LEMMA SumMonotone ==
  ASSUME NEW S, IsFiniteSet(S), NEW f \in [S -> Nat], NEW g \in [S -> Nat],
         \A x \in S : f[x] <= g[x]
  PROVE  SumFunctionOnSet(f, S) <= SumFunctionOnSet(g, S)
<1> DEFINE d == [x \in S |-> g[x] - f[x]]
<1>1. \A x \in S : f[x] \in Nat /\ d[x] \in Nat /\ g[x] = f[x] + d[x]
  OBVIOUS
<1> HIDE DEF d
<1>2. SumFunctionOnSet(g, S) = SumFunctionOnSet(f, S) + SumFunctionOnSet(d, S)
  BY <1>1, SumPlus
<1>3. SumFunctionOnSet(f, S) \in Nat /\ SumFunctionOnSet(d, S) \in Nat
  BY <1>1, SumNat
<1> QED BY <1>2, <1>3

\* One value changes: so does the sum.
LEMMA SumChange ==
  ASSUME NEW f, NEW g, NEW S, IsFiniteSet(S), \A x \in S : f[x] \in Nat /\ g[x] \in Nat,
         NEW e \in S, \A x \in S \ {e} : f[x] = g[x]
  PROVE  SumFunctionOnSet(g, S) + f[e] = SumFunctionOnSet(f, S) + g[e]
<1>1. /\ SumFunctionOnSet(f, S) = f[e] + SumFunctionOnSet(f, S \ {e})
      /\ SumFunctionOnSet(g, S) = g[e] + SumFunctionOnSet(g, S \ {e})
  BY SumRemove
<1>2. IsFiniteSet(S \ {e})
  BY FS_Subset
<1>3. SumFunctionOnSet(f, S \ {e}) = SumFunctionOnSet(g, S \ {e})
  BY <1>2, SumSame
<1>4. f[e] \in Nat /\ g[e] \in Nat /\ SumFunctionOnSet(g, S \ {e}) \in Nat
  BY <1>2, SumNat
<1> QED BY <1>1, <1>3, <1>4
=============================================================================
