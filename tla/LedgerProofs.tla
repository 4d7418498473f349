---------------------------- MODULE LedgerProofs -----------------------------
(***************************************************************************)
(* Theorems about Ledger for every catalogue, every set of rows and days, and *)
(* any number of edits, records by hand and appeals, checked by TLAPS: what *)
(* the Agenda shows is what the Corte pays, work never costs, and a Corte's *)
(* title names one cycle.                                                  *)
(***************************************************************************)
EXTENDS Ledger, FiniteSetTheorems, WellFoundedInduction, TLAPS

(***************************************************************************)
(* Sums over finite sets, by induction over subsets as in CycleCloseProofs, *)
(* and sums that are taken day by day.                                     *)
(***************************************************************************)

\* The recursive function in the definition of the fold, by name.
Adds(g, S, h) ==
  h = [s \in SUBSET S |->
         IF s = {} THEN 0 ELSE LET x == CHOOSE x \in s : TRUE IN g[x] + h[s \ {x}]]

\* A sum is that function at the whole set.
LEMMA SumUnfolds ==
  ASSUME NEW g, NEW S
  PROVE  SumFunctionOnSet(g, S) = (CHOOSE h : Adds(g, S, h))[S]
BY DEF SumFunctionOnSet, FoldFunctionOnSet, MapThenFoldSet, Adds

\* What holds of a subset whenever it holds of the smaller ones holds of a finite set.
LEMMA StrongSubsetInduction ==
  ASSUME NEW S, IsFiniteSet(S), NEW P,
         \A T \in SUBSET S : (\A U \in SUBSET T : U # T => U \in P) => T \in P
  PROVE  S \in P
<1>. DEFINE bad == (SUBSET S) \ P
            less == StrictSubsetOrdering(S)
<1>1. IsWellFoundedOn(less, SUBSET S)
  BY FS_StrictSubsetOrderingWellFounded, FS_FiniteSubsetsOfFinite
<1>2. SUFFICES ASSUME S \notin P PROVE FALSE
  OBVIOUS
<1>3. S \in bad /\ bad \subseteq SUBSET S
  BY <1>2
<1>4. PICK T \in bad : \A U \in bad : <<U, T>> \notin less
  <2>. HIDE DEF bad, less
  <2> QED BY <1>1, <1>3, WFMin
<1>5. ASSUME NEW U \in SUBSET T, U # T PROVE U \in P
  <2>1. <<U, T>> \in less
    BY <1>4, <1>5 DEF StrictSubsetOrdering
  <2> QED BY <1>4, <2>1
<1> QED BY <1>4, <1>5

\* The same, one element at a time.
LEMMA SubsetInduction ==
  ASSUME NEW S, IsFiniteSet(S), NEW P, {} \in P,
         \A T \in SUBSET S : \A x \in S \ T : T \in P => T \cup {x} \in P
  PROVE  S \in P
<1>1. ASSUME NEW T \in SUBSET S, \A U \in SUBSET T : U # T => U \in P
      PROVE  T \in P
  <2>1. CASE T = {}
    BY <2>1
  <2>2. CASE T # {}
    <3>1. PICK x \in T : TRUE
      BY <2>2
    <3>2. T \ {x} \in P /\ (T \ {x}) \cup {x} = T
      BY <1>1, <3>1
    <3> QED BY <3>1, <3>2
  <2> QED BY <2>1, <2>2
<1> QED BY <1>1, StrongSubsetInduction

\* Two functions that add up the values agree on every finite set both are defined on.
LEMMA SumIsUnique ==
  ASSUME NEW g, NEW S, IsFiniteSet(S), NEW T, NEW U, S \subseteq T, S \subseteq U,
         NEW h, Adds(g, T, h), NEW k, Adds(g, U, k)
  PROVE  h[S] = k[S]
<1>. DEFINE P == {s \in SUBSET S : h[s] = k[s]}
<1>1. ASSUME NEW s \in SUBSET S, \A u \in SUBSET s : u # s => u \in P
      PROVE  s \in P
  <2>1. CASE s = {}
    BY <2>1 DEF Adds
  <2>2. CASE s # {}
    <3>. DEFINE x == CHOOSE x \in s : TRUE
    <3>1. x \in s
      BY <2>2
    <3>. HIDE DEF x
    <3>2. h[s \ {x}] = k[s \ {x}]
      BY <1>1, <3>1
    <3>3. h[s] = g[x] + h[s \ {x}] /\ k[s] = g[x] + k[s \ {x}]
      BY <2>2 DEF Adds, x
    <3> QED BY <3>2, <3>3
  <2> QED BY <2>1, <2>2
<1>2. S \in P
  <2>. HIDE DEF P
  <2> QED BY <1>1, StrongSubsetInduction
<1> QED BY <1>2

\* And there is one for every finite set.
LEMMA SumExists ==
  ASSUME NEW g, NEW S, IsFiniteSet(S)
  PROVE  \E h : Adds(g, S, h)
<1>. DEFINE P == {s \in SUBSET S : \E h : Adds(g, s, h)}
<1>1. ASSUME NEW T \in SUBSET S, \A u \in SUBSET T : u # T => u \in P
      PROVE  \E h : Adds(g, T, h)
  <2>. DEFINE sum(u) == (CHOOSE k : Adds(g, u, k))[u]
              first(s) == CHOOSE x \in s : TRUE
              h == [s \in SUBSET T |-> IF s = {} THEN 0
                                       ELSE g[first(s)] + sum(s \ {first(s)})]
  <2>1. ASSUME NEW u \in SUBSET T, u # T PROVE h[u] = sum(u)
    <3>. DEFINE k == CHOOSE k : Adds(g, u, k)
    <3>1. Adds(g, u, k) /\ u \in SUBSET u
      BY <1>1, <2>1
    <3>2. CASE u = {}
      BY <3>1, <3>2 DEF Adds
    <3>3. CASE u # {}
      <4>. DEFINE x == first(u)
                  w == u \ {x}
                  j == CHOOSE j : Adds(g, w, j)
      <4>1. x \in u
        BY <3>3
      <4>2. w \in SUBSET T /\ w # T /\ w \subseteq u /\ w \subseteq w /\ IsFiniteSet(w)
        BY <4>1, FS_Subset
      <4>3. Adds(g, w, j)
        BY <1>1, <4>2
      <4>4. k[w] = j[w]
        <5>. HIDE DEF k, j, w
        <5> QED BY <3>1, <4>2, <4>3, SumIsUnique
      <4>5. k[u] = g[x] + k[w]
        <5>. HIDE DEF k
        <5> QED BY <3>1, <3>3 DEF Adds
      <4>6. h[u] = g[x] + j[w]
        BY <3>3
      <4> QED BY <4>4, <4>5, <4>6
    <3> QED BY <3>2, <3>3
  <2>2. ASSUME NEW s \in SUBSET T, s # {}
        PROVE  sum(s \ {first(s)}) = h[s \ {first(s)}]
    <3>1. first(s) \in s
      BY <2>2
    <3>2. s \ {first(s)} \in SUBSET T /\ s \ {first(s)} # T
      BY <3>1
    <3> QED BY <2>1, <3>2
  <2>3. Adds(g, T, h)
    <3>1. \A s \in SUBSET T : h[s] = IF s = {} THEN 0
                                     ELSE g[first(s)] + h[s \ {first(s)}]
      <4>. TAKE s \in SUBSET T
      <4>1. h[s] = IF s = {} THEN 0 ELSE g[first(s)] + sum(s \ {first(s)})
        OBVIOUS
      <4>. HIDE DEF h, sum, first
      <4> QED BY <2>2, <4>1
    <3>2. h = [s \in SUBSET T |-> h[s]]
      OBVIOUS
    <3>. HIDE DEF h
    <3> QED BY <3>1, <3>2 DEF Adds
  <2> QED BY <2>3
<1>2. S \in P
  <2>1. ASSUME NEW T \in SUBSET S, \A u \in SUBSET T : u # T => u \in P PROVE T \in P
    BY <1>1, <2>1
  <2>. HIDE DEF P
  <2> QED BY <2>1, StrongSubsetInduction
<1> QED BY <1>2

\* So a sum is a chosen element's value and the sum of the others.
LEMMA SumOfSome ==
  ASSUME NEW g, NEW S, IsFiniteSet(S)
  PROVE  SumFunctionOnSet(g, S) =
           IF S = {} THEN 0
           ELSE LET x == CHOOSE x \in S : TRUE IN g[x] + SumFunctionOnSet(g, S \ {x})
<1>. DEFINE h == CHOOSE h : Adds(g, S, h)
            x == CHOOSE x \in S : TRUE
            k == CHOOSE k : Adds(g, S \ {x}, k)
<1>1. Adds(g, S, h) /\ IsFiniteSet(S \ {x}) /\ S \in SUBSET S
  BY SumExists, FS_Subset
<1>2. Adds(g, S \ {x}, k)
  BY <1>1, SumExists
<1>3. SumFunctionOnSet(g, S) = h[S] /\ SumFunctionOnSet(g, S \ {x}) = k[S \ {x}]
  BY SumUnfolds
<1>4. h[S \ {x}] = k[S \ {x}]
  <2>. HIDE DEF h, k, x
  <2> QED BY <1>1, <1>2, SumIsUnique
<1>5. h[S] = IF S = {} THEN 0 ELSE g[x] + h[S \ {x}]
  <2>. HIDE DEF h
  <2> QED BY <1>1 DEF Adds
<1> QED BY <1>3, <1>4, <1>5

\* Whichever element is taken first: a sum of integers has no order.
LEMMA SumAnyOrder ==
  ASSUME NEW g, NEW S, IsFiniteSet(S), \A y \in S : g[y] \in Int
  PROVE  /\ SumFunctionOnSet(g, S) \in Int
         /\ \A x \in S : SumFunctionOnSet(g, S) = g[x] + SumFunctionOnSet(g, S \ {x})
<1>. DEFINE Sum(T) == SumFunctionOnSet(g, T)
            P == {T \in SUBSET S : Sum(T) \in Int /\ \A x \in T : Sum(T) = g[x] + Sum(T \ {x})}
<1>1. ASSUME NEW T \in SUBSET S, \A U \in SUBSET T : U # T => U \in P
      PROVE  T \in P
  <2>0. IsFiniteSet(T)
    BY FS_Subset
  <2>1. CASE T = {}
    <3>1. Sum(T) = 0
      BY <2>0, <2>1, SumOfSome
    <3>. HIDE DEF Sum
    <3> QED BY <2>1, <3>1
  <2>2. CASE T # {}
    <3>. DEFINE p == CHOOSE x \in T : TRUE
    <3>1. p \in T /\ Sum(T) = g[p] + Sum(T \ {p})
      BY <2>0, <2>2, SumOfSome
    <3>. HIDE DEF p, Sum
    <3>2. Sum(T \ {p}) \in Int /\ g[p] \in Int
      BY <1>1, <3>1
    <3>3. ASSUME NEW x \in T, x # p PROVE Sum(T) = g[x] + Sum(T \ {x})
      <4>1. T \ {p} \in P /\ T \ {x} \in P
        BY <1>1, <3>1
      <4>2. Sum(T \ {p}) = g[x] + Sum((T \ {p}) \ {x})
        BY <3>3, <4>1
      <4>3. Sum(T \ {x}) = g[p] + Sum((T \ {x}) \ {p})
        BY <3>1, <3>3, <4>1
      <4>4. (T \ {p}) \ {x} = (T \ {x}) \ {p}
        OBVIOUS
      <4>5. Sum((T \ {p}) \ {x}) \in Int /\ g[x] \in Int
        <5>1. (T \ {p}) \ {x} \in P
          BY <1>1, <3>1
        <5> QED BY <5>1
      <4>. DEFINE rest == Sum((T \ {p}) \ {x})
      <4>6. Sum(T) = g[p] + (g[x] + rest) /\ Sum(T \ {x}) = g[p] + rest
        BY <3>1, <4>2, <4>3, <4>4
      <4>7. rest \in Int
        BY <4>5
      <4>. HIDE DEF rest
      <4> QED BY <3>2, <4>5, <4>6, <4>7
    <3> QED BY <3>1, <3>2, <3>3
  <2> QED BY <2>1, <2>2
<1>2. S \in P
  <2>. HIDE DEF P
  <2> QED BY <1>1, StrongSubsetInduction
<1> QED BY <1>2

\* One more element adds its value.
LEMMA SumGrows ==
  ASSUME NEW g, NEW S, IsFiniteSet(S), NEW x, x \notin S, \A y \in S \cup {x} : g[y] \in Int
  PROVE  SumFunctionOnSet(g, S \cup {x}) = g[x] + SumFunctionOnSet(g, S)
<1>1. IsFiniteSet(S \cup {x}) /\ x \in S \cup {x} /\ (S \cup {x}) \ {x} = S
  BY FS_AddElement
<1> QED BY <1>1, SumAnyOrder

\* A sum of values that are no lower is no lower.
LEMMA SumMonotone ==
  ASSUME NEW S, IsFiniteSet(S), NEW f, NEW g,
         \A y \in S : f[y] \in Int, \A y \in S : g[y] \in Int, \A y \in S : f[y] <= g[y]
  PROVE  SumFunctionOnSet(f, S) <= SumFunctionOnSet(g, S)
<1>. DEFINE F(T) == SumFunctionOnSet(f, T)
            G(T) == SumFunctionOnSet(g, T)
            P == {T \in SUBSET S : F(T) \in Int /\ G(T) \in Int /\ F(T) <= G(T)}
<1>1. {} \in P
  <2>1. F({}) = 0 /\ G({}) = 0
    BY FS_EmptySet, SumOfSome
  <2>. HIDE DEF F, G
  <2> QED BY <2>1
<1>2. ASSUME NEW T \in SUBSET S, NEW x \in S \ T, T \in P PROVE T \cup {x} \in P
  <2>1. IsFiniteSet(T) /\ T \cup {x} \in SUBSET S
    BY <1>2, FS_Subset
  <2>2. (\A y \in T \cup {x} : f[y] \in Int) /\ (\A y \in T \cup {x} : g[y] \in Int)
    OBVIOUS
  <2>3. F(T \cup {x}) = f[x] + F(T)
    BY <2>1, <2>2, SumGrows
  <2>4. G(T \cup {x}) = g[x] + G(T)
    BY <2>1, <2>2, SumGrows
  <2>5. f[x] \in Int /\ g[x] \in Int /\ f[x] <= g[x]
    OBVIOUS
  <2>. HIDE DEF F, G
  <2> QED BY <1>2, <2>1, <2>3, <2>4, <2>5
<1>3. S \in P
  <2>. HIDE DEF P
  <2> QED BY <1>1, <1>2, SubsetInduction
<1> QED BY <1>3

\* Functions that agree on a set have the same sum over it.
LEMMA SumAgrees ==
  ASSUME NEW S, IsFiniteSet(S), NEW f, NEW g, \A y \in S : f[y] \in Int,
         \A y \in S : f[y] = g[y]
  PROVE  SumFunctionOnSet(f, S) = SumFunctionOnSet(g, S)
<1>1. (\A y \in S : g[y] \in Int) /\ (\A y \in S : f[y] <= g[y]) /\ (\A y \in S : g[y] <= f[y])
  OBVIOUS
<1>2. SumFunctionOnSet(f, S) <= SumFunctionOnSet(g, S)
  BY <1>1, SumMonotone
<1>3. SumFunctionOnSet(g, S) <= SumFunctionOnSet(f, S)
  BY <1>1, SumMonotone
<1>4. SumFunctionOnSet(f, S) \in Int /\ SumFunctionOnSet(g, S) \in Int
  BY <1>1, SumAnyOrder
<1> QED BY <1>2, <1>3, <1>4

\* The sum of differences is the difference of the sums.
LEMMA SumOfDifference ==
  ASSUME NEW S, IsFiniteSet(S), NEW f, NEW g, NEW h,
         \A y \in S : f[y] \in Int, \A y \in S : g[y] \in Int, \A y \in S : h[y] = f[y] - g[y]
  PROVE  SumFunctionOnSet(h, S) = SumFunctionOnSet(f, S) - SumFunctionOnSet(g, S)
<1>. DEFINE F(T) == SumFunctionOnSet(f, T)
            G(T) == SumFunctionOnSet(g, T)
            H(T) == SumFunctionOnSet(h, T)
            P == {T \in SUBSET S : F(T) \in Int /\ G(T) \in Int /\ H(T) = F(T) - G(T)}
<1>0. \A y \in S : h[y] \in Int
  OBVIOUS
<1>1. {} \in P
  <2>1. F({}) = 0 /\ G({}) = 0 /\ H({}) = 0
    BY FS_EmptySet, SumOfSome
  <2>. HIDE DEF F, G, H
  <2> QED BY <2>1
<1>2. ASSUME NEW T \in SUBSET S, NEW x \in S \ T, T \in P PROVE T \cup {x} \in P
  <2>1. IsFiniteSet(T) /\ T \cup {x} \in SUBSET S
    BY <1>2, FS_Subset
  <2>2. (\A y \in T \cup {x} : f[y] \in Int) /\ (\A y \in T \cup {x} : g[y] \in Int)
        /\ (\A y \in T \cup {x} : h[y] \in Int)
    BY <1>0
  <2>3. F(T \cup {x}) = f[x] + F(T)
    BY <2>1, <2>2, SumGrows
  <2>4. G(T \cup {x}) = g[x] + G(T)
    BY <2>1, <2>2, SumGrows
  <2>5. H(T \cup {x}) = h[x] + H(T)
    BY <2>1, <2>2, SumGrows
  <2>6. f[x] \in Int /\ g[x] \in Int /\ h[x] = f[x] - g[x]
    OBVIOUS
  <2>. HIDE DEF F, G, H
  <2> QED BY <1>2, <2>1, <2>3, <2>4, <2>5, <2>6
<1>3. S \in P
  <2>. HIDE DEF P
  <2> QED BY <1>1, <1>2, SubsetInduction
<1> QED BY <1>3

\* What fits twice into each value fits twice into the sum.
LEMMA TwiceFits ==
  ASSUME NEW S, IsFiniteSet(S), NEW f, NEW g,
         \A y \in S : f[y] \in Int, \A y \in S : g[y] \in Int, \A y \in S : 2 * f[y] <= g[y]
  PROVE  2 * SumFunctionOnSet(f, S) <= SumFunctionOnSet(g, S)
<1>. DEFINE h == [y \in S |-> g[y] - f[y]]
<1>1. /\ \A y \in S : h[y] \in Int
      /\ \A y \in S : f[y] <= h[y]
      /\ \A y \in S : h[y] = g[y] - f[y]
  OBVIOUS
<1>. HIDE DEF h
<1>2. SumFunctionOnSet(h, S) = SumFunctionOnSet(g, S) - SumFunctionOnSet(f, S)
  BY <1>1, SumOfDifference
<1>3. SumFunctionOnSet(f, S) <= SumFunctionOnSet(h, S)
  BY <1>1, SumMonotone
<1>4. SumFunctionOnSet(f, S) \in Int /\ SumFunctionOnSet(g, S) \in Int
  BY SumAnyOrder
<1> QED BY <1>2, <1>3, <1>4

\* The sum over two parts is the sum of their sums.
LEMMA SumOfParts ==
  ASSUME NEW S, IsFiniteSet(S), NEW T, IsFiniteSet(T), S \cap T = {},
         NEW f, \A y \in S \cup T : f[y] \in Int
  PROVE  SumFunctionOnSet(f, S \cup T) = SumFunctionOnSet(f, S) + SumFunctionOnSet(f, T)
<1>. DEFINE F(U) == SumFunctionOnSet(f, U)
            P == {U \in SUBSET T : F(U) \in Int /\ F(S \cup U) = F(S) + F(U)}
<1>0. F(S) \in Int
  BY SumAnyOrder
<1>1. {} \in P
  <2>1. F({}) = 0 /\ S \cup {} = S
    BY FS_EmptySet, SumOfSome
  <2>. HIDE DEF F
  <2> QED BY <1>0, <2>1
<1>2. ASSUME NEW U \in SUBSET T, NEW x \in T \ U, U \in P PROVE U \cup {x} \in P
  <2>1. /\ IsFiniteSet(U) /\ U \cup {x} \in SUBSET T /\ IsFiniteSet(S \cup U)
        /\ x \notin S \cup U /\ S \cup (U \cup {x}) = (S \cup U) \cup {x}
    BY <1>2, FS_Subset, FS_Union
  <2>2. (\A y \in U \cup {x} : f[y] \in Int) /\ (\A y \in (S \cup U) \cup {x} : f[y] \in Int)
    OBVIOUS
  <2>3. F(U \cup {x}) = f[x] + F(U)
    BY <2>1, <2>2, SumGrows
  <2>4. F((S \cup U) \cup {x}) = f[x] + F(S \cup U)
    <3>. DEFINE V == S \cup U
    <3>. HIDE DEF V
    <3>1. SumFunctionOnSet(f, V \cup {x}) = f[x] + SumFunctionOnSet(f, V)
      BY <2>1, <2>2, SumGrows DEF V
    <3> QED BY <3>1 DEF V
  <2>5. f[x] \in Int
    OBVIOUS
  <2>. HIDE DEF F
  <2> QED BY <1>0, <1>2, <2>1, <2>3, <2>4, <2>5
<1>3. T \in P
  <2>. HIDE DEF P
  <2> QED BY <1>1, <1>2, SubsetInduction
<1> QED BY <1>3

\* The days of the elements of S, and the elements of a day.
DaysOf(S, day) == {day[y] : y \in S}
OfDay(S, day, d) == {y \in S : day[y] = d}

\* Finitely many elements have finitely many days.
LEMMA DaysAreFinite ==
  ASSUME NEW S, IsFiniteSet(S), NEW day
  PROVE  IsFiniteSet(DaysOf(S, day))
<1>. DEFINE P == {T \in SUBSET S : IsFiniteSet(DaysOf(T, day))}
<1>1. {} \in P
  BY FS_EmptySet DEF DaysOf
<1>2. ASSUME NEW T \in SUBSET S, NEW x \in S \ T, T \in P PROVE T \cup {x} \in P
  <2>1. DaysOf(T \cup {x}, day) = DaysOf(T, day) \cup {day[x]}
    BY DEF DaysOf
  <2>2. IsFiniteSet(DaysOf(T, day))
    BY <1>2
  <2>3. IsFiniteSet(DaysOf(T, day) \cup {day[x]})
    BY <2>2, FS_AddElement
  <2> QED BY <2>1, <2>3
<1>3. S \in P
  <2>. HIDE DEF P
  <2> QED BY <1>1, <1>2, SubsetInduction
<1> QED BY <1>3

\* A sum may be taken day by day.
LEMMA SumByDay ==
  ASSUME NEW S, IsFiniteSet(S), NEW day, NEW f, \A y \in S : f[y] \in Int,
         NEW sums, \A d \in DaysOf(S, day) : sums[d] = SumFunctionOnSet(f, OfDay(S, day, d))
  PROVE  SumFunctionOnSet(f, S) = SumFunctionOnSet(sums, DaysOf(S, day))
<1>. DEFINE days == DaysOf(S, day)
            F(T) == SumFunctionOnSet(f, T)
            G(D) == SumFunctionOnSet(sums, D)
            of(D) == {y \in S : day[y] \in D}
            on(d) == {y \in S : day[y] = d}
<1>0. days = {day[y] : y \in S} /\ \A d \in days : OfDay(S, day, d) = on(d)
  BY DEF DaysOf, OfDay
<1>1. IsFiniteSet(days)
  BY DaysAreFinite
<1>2. \A D : IsFiniteSet(of(D)) /\ \A y \in of(D) : f[y] \in Int
  BY FS_Subset
<1>3. \A d : IsFiniteSet(on(d)) /\ \A y \in on(d) : f[y] \in Int
  BY FS_Subset
<1>4. \A d \in days : sums[d] = F(on(d)) /\ sums[d] \in Int
  <2>. TAKE d \in days
  <2>1. F(on(d)) \in Int
    <3>. HIDE DEF on
    <3> QED BY <1>3, SumAnyOrder
  <2>2. sums[d] = F(OfDay(S, day, d)) /\ OfDay(S, day, d) = on(d)
    BY <1>0
  <2>. HIDE DEF on, F
  <2> QED BY <2>1, <2>2
<1>. DEFINE P == {D \in SUBSET days : G(D) \in Int /\ F(of(D)) = G(D)}
<1>5. {} \in P
  <2>1. F({}) = 0 /\ G({}) = 0 /\ of({}) = {}
    BY FS_EmptySet, SumOfSome
  <2>2. F(of({})) = 0 /\ G({}) \in Int
    BY <2>1
  <2>3. {} \in SUBSET days
    OBVIOUS
  <2>. HIDE DEF F, G, of
  <2> QED BY <2>1, <2>2, <2>3
<1>6. ASSUME NEW D \in SUBSET days, NEW d \in days \ D, D \in P PROVE D \cup {d} \in P
  <2>1. of(D \cup {d}) = of(D) \cup on(d) /\ of(D) \cap on(d) = {} /\ IsFiniteSet(D)
    BY <1>1, FS_Subset
  <2>2. F(of(D) \cup on(d)) = F(of(D)) + F(on(d))
    <3>1. \A y \in of(D) \cup on(d) : f[y] \in Int
      OBVIOUS
    <3>. HIDE DEF of, on
    <3> QED BY <1>2, <1>3, <2>1, <3>1, SumOfParts
  <2>3. G(D \cup {d}) = sums[d] + G(D)
    <3>1. (\A y \in D \cup {d} : sums[y] \in Int) /\ d \notin D
      BY <1>4
    <3> QED BY <2>1, <3>1, SumGrows
  <2>4. sums[d] = F(on(d)) /\ sums[d] \in Int
    BY <1>4
  <2>5. G(D) \in Int /\ F(of(D)) = G(D)
    BY <1>6
  <2>6. F(of(D \cup {d})) = G(D \cup {d}) /\ G(D \cup {d}) \in Int
    <3>1. F(of(D \cup {d})) = F(of(D) \cup on(d))
      BY <2>1
    <3>. HIDE DEF F, G, of, on
    <3>2. F(of(D) \cup on(d)) = G(D) + sums[d]
      BY <2>2, <2>4, <2>5
    <3>3. G(D \cup {d}) = G(D) + sums[d] /\ G(D) + sums[d] \in Int
      BY <2>3, <2>4, <2>5
    <3> QED BY <3>1, <3>2, <3>3
  <2>. HIDE DEF F, G, of
  <2> QED BY <2>6
<1>7. days \in P
  <2>. HIDE DEF P
  <2> QED BY <1>1, <1>5, <1>6, SubsetInduction
<1>8. of(days) = S
  BY <1>0
<1> QED BY <1>7, <1>8

(***************************************************************************)
(* The table of points.                                                    *)
(***************************************************************************)

\* The difficulties of the table.
Difficulties == {"Facil", "Intermedia", "Compleja"}

\* What a row may be credited with: no more than the work done, and if it costs, no
\* more than half the face value of mandatory work.
LEMMA CreditIsFair ==
  ASSUME NEW def, def.difficulty \in Difficulties \cup {Unset}, NEW outcome
  PROVE  /\ Credit(def, outcome) \in -25 .. 25 /\ Credit(def, outcome) \in Int
         /\ Credit(def, outcome) <= Credit(def, "Hecha")
         /\ Credit(def, "Pendiente") = 0
         /\ ~Counts(def) => Credit(def, outcome) = 0
         /\ Counts(def) => def.difficulty \in Difficulties
         /\ Counts(def) =>
              \A event : event.kind = def.kind /\ event.difficulty = def.difficulty =>
                2 * Above(-Credit(def, outcome)) <= FaceValue(event)
<1>1. CASE ~Counts(def)
  BY <1>1 DEF Credit
<1>2. CASE Counts(def)
  <2>1. def.difficulty \in Difficulties
    BY <1>2 DEF Counts
  <2>2. /\ Credit(def, outcome) = signed_points(def.difficulty, def.kind, outcome)
        /\ Credit(def, "Hecha") = points_done(def.difficulty, def.kind)
        /\ Credit(def, "Pendiente") = 0
    BY <1>2 DEF Credit, signed_points
  <2>. DEFINE p == points_done(def.difficulty, def.kind)
              n == points_failed(def.difficulty, def.kind)
              v == points_earned(def.difficulty)
  <2>3. /\ p \in 1 .. 25 /\ n \in 0 .. 12 /\ v \in 0 .. 25 /\ 2 * n <= v
        /\ def.kind # "Mandatory" => n = 0
    BY <2>1 DEF Difficulties, points_done, points_failed, points_earned, POINTS, MANDATORY_EARNED
  <2>4. signed_points(def.difficulty, def.kind, outcome) \in {p, -n, 0}
    BY DEF signed_points
  <2>5. \A event : event.kind = def.kind /\ event.difficulty = def.difficulty =>
          FaceValue(event) = IF def.kind = "Mandatory" THEN v ELSE 0
    BY DEF FaceValue
  <2>. HIDE DEF p, n, v
  <2>6. PICK c : c = Credit(def, outcome)
    OBVIOUS
  <2>7. c \in {p, -n, 0}
    BY <2>2, <2>4, <2>6
  <2>8. c \in -25 .. 25 /\ c <= p /\ Above(-c) <= n /\ Above(-c) \in Int
    BY <2>3, <2>7 DEF Above
  <2>9. 2 * Above(-c) <= IF def.kind = "Mandatory" THEN v ELSE 0
    BY <2>3, <2>8
  <2> QED BY <1>2, <2>1, <2>2, <2>5, <2>6, <2>8, <2>9 DEF p
<1> QED BY <1>1, <1>2

(***************************************************************************)
(* A day, and a cycle.                                                     *)
(***************************************************************************)

\* Events as to_events makes them.
IsEvents(events) ==
  /\ IsFiniteSet(DOMAIN events)
  /\ \A r \in DOMAIN events : /\ events[r].points \in Int /\ events[r].day \in Int
                              /\ events[r].difficulty \in Difficulties

\* The same work, of which the second went no worse.
NoWorse(events, others) ==
  /\ DOMAIN others = DOMAIN events
  /\ \A r \in DOMAIN events : /\ others[r].day = events[r].day
                              /\ others[r].kind = events[r].kind
                              /\ others[r].difficulty = events[r].difficulty
                              /\ events[r].points <= others[r].points

\* A face value is a number.
LEMMA FaceIsInt ==
  ASSUME NEW event, event.difficulty \in Difficulties
  PROVE  FaceValue(event) \in Int
  BY DEF FaceValue, points_earned, POINTS, Difficulties

\* A day's numbers are numbers; what it earned less what it lost is what its events
\* add up to; it is capped only if an event lost more than half its face value.
LEMMA DayAddsUp ==
  ASSUME NEW events, IsEvents(events)
  PROVE  /\ settle_day(events).earned \in Int /\ settle_day(events).applied \in Int
         /\ settle_day(events).capped \in BOOLEAN
         /\ ~settle_day(events).capped =>
              SumFunction([r \in DOMAIN events |-> events[r].points])
                = settle_day(events).earned - settle_day(events).applied
         /\ (\A r \in DOMAIN events : 2 * Above(-events[r].points) <= FaceValue(events[r]))
              => ~settle_day(events).capped
<1>. DEFINE rs == DOMAIN events
            points == [r \in rs |-> events[r].points]
            up == [r \in rs |-> Above(events[r].points)]
            down == [r \in rs |-> Above(-events[r].points)]
            face == [r \in rs |-> FaceValue(events[r])]
            cap == MandatoryValue(events) \div 2
<1>1. /\ IsFiniteSet(rs) /\ \A r \in rs : points[r] \in Int
      /\ \A r \in rs : up[r] \in Int
      /\ \A r \in rs : down[r] \in Int
      /\ \A r \in rs : points[r] = up[r] - down[r]
  BY DEF IsEvents, Above
<1>2. \A r \in rs : face[r] \in Int
  BY FaceIsInt DEF IsEvents
<1>3. /\ SumFunction(points) = SumFunctionOnSet(points, rs)
      /\ Earned(events) = SumFunctionOnSet(up, rs)
      /\ Penalty(events) = SumFunctionOnSet(down, rs)
      /\ MandatoryValue(events) = SumFunctionOnSet(face, rs)
  BY DEF SumFunction, Earned, Penalty, MandatoryValue
<1>4. /\ SumFunctionOnSet(up, rs) \in Int /\ SumFunctionOnSet(down, rs) \in Int
      /\ SumFunctionOnSet(face, rs) \in Int
  <2>. HIDE DEF rs, up, down, face
  <2> QED BY <1>1, <1>2, SumAnyOrder
<1>5. SumFunctionOnSet(points, rs) = SumFunctionOnSet(up, rs) - SumFunctionOnSet(down, rs)
  <2>. HIDE DEF rs, up, down, points
  <2> QED BY <1>1, SumOfDifference
<1>6. /\ settle_day(events).earned = Earned(events)
      /\ settle_day(events).applied = IF Penalty(events) < MandatoryValue(events) \div 2
                                      THEN Penalty(events) ELSE MandatoryValue(events) \div 2
      /\ settle_day(events).capped = (MandatoryValue(events) \div 2 < Penalty(events))
  BY DEF settle_day
<1>7. /\ Earned(events) \in Int /\ Penalty(events) \in Int /\ MandatoryValue(events) \in Int
  BY <1>3, <1>4
<1>8. \A e, p, v \in Int : \A day :
        /\ day.earned = e
        /\ day.applied = IF p < v \div 2 THEN p ELSE v \div 2
        /\ day.capped = (v \div 2 < p)
        => /\ day.applied \in Int /\ day.capped \in BOOLEAN
           /\ ~day.capped => day.applied = p
           /\ 2 * p <= v => ~day.capped
  <2>. TAKE e, p, v \in Int
  <2>. TAKE day
  <2>. HAVE /\ day.earned = e
            /\ day.applied = IF p < v \div 2 THEN p ELSE v \div 2
            /\ day.capped = (v \div 2 < p)
  <2>1. v \div 2 \in Int /\ (2 * p <= v => ~(v \div 2 < p))
    OBVIOUS
  <2>2. day.capped \in BOOLEAN
    OBVIOUS
  <2>3. ~day.capped => ~(v \div 2 < p)
    OBVIOUS
  <2>4. 2 * p <= v => ~day.capped
    BY <2>1
  <2> QED BY <2>1, <2>2, <2>3, <2>4
<1>9. /\ settle_day(events).applied \in Int /\ settle_day(events).capped \in BOOLEAN
      /\ ~settle_day(events).capped => settle_day(events).applied = Penalty(events)
      /\ 2 * Penalty(events) <= MandatoryValue(events) => ~settle_day(events).capped
  BY <1>6, <1>7, <1>8
<1>10. (\A r \in rs : 2 * down[r] <= face[r]) => 2 * Penalty(events) <= MandatoryValue(events)
  <2>1. ASSUME \A r \in rs : 2 * down[r] <= face[r]
        PROVE  2 * SumFunctionOnSet(down, rs) <= SumFunctionOnSet(face, rs)
    <3>. HIDE DEF rs, down, face
    <3> QED BY <1>1, <1>2, <2>1, TwiceFits
  <2> QED BY <1>3, <2>1
<1>11. /\ \A r \in rs : down[r] = Above(-events[r].points) /\ face[r] = FaceValue(events[r])
  OBVIOUS
<1>12. (\A r \in rs : 2 * Above(-events[r].points) <= FaceValue(events[r]))
         => 2 * Penalty(events) <= MandatoryValue(events)
  <2>. HIDE DEF rs, down, face
  <2> QED BY <1>10, <1>11
<1>13. SumFunction(points) = Earned(events) - Penalty(events)
  BY <1>3, <1>5
<1> QED BY <1>6, <1>7, <1>9, <1>12, <1>13

\* A day that went no worse is worth no less.
LEMMA DayIsMonotone ==
  ASSUME NEW events, IsEvents(events), NEW others, IsEvents(others), NoWorse(events, others)
  PROVE  /\ settle_day(events).earned <= settle_day(others).earned
         /\ settle_day(others).applied <= settle_day(events).applied
<1>. DEFINE rs == DOMAIN events
            up(ev) == [r \in DOMAIN ev |-> Above(ev[r].points)]
            down(ev) == [r \in DOMAIN ev |-> Above(-ev[r].points)]
            face(ev) == [r \in DOMAIN ev |-> FaceValue(ev[r])]
<1>0. IsFiniteSet(rs) /\ DOMAIN others = rs
  BY DEF IsEvents, NoWorse
<1>1. \A r \in rs : /\ events[r].points \in Int /\ others[r].points \in Int
                    /\ events[r].points <= others[r].points
  BY <1>0 DEF IsEvents, NoWorse
<1>2. /\ \A r \in rs : up(events)[r] \in Int
      /\ \A r \in rs : up(others)[r] \in Int
      /\ \A r \in rs : up(events)[r] <= up(others)[r]
      /\ \A r \in rs : down(events)[r] \in Int
      /\ \A r \in rs : down(others)[r] \in Int
      /\ \A r \in rs : down(others)[r] <= down(events)[r]
  BY <1>0, <1>1 DEF Above
<1>3. face(events) = face(others)
  BY <1>0 DEF NoWorse, FaceValue
<1>4. /\ Earned(events) = SumFunctionOnSet(up(events), rs)
      /\ Earned(others) = SumFunctionOnSet(up(others), rs)
      /\ Penalty(events) = SumFunctionOnSet(down(events), rs)
      /\ Penalty(others) = SumFunctionOnSet(down(others), rs)
      /\ MandatoryValue(events) = MandatoryValue(others)
  BY <1>0, <1>3 DEF SumFunction, Earned, Penalty, MandatoryValue
<1>5. /\ Earned(events) <= Earned(others) /\ Penalty(others) <= Penalty(events)
      /\ Penalty(events) \in Int /\ Penalty(others) \in Int
  <2>1. SumFunctionOnSet(up(events), rs) <= SumFunctionOnSet(up(others), rs)
    <3>. HIDE DEF rs, up
    <3> QED BY <1>0, <1>2, SumMonotone
  <2>2. SumFunctionOnSet(down(others), rs) <= SumFunctionOnSet(down(events), rs)
    <3>. HIDE DEF rs, down
    <3> QED BY <1>0, <1>2, SumMonotone
  <2>3. SumFunctionOnSet(down(others), rs) \in Int /\ SumFunctionOnSet(down(events), rs) \in Int
    <3>. HIDE DEF rs, down
    <3> QED BY <1>0, <1>2, SumAnyOrder
  <2> QED BY <1>4, <2>1, <2>2, <2>3
<1>6. MandatoryValue(events) \div 2 \in Int
  <2>1. \A r \in rs : face(events)[r] \in Int
    BY FaceIsInt DEF IsEvents
  <2>2. SumFunctionOnSet(face(events), rs) \in Int
    <3>. HIDE DEF rs, face
    <3> QED BY <1>0, <2>1, SumAnyOrder
  <2>3. MandatoryValue(events) = SumFunctionOnSet(face(events), rs)
    BY DEF MandatoryValue, SumFunction
  <2> QED BY <2>2, <2>3
<1>7. \A ev : /\ settle_day(ev).earned = Earned(ev)
              /\ settle_day(ev).applied = IF Penalty(ev) < MandatoryValue(ev) \div 2
                                          THEN Penalty(ev) ELSE MandatoryValue(ev) \div 2
  BY DEF settle_day
<1>8. settle_day(events).earned <= settle_day(others).earned
  BY <1>5, <1>7
<1>9. settle_day(others).applied <= settle_day(events).applied
  <2>. DEFINE cap == MandatoryValue(events) \div 2
  <2>1. /\ settle_day(events).applied = IF Penalty(events) < cap THEN Penalty(events) ELSE cap
        /\ settle_day(others).applied = IF Penalty(others) < cap THEN Penalty(others) ELSE cap
    BY <1>4, <1>7
  <2>. HIDE DEF cap
  <2>2. cap \in Int
    BY <1>6 DEF cap
  <2> QED BY <1>5, <2>1, <2>2
<1> QED BY <1>8, <1>9

\* The events of a cycle, those of a day, and what the days come to.
InRange(events, start, end) ==
  {r \in DOMAIN events : start <= events[r].day /\ events[r].day <= end}
OnDay(events, rs, d) == Restrict(events, {r \in rs : events[r].day = d})
DayNet(events, rs) ==
  LET days == {events[r].day : r \in rs}
  IN SumFunctionOnSet([d \in days |-> settle_day(OnDay(events, rs, d)).earned], days)
     - SumFunctionOnSet([d \in days |-> settle_day(OnDay(events, rs, d)).applied], days)

\* What close_cycle works out, by its days.
LEMMA CycleByDays ==
  ASSUME NEW events, NEW start, NEW end, NEW rs, rs = InRange(events, start, end)
  PROVE  LET days == {events[r].day : r \in rs}
             summary == close_cycle(events, start, end)
         IN /\ summary.net = IF DayNet(events, rs) < 0 THEN 0 ELSE DayNet(events, rs)
            /\ summary.cap = (\E d \in days : settle_day(OnDay(events, rs, d)).capped)
<1>. DEFINE days == {events[r].day : r \in rs}
            day_results == [d \in days |-> settle_day(OnDay(events, rs, d))]
            earned == [d \in days |-> day_results[d].earned]
            applied == [d \in days |-> day_results[d].applied]
            raw_net == SumFunction(earned) - SumFunction(applied)
<1>1. close_cycle(events, start, end) =
        [net |-> IF raw_net < 0 THEN 0 ELSE raw_net,
         cap |-> \E d \in days : day_results[d].capped]
  BY DEF close_cycle, InRange, OnDay
<1>2. /\ earned = [d \in days |-> settle_day(OnDay(events, rs, d)).earned]
      /\ applied = [d \in days |-> settle_day(OnDay(events, rs, d)).applied]
  OBVIOUS
<1>3. SumFunction(earned) = SumFunctionOnSet(earned, days)
      /\ SumFunction(applied) = SumFunctionOnSet(applied, days)
  BY DEF SumFunction
<1>4. raw_net = DayNet(events, rs)
  <2>. HIDE DEF earned, applied
  <2> QED BY <1>2, <1>3 DEF DayNet
<1>5. (\E d \in days : day_results[d].capped)
        = (\E d \in days : settle_day(OnDay(events, rs, d)).capped)
  OBVIOUS
<1>. HIDE DEF raw_net, day_results
<1> QED BY <1>1, <1>4, <1>5

\* The events of a day are events.
LEMMA DayIsEvents ==
  ASSUME NEW events, IsEvents(events), NEW rs, rs \subseteq DOMAIN events, NEW d
  PROVE  /\ IsEvents(OnDay(events, rs, d))
         /\ \A r : r \in DOMAIN OnDay(events, rs, d) <=> r \in rs /\ events[r].day = d
         /\ \A r \in DOMAIN OnDay(events, rs, d) : OnDay(events, rs, d)[r] = events[r]
<1>. DEFINE on == {r \in rs : events[r].day = d}
<1>1. IsFiniteSet(on) /\ on \subseteq DOMAIN events
  BY FS_Subset DEF IsEvents
<1>2. OnDay(events, rs, d) = [r \in on |-> events[r]]
  BY DEF OnDay, Restrict
<1>3. \A r \in on : /\ events[r].points \in Int /\ events[r].day \in Int
                    /\ events[r].difficulty \in Difficulties
  BY <1>1 DEF IsEvents
<1> QED BY <1>1, <1>2, <1>3 DEF IsEvents

\* The sums of a cycle's days are numbers.
LEMMA CycleSums ==
  ASSUME NEW events, IsEvents(events), NEW rs, rs \subseteq DOMAIN events,
         NEW days, days = {events[r].day : r \in rs}
  PROVE  /\ IsFiniteSet(rs) /\ IsFiniteSet(days)
         /\ \A d \in days : settle_day(OnDay(events, rs, d)).earned \in Int
         /\ \A d \in days : settle_day(OnDay(events, rs, d)).applied \in Int
         /\ DayNet(events, rs) \in Int
<1>. DEFINE day == [r \in rs |-> events[r].day]
            earned == [d \in days |-> settle_day(OnDay(events, rs, d)).earned]
            applied == [d \in days |-> settle_day(OnDay(events, rs, d)).applied]
<1>1. IsFiniteSet(rs)
  BY FS_Subset DEF IsEvents
<1>2. IsFiniteSet(days)
  <2>1. days = DaysOf(rs, day)
    BY DEF DaysOf
  <2>. HIDE DEF day
  <2> QED BY <1>1, <2>1, DaysAreFinite
<1>3. \A d \in days : /\ settle_day(OnDay(events, rs, d)).earned \in Int
                      /\ settle_day(OnDay(events, rs, d)).applied \in Int
  BY DayIsEvents, DayAddsUp
<1>4. (\A d \in days : earned[d] \in Int) /\ (\A d \in days : applied[d] \in Int)
  BY <1>3
<1>5. SumFunctionOnSet(earned, days) \in Int /\ SumFunctionOnSet(applied, days) \in Int
  <2>. HIDE DEF earned, applied
  <2> QED BY <1>2, <1>4, SumAnyOrder
<1>6. DayNet(events, rs) = SumFunctionOnSet(earned, days) - SumFunctionOnSet(applied, days)
  BY DEF DayNet
<1>. HIDE DEF earned, applied
<1> QED BY <1>1, <1>2, <1>3, <1>5, <1>6

\* Where no day is capped, the days add up to what the events add up to.
LEMMA CycleAddsUp ==
  ASSUME NEW events, IsEvents(events), NEW rs, rs \subseteq DOMAIN events,
         \A r \in rs : ~settle_day(OnDay(events, rs, events[r].day)).capped
  PROVE  DayNet(events, rs) = SumFunctionOnSet([r \in rs |-> events[r].points], rs)
<1>. DEFINE days == {events[r].day : r \in rs}
            day == [r \in rs |-> events[r].day]
            points == [r \in rs |-> events[r].points]
            sums == [d \in days |-> SumFunctionOnSet(points, OfDay(rs, day, d))]
            earned == [d \in days |-> settle_day(OnDay(events, rs, d)).earned]
            applied == [d \in days |-> settle_day(OnDay(events, rs, d)).applied]
<1>1. /\ IsFiniteSet(rs) /\ IsFiniteSet(days)
      /\ \A d \in days : earned[d] \in Int
      /\ \A d \in days : applied[d] \in Int
  BY CycleSums
<1>2. /\ \A y \in rs : points[y] \in Int
      /\ days = DaysOf(rs, day)
      /\ \A d \in days : sums[d] = SumFunctionOnSet(points, OfDay(rs, day, d))
      /\ \A r \in rs : points[r] = events[r].points
  BY DEF IsEvents, DaysOf
<1>3. SumFunctionOnSet(points, rs) = SumFunctionOnSet(sums, days)
  <2>1. \A d \in DaysOf(rs, day) : sums[d] = SumFunctionOnSet(points, OfDay(rs, day, d))
    BY <1>2
  <2>. HIDE DEF days, day, points, sums
  <2>2. SumFunctionOnSet(points, rs) = SumFunctionOnSet(sums, DaysOf(rs, day))
    BY <1>1, <1>2, <2>1, SumByDay
  <2> QED BY <1>2, <2>2
<1>4. ASSUME NEW d \in days PROVE sums[d] = earned[d] - applied[d]
  <2>. DEFINE ev == OnDay(events, rs, d)
              pts == [r \in DOMAIN ev |-> ev[r].points]
              on == OfDay(rs, day, d)
  <2>1. /\ IsEvents(ev)
        /\ \A r : r \in DOMAIN ev <=> r \in rs /\ events[r].day = d
        /\ \A r \in DOMAIN ev : ev[r] = events[r]
    BY DayIsEvents
  <2>2. ~settle_day(ev).capped
    OBVIOUS
  <2>3. SumFunction(pts) = settle_day(ev).earned - settle_day(ev).applied
    <3>. HIDE DEF ev
    <3> QED BY <2>1, <2>2, DayAddsUp
  <2>4. DOMAIN ev = on /\ on \subseteq rs
    <3>1. \A r : r \in on <=> r \in rs /\ events[r].day = d
      BY DEF OfDay
    <3>. HIDE DEF ev, on
    <3> QED BY <2>1, <3>1
  <2>5. SumFunction(pts) = SumFunctionOnSet(pts, on) /\ IsFiniteSet(on)
    <3>1. DOMAIN pts = on
      BY <2>4
    <3>2. IsFiniteSet(on)
      BY <2>1, <2>4 DEF IsEvents
    <3>. HIDE DEF pts, on
    <3> QED BY <3>1, <3>2 DEF SumFunction
  <2>6. \A r \in on : pts[r] = points[r]
    <3>1. \A r \in on : pts[r] = events[r].points /\ r \in rs
      <4>. HIDE DEF ev
      <4> QED BY <2>1, <2>4
    <3>. HIDE DEF pts, on, points
    <3> QED BY <3>1, <1>2
  <2>7. SumFunctionOnSet(pts, on) = SumFunctionOnSet(points, on)
    <3>1. \A r \in on : points[r] \in Int
      <4>. HIDE DEF on, points
      <4> QED BY <1>2, <2>4
    <3>. HIDE DEF pts, points, on
    <3> QED BY <2>5, <2>6, <3>1, SumAgrees
  <2>8. sums[d] = SumFunctionOnSet(points, on)
    OBVIOUS
  <2>9. earned[d] = settle_day(ev).earned /\ applied[d] = settle_day(ev).applied
    OBVIOUS
  <2>. HIDE DEF pts, points, on, ev, sums, earned, applied
  <2> QED BY <2>3, <2>5, <2>7, <2>8, <2>9
<1>5. SumFunctionOnSet(sums, days)
        = SumFunctionOnSet(earned, days) - SumFunctionOnSet(applied, days)
  <2>1. \A d \in days : sums[d] = earned[d] - applied[d]
    BY <1>4
  <2>. HIDE DEF sums, earned, applied, days
  <2> QED BY <1>1, <2>1, SumOfDifference
<1>6. DayNet(events, rs) = SumFunctionOnSet(earned, days) - SumFunctionOnSet(applied, days)
  BY DEF DayNet
<1> QED BY <1>3, <1>5, <1>6

\* A cycle in which no event lost more than half its face value is not capped.
LEMMA CycleIsFair ==
  ASSUME NEW events, IsEvents(events), NEW rs, rs \subseteq DOMAIN events,
         \A r \in rs : 2 * Above(-events[r].points) <= FaceValue(events[r])
  PROVE  \A d : ~settle_day(OnDay(events, rs, d)).capped
<1>. TAKE d
<1>. DEFINE ev == OnDay(events, rs, d)
<1>1. IsEvents(ev) /\ \A r \in DOMAIN ev : 2 * Above(-ev[r].points) <= FaceValue(ev[r])
  BY DayIsEvents
<1>. HIDE DEF ev
<1>2. ~settle_day(ev).capped
  BY <1>1, DayAddsUp
<1> QED BY <1>2 DEF ev

\* A cycle in which nothing went worse is worth no less.
LEMMA NetIsMonotone ==
  ASSUME NEW events, IsEvents(events), NEW others, IsEvents(others), NoWorse(events, others),
         NEW start, NEW end
  PROVE  close_cycle(events, start, end).net <= close_cycle(others, start, end).net
<1>. DEFINE rs == InRange(events, start, end)
            days == {events[r].day : r \in rs}
            earned == [d \in days |-> settle_day(OnDay(events, rs, d)).earned]
            applied == [d \in days |-> settle_day(OnDay(events, rs, d)).applied]
            earned2 == [d \in days |-> settle_day(OnDay(others, rs, d)).earned]
            applied2 == [d \in days |-> settle_day(OnDay(others, rs, d)).applied]
<1>1. /\ rs \subseteq DOMAIN events /\ rs \subseteq DOMAIN others
      /\ rs = InRange(others, start, end)
      /\ \A r \in rs : others[r].day = events[r].day
  BY DEF NoWorse, InRange
<1>2. days = {others[r].day : r \in rs}
  BY <1>1
<1>3. /\ IsFiniteSet(days)
      /\ \A d \in days : earned[d] \in Int
      /\ \A d \in days : applied[d] \in Int
      /\ \A d \in days : earned2[d] \in Int
      /\ \A d \in days : applied2[d] \in Int
      /\ DayNet(events, rs) \in Int /\ DayNet(others, rs) \in Int
  <2>. HIDE DEF rs
  <2>1. /\ IsFiniteSet(days) /\ DayNet(events, rs) \in Int
        /\ \A d \in days : settle_day(OnDay(events, rs, d)).earned \in Int
        /\ \A d \in days : settle_day(OnDay(events, rs, d)).applied \in Int
    BY <1>1, CycleSums
  <2>2. /\ DayNet(others, rs) \in Int
        /\ \A d \in days : settle_day(OnDay(others, rs, d)).earned \in Int
        /\ \A d \in days : settle_day(OnDay(others, rs, d)).applied \in Int
    <3>. HIDE DEF days
    <3> QED BY <1>1, <1>2, CycleSums
  <2> QED BY <2>1, <2>2
<1>4. ASSUME NEW d \in days PROVE earned[d] <= earned2[d] /\ applied2[d] <= applied[d]
  <2>. DEFINE ev == OnDay(events, rs, d)
              ov == OnDay(others, rs, d)
  <2>. HIDE DEF rs, days
  <2>1. /\ IsEvents(ev)
        /\ \A r : r \in DOMAIN ev <=> r \in rs /\ events[r].day = d
        /\ \A r \in DOMAIN ev : ev[r] = events[r]
    BY <1>1, DayIsEvents
  <2>2. /\ IsEvents(ov)
        /\ \A r : r \in DOMAIN ov <=> r \in rs /\ others[r].day = d
        /\ \A r \in DOMAIN ov : ov[r] = others[r]
    BY <1>1, DayIsEvents
  <2>3. DOMAIN ov = DOMAIN ev
    <3>. HIDE DEF ev, ov
    <3> QED BY <1>1, <2>1, <2>2
  <2>4. NoWorse(ev, ov)
    <3>. HIDE DEF ev, ov
    <3> QED BY <1>1, <2>1, <2>2, <2>3 DEF NoWorse
  <2>5. /\ settle_day(ev).earned <= settle_day(ov).earned
        /\ settle_day(ov).applied <= settle_day(ev).applied
    <3>. HIDE DEF ev, ov
    <3> QED BY <2>1, <2>2, <2>4, DayIsMonotone
  <2> QED BY <2>5
<1>5. /\ SumFunctionOnSet(earned, days) <= SumFunctionOnSet(earned2, days)
      /\ SumFunctionOnSet(applied2, days) <= SumFunctionOnSet(applied, days)
      /\ SumFunctionOnSet(earned, days) \in Int /\ SumFunctionOnSet(earned2, days) \in Int
      /\ SumFunctionOnSet(applied, days) \in Int /\ SumFunctionOnSet(applied2, days) \in Int
  <2>1. (\A d \in days : earned[d] <= earned2[d]) /\ (\A d \in days : applied2[d] <= applied[d])
    BY <1>4
  <2>. HIDE DEF earned, earned2, applied, applied2, days
  <2>2. SumFunctionOnSet(earned, days) <= SumFunctionOnSet(earned2, days)
    BY <1>3, <2>1, SumMonotone
  <2>3. SumFunctionOnSet(applied2, days) <= SumFunctionOnSet(applied, days)
    BY <1>3, <2>1, SumMonotone
  <2>4. SumFunctionOnSet(earned, days) \in Int /\ SumFunctionOnSet(earned2, days) \in Int
    BY <1>3, SumAnyOrder
  <2>5. SumFunctionOnSet(applied, days) \in Int /\ SumFunctionOnSet(applied2, days) \in Int
    BY <1>3, SumAnyOrder
  <2> QED BY <2>2, <2>3, <2>4, <2>5
<1>6. /\ DayNet(events, rs) = SumFunctionOnSet(earned, days) - SumFunctionOnSet(applied, days)
      /\ DayNet(others, rs) = SumFunctionOnSet(earned2, days) - SumFunctionOnSet(applied2, days)
  <2>1. DayNet(events, rs) = SumFunctionOnSet(earned, days) - SumFunctionOnSet(applied, days)
    BY DEF DayNet
  <2>2. DayNet(others, rs) = SumFunctionOnSet(earned2, days) - SumFunctionOnSet(applied2, days)
    <3>. HIDE DEF rs
    <3> QED BY <1>2 DEF DayNet
  <2> QED BY <2>1, <2>2
<1>7. /\ close_cycle(events, start, end).net =
           IF DayNet(events, rs) < 0 THEN 0 ELSE DayNet(events, rs)
      /\ close_cycle(others, start, end).net =
           IF DayNet(others, rs) < 0 THEN 0 ELSE DayNet(others, rs)
  <2>. HIDE DEF rs
  <2> QED BY <1>1, CycleByDays DEF rs
<1>. HIDE DEF rs, days, earned, earned2, applied, applied2
<1>8. DayNet(events, rs) <= DayNet(others, rs)
  BY <1>5, <1>6
<1> QED BY <1>3, <1>7, <1>8

(***************************************************************************)
(* The calendar.                                                           *)
(***************************************************************************)

\* Every date is in a year that YearOf finds.
LEMMA YearIsInt ==
  ASSUME NEW date \in Int
  PROVE  YearOf(date) \in Int
<1>. DEFINE guess == (date * 400) \div 146097 + 1
<1>1. guess \in Int /\ 146097 * (guess - 1) <= 400 * date /\ 400 * date < 146097 * guess
  OBVIOUS
<1>2. ASSUME NEW y \in Int
      PROVE  /\ YearStart(y) \in Int
             /\ 146097 * (y - 1) - 1000 <= 400 * YearStart(y)
             /\ 400 * YearStart(y) <= 146097 * (y - 1) + 1000
  <2>. DEFINE k == y - 1
  <2>1. /\ 4 * (k \div 4) <= k /\ k <= 4 * (k \div 4) + 3
        /\ 100 * (k \div 100) <= k /\ k <= 100 * (k \div 100) + 99
        /\ 400 * (k \div 400) <= k /\ k <= 400 * (k \div 400) + 399
        /\ k \in Int /\ k \div 4 \in Int /\ k \div 100 \in Int /\ k \div 400 \in Int
    OBVIOUS
  <2>2. YearStart(y) = k * 365 + k \div 4 - k \div 100 + k \div 400
    BY DEF YearStart
  <2>3. \A a, b, c, n \in Int :
          /\ 4 * a <= n /\ n <= 4 * a + 3 /\ 100 * b <= n /\ n <= 100 * b + 99
          /\ 400 * c <= n /\ n <= 400 * c + 399
          => /\ 146097 * n - 1000 <= 400 * (n * 365 + a - b + c)
             /\ 400 * (n * 365 + a - b + c) <= 146097 * n + 1000
    OBVIOUS
  <2> QED BY <2>1, <2>2, <2>3
<1>. HIDE DEF guess
<1>3. YearStart(guess - 1) < date
  BY <1>1, <1>2
<1>4. date <= YearStart(guess + 2)
  BY <1>1, <1>2
<1>5. \E y \in {guess - 1, guess, guess + 1} : YearStart(y) < date /\ date <= YearStart(y + 1)
  <2>1. /\ YearStart(guess) \in Int /\ YearStart(guess + 1) \in Int
        /\ (guess - 1) + 1 = guess /\ (guess + 1) + 1 = guess + 2
    BY <1>1, <1>2
  <2> QED BY <1>3, <1>4, <2>1
<1>6. YearOf(date) \in {guess - 1, guess, guess + 1}
  BY <1>5 DEF YearOf, guess
<1> QED BY <1>1, <1>6

\* A cycle ends on a payday, and is the fortnight up to it.
LEMMA BoundsAre ==
  ASSUME NEW day \in Int
  PROVE  LET bounds == cycle_bounds(day, Anchor)
         IN /\ bounds[2] \in Int /\ bounds[1] = bounds[2] - 13
            /\ (bounds[2] - Anchor) % 14 = 0
<1>. DEFINE q == (Anchor - day) \div 14
<1>1. Anchor \in Int
  BY LedgerAssumption
<1>2. q \in Int
  BY <1>1
<1>3. cycle_end_for(day, Anchor) = Anchor - q * 14
  BY DEF cycle_end_for, CycleDays
<1>. HIDE DEF q
<1>4. (Anchor - q * 14) \in Int /\ ((Anchor - q * 14) - Anchor) % 14 = 0
  BY <1>1, <1>2
<1> QED BY <1>3, <1>4 DEF cycle_bounds, CycleDays

\* A row's payday is the payday of the cycle that its day is in.
LEMMA PaydayIs ==
  ASSUME NEW d \in Int, NEW t \in Int, (t - Anchor) % 14 = 0
  PROVE  Payday(d) = t <=> t - 13 <= d /\ d <= t
<1>. DEFINE S == {e \in d..(d + 13) : (e - Anchor) % 14 = 0}
            first == d + ((Anchor - d) % 14)
<1>1. Anchor \in Int
  BY LedgerAssumption
<1>2. first \in Int /\ d <= first /\ first <= d + 13
  BY <1>1
<1>3. (first - Anchor) % 14 = 0
  BY <1>1
<1>. HIDE DEF first
<1>4. \A e \in Int : d <= e /\ e <= d + 13 /\ (e - Anchor) % 14 = 0 => e = first
  BY <1>1, <1>2, <1>3
<1>5. S = {first}
  BY <1>2, <1>3, <1>4
<1>6. Payday(d) = first
  <2>1. \A dates : dates = {first} => Earliest(dates) = first
    BY <1>2 DEF Earliest
  <2> QED BY <1>5, <2>1 DEF Payday
<1> QED BY <1>2, <1>4, <1>6

\* What a Corte is called, by its payday.
Label(end) == <<YearOf(end), (end - DateOf(YearOf(end), 1, 1)) \div CycleDays + 1>>

\* Two paydays with one name are one.
LEMMA LabelNamesOne ==
  ASSUME NEW e \in Int, NEW f \in Int, (e - Anchor) % 14 = 0, (f - Anchor) % 14 = 0,
         Label(e) = Label(f)
  PROVE  e = f
<1>1. PICK y \in Int : y = YearOf(e)
  BY YearIsInt
<1>2. YearOf(f) = y /\ (e - DateOf(y, 1, 1)) \div 14 + 1 = (f - DateOf(y, 1, 1)) \div 14 + 1
  BY <1>1 DEF Label, CycleDays
<1>3. DateOf(y, 1, 1) \in Int
  <2>1. YearStart(y) \in Int
    BY DEF YearStart
  <2>2. DateOf(y, 1, 1) = YearStart(y) + 0 + 0 + 1
    BY DEF DateOf, MonthStart
  <2> QED BY <2>1, <2>2
<1>4. Anchor \in Int
  BY LedgerAssumption
<1>5. ASSUME NEW k \in Int, NEW a \in Int, (e - k) \div 14 + 1 = (f - k) \div 14 + 1,
             (e - a) % 14 = 0, (f - a) % 14 = 0
      PROVE  e = f
  <2>0. (e - k) \div 14 + 1 = (f - k) \div 14 + 1 /\ (e - a) % 14 = 0 /\ (f - a) % 14 = 0
    BY <1>5
  <2>1. (e - k) \div 14 = (f - k) \div 14
    BY <2>0
  <2>2. e - f <= 13 /\ f - e <= 13
    BY <2>1
  <2>3. PICK m \in Int : e - a = 14 * m
    BY <2>0
  <2>4. PICK n \in Int : f - a = 14 * n
    BY <2>0
  <2>5. e = 14 * m + a /\ f = 14 * n + a
    BY <2>3, <2>4
  <2>6. m = n
    BY <2>2, <2>5
  <2> QED BY <2>5, <2>6
<1> QED BY <1>2, <1>3, <1>4, <1>5

(***************************************************************************)
(* The inductive invariant: what a row says of itself, what a job has      *)
(* loaded, and which payday a Corte is of.                                 *)
(***************************************************************************)

\* A definition for every item.
Catalogue(catalogue) ==
  DOMAIN catalogue = Items /\ \A i \in Items : catalogue[i] \in Definitions(i)

\* What the Agenda has in a row, and in the rows.
Row == [estado : {"Pendiente", "Hecha", "Fallada"},
        points : (-25 .. 25) \cup Appeals \cup {NoPoints}, adjusted : BOOLEAN, manual : BOOLEAN]
IsAgenda(agenda) ==
  /\ IsFiniteSet(DOMAIN agenda) /\ DOMAIN agenda \subseteq Items \X Days \X Nat
  /\ agenda \in [DOMAIN agenda -> Row]

\* The job at work has a whole catalogue, and tareas that pay.
Job ==
  /\ pc \in {"idle", "pull", "reconcile", "close"}
  /\ job = [defs |-> job.defs, open |-> job.open, todos |-> job.todos, marking |-> job.marking]
  /\ hecha \subseteq Tareas
  /\ Catalogue(job.defs) /\ job.open \subseteq DOMAIN rows
  /\ \A t \in job.todos : t \in Tareas /\ Counts(job.defs[t])

\* A Corte carries the name of its payday, and a payday has one.
Titled ==
  /\ \A c \in cortes : /\ c.net \in Nat /\ c.desde \in Int /\ (c.desde + 13 - Anchor) % 14 = 0
                       /\ c.ciclo = Label(c.desde + 13)
  /\ \A c, d \in cortes : c.desde = d.desde => c = d

\* close-cycle is at work on a payday that has no Corte.
OnPayday ==
  pc = "close" => /\ today = cycle_bounds(today, Anchor)[2]
                  /\ \A c \in cortes : c.desde # cycle_bounds(today, Anchor)[1]

\* Nobody knows an unedited item by another definition than its first.
Unedited == \A i \in Items \ edited : defs[i] = AtFirst[i] /\ job.defs[i] = AtFirst[i]

\* An appealed row has points; a row that no parent had a hand in has the points that its
\* item gives its Estado.
Tells(r, row) ==
  /\ row.adjusted => row.points # NoPoints
  /\ r[1] \notin edited /\ ~row.manual /\ ~row.adjusted =>
       row.points = IF row.estado = "Pendiente" THEN NoPoints
                    ELSE Credit(AtFirst[r[1]], row.estado)
RowsTell == \A r \in DOMAIN rows : Tells(r, rows[r])

\* The inductive invariant.
IInv ==
  /\ today \in Days /\ Catalogue(defs) /\ IsAgenda(rows) /\ Occurrences \subseteq DOMAIN rows
  /\ Job /\ Titled /\ OnPayday /\ Unedited /\ RowsTell

\* The net of a Corte is not below zero.
LEMMA NetIsNat ==
  ASSUME NEW events, IsEvents(events), NEW start, NEW end
  PROVE  close_cycle(events, start, end).net \in Nat
<1>. DEFINE rs == InRange(events, start, end)
<1>1. rs \subseteq DOMAIN events
  BY DEF InRange
<1>2. DayNet(events, rs) \in Int
  <2>. DEFINE days == {events[r].day : r \in rs}
  <2>. HIDE DEF rs
  <2> QED BY <1>1, CycleSums
<1>3. close_cycle(events, start, end).net =
        IF DayNet(events, rs) < 0 THEN 0 ELSE DayNet(events, rs)
  <2>. HIDE DEF rs
  <2> QED BY CycleByDays DEF rs
<1> QED BY <1>2, <1>3

\* A definition's difficulty is in the table or missing; a tarea is a To-Do.
LEMMA DefinitionsAre ==
  ASSUME NEW catalogue, Catalogue(catalogue), NEW i \in Items
  PROVE  /\ catalogue[i].difficulty \in Difficulties \cup {Unset}
         /\ i \in Tareas => catalogue[i].kind = "To-Do"
  BY LedgerAssumption DEF Catalogue, Definitions, Difficulties, Items

\* to_events makes an event of each row that pays, with a number for its points.
LEMMA EventsOf ==
  ASSUME NEW agenda, IsAgenda(agenda), NEW catalogue, Catalogue(catalogue)
  PROVE  LET events == to_events(agenda, catalogue)
         IN /\ IsEvents(events)
            /\ \A r : r \in DOMAIN events <=> r \in DOMAIN agenda /\ Counts(catalogue[r[1]])
            /\ \A r \in DOMAIN events :
                 /\ events[r].day = r[2] /\ events[r].kind = catalogue[r[1]].kind
                 /\ events[r].difficulty = catalogue[r[1]].difficulty
                 /\ events[r].points =
                      IF agenda[r].adjusted /\ agenda[r].points # NoPoints THEN agenda[r].points
                      ELSE Credit(catalogue[r[1]], agenda[r].estado)
<1>. DEFINE events == to_events(agenda, catalogue)
            some == {x \in DOMAIN agenda : Counts(catalogue[x[1]])}
<1>1. /\ DOMAIN events = some
      /\ \A r \in some :
           /\ events[r].day = r[2] /\ events[r].kind = catalogue[r[1]].kind
           /\ events[r].difficulty = catalogue[r[1]].difficulty
           /\ events[r].points =
                IF agenda[r].adjusted /\ agenda[r].points # NoPoints THEN agenda[r].points
                ELSE Credit(catalogue[r[1]], agenda[r].estado)
  BY DEF to_events
<1>2. IsFiniteSet(some)
  BY FS_Subset DEF IsAgenda
<1>3. \A r : r \in some <=> r \in DOMAIN agenda /\ Counts(catalogue[r[1]])
  OBVIOUS
<1>. HIDE DEF events, some
<1>4. ASSUME NEW r \in some
      PROVE  /\ events[r].points \in Int /\ events[r].day \in Int
             /\ events[r].difficulty \in Difficulties
  <2>1. r[1] \in Items /\ r[2] \in Int /\ agenda[r] \in Row
    BY <1>3, LedgerAssumption DEF IsAgenda
  <2>2. catalogue[r[1]].difficulty \in Difficulties
    BY <1>3, <2>1, DefinitionsAre DEF Counts
  <2>3. Credit(catalogue[r[1]], agenda[r].estado) \in Int
    BY <2>2, CreditIsFair
  <2>4. agenda[r].points # NoPoints => agenda[r].points \in Int
    <3>1. Appeals \subseteq Int
      BY LedgerAssumption
    <3>2. agenda[r].points \in (-25 .. 25) \cup Appeals \cup {NoPoints}
      BY <2>1 DEF Row
    <3>3. \A p \in (-25 .. 25) \cup Appeals \cup {NoPoints} : p # NoPoints => p \in Int
      BY <3>1
    <3> QED BY <3>2, <3>3
  <2> QED BY <1>1, <2>1, <2>2, <2>3, <2>4
<1> QED BY <1>1, <1>2, <1>3, <1>4 DEF events, IsEvents

\* Work never costs, whatever rows there are and whatever the catalogue is.
LEMMA NeverCosts ==
  ASSUME IsAgenda(rows), Catalogue(defs)
  PROVE  WorkNeverCosts
<1>. SUFFICES ASSUME NEW r \in DOMAIN rows, ~rows[r].adjusted
              PROVE  NetOf([rows EXCEPT ![r].estado = "Hecha"]) >= NetOf(rows)
  BY DEF WorkNeverCosts
<1>. DEFINE done == [rows EXCEPT ![r].estado = "Hecha"]
            events == to_events(rows, defs)
            others == to_events(done, defs)
            bounds == cycle_bounds(today, Anchor)
<1>1. IsAgenda(done) /\ DOMAIN done = DOMAIN rows
  BY DEF IsAgenda, Row
<1>2. /\ \A q \in DOMAIN rows : q # r => done[q] = rows[q]
      /\ done[r].estado = "Hecha" /\ done[r].adjusted = rows[r].adjusted
  BY DEF IsAgenda, Row
<1>. HIDE DEF done
<1>3. /\ IsEvents(events) /\ IsEvents(others)
      /\ \A q : q \in DOMAIN events <=> q \in DOMAIN rows /\ Counts(defs[q[1]])
      /\ \A q : q \in DOMAIN others <=> q \in DOMAIN done /\ Counts(defs[q[1]])
      /\ \A q \in DOMAIN events :
           /\ events[q].day = q[2] /\ events[q].kind = defs[q[1]].kind
           /\ events[q].difficulty = defs[q[1]].difficulty
           /\ events[q].points =
                IF rows[q].adjusted /\ rows[q].points # NoPoints THEN rows[q].points
                ELSE Credit(defs[q[1]], rows[q].estado)
      /\ \A q \in DOMAIN others :
           /\ others[q].day = q[2] /\ others[q].kind = defs[q[1]].kind
           /\ others[q].difficulty = defs[q[1]].difficulty
           /\ others[q].points =
                IF done[q].adjusted /\ done[q].points # NoPoints THEN done[q].points
                ELSE Credit(defs[q[1]], done[q].estado)
  BY <1>1, EventsOf
<1>. HIDE DEF events, others
<1>4. DOMAIN others = DOMAIN events
  BY <1>1, <1>3
<1>5. ASSUME NEW q \in DOMAIN events PROVE events[q].points <= others[q].points
  <2>1. events[q].points \in Int
    BY <1>3 DEF IsEvents
  <2>2. CASE q # r
    BY <1>2, <1>3, <1>4, <2>1, <2>2
  <2>3. CASE q = r
    <3>1. q[1] \in Items
      BY <1>3 DEF IsAgenda
    <3>2. Credit(defs[q[1]], rows[q].estado) <= Credit(defs[q[1]], "Hecha")
      BY <3>1, DefinitionsAre, CreditIsFair
    <3> QED BY <1>2, <1>3, <1>4, <2>3, <3>2
  <2> QED BY <2>2, <2>3
<1>6. NoWorse(events, others)
  BY <1>3, <1>4, <1>5 DEF NoWorse
<1>7. close_cycle(events, bounds[1], bounds[2]).net
        <= close_cycle(others, bounds[1], bounds[2]).net
  <2>. HIDE DEF bounds
  <2> QED BY <1>3, <1>6, NetIsMonotone
<1>8. NetOf(rows) = close_cycle(events, bounds[1], bounds[2]).net
      /\ NetOf(done) = close_cycle(others, bounds[1], bounds[2]).net
  BY DEF NetOf, events, others
<1>9. NetOf(rows) <= NetOf(done)
  BY <1>7, <1>8
<1>10. NetOf(rows) \in Int /\ NetOf(done) \in Int
  <2>. HIDE DEF bounds
  <2> QED BY <1>3, <1>8, NetIsNat
<1> QED BY <1>9, <1>10 DEF done

\* Nothing adds up to nothing.
LEMMA SumOfZeros ==
  ASSUME NEW S, IsFiniteSet(S), NEW f, \A y \in S : f[y] = 0
  PROVE  SumFunctionOnSet(f, S) = 0
<1>1. (\A y \in S : f[y] \in Int) /\ \A y \in S : f[y] = f[y] - f[y]
  OBVIOUS
<1>2. SumFunctionOnSet(f, S) = SumFunctionOnSet(f, S) - SumFunctionOnSet(f, S)
  BY <1>1, SumOfDifference
<1>3. SumFunctionOnSet(f, S) \in Int
  BY <1>1, SumAnyOrder
<1> QED BY <1>2, <1>3

(***************************************************************************)
(* From the rows to the Corte, on its payday.                              *)
(***************************************************************************)

\* A row without a parent's hand shows the points that the Corte's catalogue gives it,
\* and nothing if it does not pay.
LEMMA RowShows ==
  ASSUME IInv, NEW r \in DOMAIN rows, r[1] \notin edited, ~rows[r].manual,
         rows[r].adjusted => Counts(defs[r[1]])
  PROVE  LET shown == IF rows[r].points = NoPoints THEN 0 ELSE rows[r].points
             credit == Credit(job.defs[r[1]], rows[r].estado)
         IN /\ shown \in Int
            /\ ~rows[r].adjusted => shown = credit
            /\ rows[r].adjusted => Counts(job.defs[r[1]]) /\ rows[r].points # NoPoints
            /\ ~Counts(job.defs[r[1]]) => shown = 0
<1>1. r[1] \in Items /\ rows[r] \in Row
  BY DEF IInv, IsAgenda
<1>2. defs[r[1]] = AtFirst[r[1]] /\ job.defs[r[1]] = AtFirst[r[1]]
  BY <1>1 DEF IInv, Unedited
<1>. DEFINE def == job.defs[r[1]]
            credit == Credit(def, rows[r].estado)
<1>3. def.difficulty \in Difficulties \cup {Unset}
  BY <1>1, DefinitionsAre DEF IInv, Job
<1>4. credit \in Int /\ (~Counts(def) => credit = 0) /\ Credit(def, "Pendiente") = 0
  <2>. HIDE DEF def
  <2> QED BY <1>3, CreditIsFair
<1>5. Tells(r, rows[r])
  BY DEF IInv, RowsTell
<1>6. NoPoints \notin Int
  BY LedgerAssumption
<1>7. rows[r].points # NoPoints => rows[r].points \in Int
  <2>1. Appeals \subseteq Int
    BY LedgerAssumption
  <2>2. rows[r].points \in (-25 .. 25) \cup Appeals \cup {NoPoints}
    BY <1>1 DEF Row
  <2>3. \A p \in (-25 .. 25) \cup Appeals \cup {NoPoints} : p # NoPoints => p \in Int
    BY <2>1
  <2> QED BY <2>2, <2>3
<1>8. CASE rows[r].adjusted
  BY <1>2, <1>5, <1>7, <1>8 DEF Tells
<1>9. CASE ~rows[r].adjusted
  <2>1. rows[r].points = IF rows[r].estado = "Pendiente" THEN NoPoints ELSE credit
    BY <1>2, <1>5, <1>9 DEF Tells
  <2>2. rows[r].estado = "Pendiente" => credit = 0
    BY <1>4
  <2>. HIDE DEF credit, def
  <2>3. (IF rows[r].points = NoPoints THEN 0 ELSE rows[r].points) = credit
    BY <1>4, <1>6, <2>1, <2>2
  <2> QED BY <1>4, <1>9, <2>3 DEF credit, def
<1> QED BY <1>8, <1>9

\* CycleByDays, with what a cap says of the days of single rows.
LEMMA CycleIs ==
  ASSUME NEW events, NEW start, NEW end
  PROVE  LET rs == InRange(events, start, end)
             days == {events[r].day : r \in rs}
             summary == close_cycle(events, start, end)
         IN /\ summary.net = IF DayNet(events, rs) < 0 THEN 0 ELSE DayNet(events, rs)
            /\ summary.cap => \E d : settle_day(OnDay(events, rs, d)).capped
            /\ ~summary.cap => \A r \in rs : ~settle_day(OnDay(events, rs, events[r].day)).capped
<1>. DEFINE rs == InRange(events, start, end)
            days == {events[r].day : r \in rs}
            summary == close_cycle(events, start, end)
<1>. HIDE DEF rs
<1>1. /\ summary.net = IF DayNet(events, rs) < 0 THEN 0 ELSE DayNet(events, rs)
      /\ summary.cap = (\E d \in days : settle_day(OnDay(events, rs, d)).capped)
  BY CycleByDays DEF rs
<1>2. summary.cap => \E d : settle_day(OnDay(events, rs, d)).capped
  <2>. HIDE DEF days, summary
  <2> QED BY <1>1
<1>3. ~summary.cap => \A r \in rs : ~settle_day(OnDay(events, rs, events[r].day)).capped
  <2>1. ~summary.cap => \A d \in days : ~settle_day(OnDay(events, rs, d)).capped
    <3>. HIDE DEF days, summary
    <3> QED BY <1>1
  <2>2. \A r \in rs : events[r].day \in days
    OBVIOUS
  <2>. HIDE DEF days, summary
  <2> QED BY <2>1, <2>2
<1> QED BY <1>1, <1>2, <1>3 DEF rs

\* The Corte that is worked out on a payday is what the Agenda shows, as a cap takes an
\* appeal.
LEMMA SettleTells ==
  ASSUME IInv, pc = "close", NEW agenda, agenda = OfPayday(today), ~ByParents(agenda),
         NEW bounds, bounds = cycle_bounds(today, Anchor),
         NEW summary, summary = close_cycle(to_events(rows, job.defs), bounds[1], bounds[2])
  PROVE  /\ summary.cap => \E r \in agenda : rows[r].adjusted
         /\ ~summary.cap => summary.net = Above(Shown(agenda))
<1>. DEFINE events == to_events(rows, job.defs)
            rs == InRange(events, bounds[1], bounds[2])
            points == [r \in rs |-> events[r].points]
            shown == [r \in agenda |-> IF rows[r].points = NoPoints THEN 0 ELSE rows[r].points]
<1>1. /\ IsEvents(events)
      /\ \A r : r \in DOMAIN events <=> r \in DOMAIN rows /\ Counts(job.defs[r[1]])
      /\ \A r \in DOMAIN events :
           /\ events[r].day = r[2] /\ events[r].kind = job.defs[r[1]].kind
           /\ events[r].difficulty = job.defs[r[1]].difficulty
           /\ events[r].points =
                IF rows[r].adjusted /\ rows[r].points # NoPoints THEN rows[r].points
                ELSE Credit(job.defs[r[1]], rows[r].estado)
  BY EventsOf DEF IInv, Job
<1>. HIDE DEF events
<1>2. /\ today \in Int /\ bounds[2] = today /\ bounds[1] = today - 13
      /\ (today - Anchor) % 14 = 0
  <2>1. today \in Int
    BY LedgerAssumption DEF IInv
  <2> QED BY <2>1, BoundsAre DEF IInv, OnPayday
<1>3. IsFiniteSet(agenda) /\ agenda \subseteq DOMAIN rows
  BY FS_Subset DEF OfPayday, IInv, IsAgenda
<1>4. \A r : r \in agenda <=> r \in DOMAIN rows /\ today - 13 <= r[2] /\ r[2] <= today
  <2>1. \A r \in DOMAIN rows : r[2] \in Int
    BY LedgerAssumption DEF IInv, IsAgenda
  <2>2. \A r \in DOMAIN rows : Payday(r[2]) = today <=> today - 13 <= r[2] /\ r[2] <= today
    BY <1>2, <2>1, PaydayIs
  <2> QED BY <2>2 DEF OfPayday
<1>5. \A r : r \in rs <=> r \in agenda /\ Counts(job.defs[r[1]])
  BY <1>1, <1>2, <1>4 DEF InRange
<1>6. rs \subseteq DOMAIN events
  BY DEF InRange
<1>. HIDE DEF rs
<1>7. ASSUME NEW r \in agenda
      PROVE  /\ shown[r] \in Int
             /\ ~rows[r].adjusted => shown[r] = Credit(job.defs[r[1]], rows[r].estado)
             /\ rows[r].adjusted => Counts(job.defs[r[1]]) /\ rows[r].points # NoPoints
             /\ r \notin rs => shown[r] = 0
             /\ r \in rs => shown[r] = events[r].points
  <2>1. /\ r \in DOMAIN rows /\ r[1] \notin edited /\ ~rows[r].manual
        /\ rows[r].adjusted => Counts(defs[r[1]])
    BY <1>3 DEF ByParents
  <2>. DEFINE value == IF rows[r].points = NoPoints THEN 0 ELSE rows[r].points
  <2>2. shown[r] = value
    OBVIOUS
  <2>3. /\ value \in Int
        /\ ~rows[r].adjusted => value = Credit(job.defs[r[1]], rows[r].estado)
        /\ rows[r].adjusted => Counts(job.defs[r[1]]) /\ rows[r].points # NoPoints
        /\ ~Counts(job.defs[r[1]]) => value = 0
    BY <2>1, RowShows
  <2>4. rows[r].adjusted => value = rows[r].points
    BY <2>3
  <2>. HIDE DEF shown, value
  <2>5. r \in rs => value = events[r].points
    <3>1. CASE rows[r].adjusted
      BY <1>1, <1>6, <2>3, <2>4, <3>1
    <3>2. CASE ~rows[r].adjusted
      BY <1>1, <1>6, <2>3, <3>2
    <3> QED BY <3>1, <3>2
  <2>6. r \notin rs => value = 0
    BY <1>5, <2>3
  <2> QED BY <2>2, <2>3, <2>5, <2>6
<1>8. Shown(agenda) = SumFunctionOnSet(points, rs) /\ SumFunctionOnSet(points, rs) \in Int
  <2>1. Shown(agenda) = SumFunctionOnSet(shown, agenda)
    BY DEF Shown, SumFunction
  <2>2. /\ \A r \in rs : points[r] = shown[r] /\ points[r] \in Int
        /\ \A r \in agenda : shown[r] \in Int
        /\ \A r \in agenda \ rs : shown[r] = 0
    <3>1. \A r \in rs : points[r] = events[r].points
      OBVIOUS
    <3>. HIDE DEF shown, points
    <3> QED BY <1>5, <1>7, <3>1
  <2>3. PICK rest : rest = agenda \ rs
    OBVIOUS
  <2>4. /\ IsFiniteSet(rs) /\ IsFiniteSet(rest) /\ rs \cap rest = {} /\ agenda = rs \cup rest
    BY <1>3, <1>5, <2>3, FS_Subset
  <2>. HIDE DEF shown, points
  <2>5. SumFunctionOnSet(shown, rest) = 0
    <3>1. \A r \in rest : shown[r] = 0
      BY <2>2, <2>3
    <3> QED BY <2>4, <3>1, SumOfZeros
  <2>6. SumFunctionOnSet(shown, rs \cup rest)
          = SumFunctionOnSet(shown, rs) + SumFunctionOnSet(shown, rest)
    <3>1. \A r \in rs \cup rest : shown[r] \in Int
      BY <2>2, <2>4
    <3> QED BY <2>4, <3>1, SumOfParts
  <2>7. SumFunctionOnSet(points, rs) = SumFunctionOnSet(shown, rs)
    <3>1. (\A r \in rs : points[r] \in Int) /\ \A r \in rs : points[r] = shown[r]
      BY <2>2
    <3> QED BY <2>4, <3>1, SumAgrees
  <2>8. SumFunctionOnSet(points, rs) \in Int
    <3>1. \A r \in rs : points[r] \in Int
      BY <2>2
    <3> QED BY <2>4, <3>1, SumAnyOrder
  <2> QED BY <2>1, <2>4, <2>5, <2>6, <2>7, <2>8
<1>9. /\ summary.net = IF DayNet(events, rs) < 0 THEN 0 ELSE DayNet(events, rs)
      /\ summary.cap => \E d : settle_day(OnDay(events, rs, d)).capped
      /\ ~summary.cap => \A r \in rs : ~settle_day(OnDay(events, rs, events[r].day)).capped
  <2>1. \A start, end :
          LET some == InRange(events, start, end)
              cycle == close_cycle(events, start, end)
          IN /\ cycle.net = IF DayNet(events, some) < 0 THEN 0 ELSE DayNet(events, some)
             /\ cycle.cap => \E d : settle_day(OnDay(events, some, d)).capped
             /\ ~cycle.cap =>
                  \A r \in some : ~settle_day(OnDay(events, some, events[r].day)).capped
    BY CycleIs
  <2>2. /\ rs = InRange(events, bounds[1], bounds[2])
        /\ summary = close_cycle(events, bounds[1], bounds[2])
    BY DEF rs, events
  <2> QED BY <2>1, <2>2
<1>10. (\A r \in agenda : ~rows[r].adjusted) => ~summary.cap
  <2>1. ASSUME \A r \in agenda : ~rows[r].adjusted
        PROVE  \A r \in rs : 2 * Above(-events[r].points) <= FaceValue(events[r])
    <3>. TAKE r \in rs
    <3>1. r \in agenda /\ r[1] \in Items /\ Counts(job.defs[r[1]])
      BY <1>3, <1>5 DEF IInv, IsAgenda
    <3>2. job.defs[r[1]].difficulty \in Difficulties \cup {Unset}
      BY <3>1, DefinitionsAre DEF IInv, Job
    <3>3. events[r].points = Credit(job.defs[r[1]], rows[r].estado)
          /\ events[r].kind = job.defs[r[1]].kind
          /\ events[r].difficulty = job.defs[r[1]].difficulty
      BY <1>1, <1>6, <2>1, <3>1
    <3>4. \A event : event.kind = job.defs[r[1]].kind
                     /\ event.difficulty = job.defs[r[1]].difficulty =>
            2 * Above(-Credit(job.defs[r[1]], rows[r].estado)) <= FaceValue(event)
      BY <3>1, <3>2, CreditIsFair
    <3> QED BY <3>3, <3>4
  <2>2. ASSUME \A r \in agenda : ~rows[r].adjusted
        PROVE  \A d : ~settle_day(OnDay(events, rs, d)).capped
    BY <1>1, <1>6, <2>1, <2>2, CycleIsFair
  <2> QED BY <1>9, <2>2
<1>11. ~summary.cap => DayNet(events, rs) = SumFunctionOnSet(points, rs)
  <2>. SUFFICES ASSUME ~summary.cap PROVE DayNet(events, rs) = SumFunctionOnSet(points, rs)
    OBVIOUS
  <2>2. \A r \in rs : ~settle_day(OnDay(events, rs, events[r].day)).capped
    BY <1>9
  <2> QED BY <1>1, <1>6, <2>2, CycleAddsUp
<1>. HIDE DEF points
<1> QED BY <1>8, <1>9, <1>10, <1>11 DEF Above

(***************************************************************************)
(* Every action keeps the invariant.                                       *)
(***************************************************************************)

\* Of some days, one is the earliest: there is a next day.
LEMMA EarliestIs ==
  ASSUME NEW dates, dates # {}, dates \subseteq Nat
  PROVE  Earliest(dates) \in dates
<1>. DEFINE less == OpToRel(<, Nat)
<1>1. less = {d \in Nat \X Nat : d[1] < d[2]}
  BY DEF OpToRel
<1>2. PICK d \in dates : \A e \in dates : <<e, d>> \notin less
  <2>1. IsWellFoundedOn(less, Nat)
    BY NatLessThanWellFounded
  <2>. HIDE DEF less
  <2> QED BY <2>1, WFMin, Zenon
<1>3. ASSUME NEW e \in dates PROVE d <= e
  <2>1. d \in Nat /\ e \in Nat /\ <<e, d>> \notin less
    BY <1>2
  <2>. HIDE DEF less
  <2> QED BY <1>1, <2>1, SMT
<1> QED BY <1>2, <1>3 DEF Earliest

\* A row that is written over with one that tells the truth leaves the Agenda as it was.
LEMMA RowWritten ==
  ASSUME IInv, NEW r \in DOMAIN rows, NEW row \in Row, Tells(r, row),
         rows' = [rows EXCEPT ![r] = row], edited' = edited
  PROVE  /\ IsAgenda(rows)' /\ DOMAIN rows' = DOMAIN rows
         /\ RowsTell'
<1>1. IsAgenda(rows)' /\ DOMAIN rows' = DOMAIN rows
  BY DEF IInv, IsAgenda
<1>2. RowsTell'
  <2>. SUFFICES ASSUME NEW q \in DOMAIN rows PROVE Tells(q, rows[q])'
    BY <1>1 DEF RowsTell
  <2>1. Tells(q, rows[q])
    BY DEF IInv, RowsTell
  <2>2. rows'[q] = IF q = r THEN row ELSE rows[q]
    BY DEF IInv, IsAgenda
  <2>3. CASE q = r
    BY <2>2, <2>3 DEF Tells
  <2>4. CASE q # r
    BY <2>1, <2>2, <2>4 DEF Tells
  <2> QED BY <2>3, <2>4
<1> QED BY <1>1, <1>2

\* A job that has dealt with a row is otherwise the job it was.
LEMMA JobKept ==
  ASSUME Job, DOMAIN rows' = DOMAIN rows, pc' = pc, hecha' = hecha,
         job' = job \/ \E r : job' = [job EXCEPT !.open = @ \ {r}]
  PROVE  Job' /\ job'.defs = job.defs
<1>1. job'.defs = job.defs /\ job'.todos = job.todos /\ job'.open \subseteq job.open
      /\ job' = [defs |-> job'.defs, open |-> job'.open, todos |-> job'.todos,
                 marking |-> job'.marking]
  BY DEF Job
<1> QED BY <1>1 DEF Job

\* What a job writes on a row is a number within the table's.
LEMMA CreditsARow ==
  ASSUME IInv, NEW i \in Items, NEW outcome
  PROVE  Credit(job.defs[i], outcome) \in -25 .. 25 /\ Credit(job.defs[i], outcome) # NoPoints
<1>1. job.defs[i].difficulty \in Difficulties \cup {Unset}
  BY DefinitionsAre DEF IInv, Job
<1>2. Credit(job.defs[i], outcome) \in -25 .. 25 /\ Credit(job.defs[i], outcome) \in Int
  BY <1>1, CreditIsFair
<1>3. NoPoints \notin Int
  BY LedgerAssumption
<1> QED BY <1>2, <1>3

\* In the beginning no row is decided and no Corte is written.
LEMMA InitEstablishes == Init => IInv
<1>. SUFFICES ASSUME Init PROVE IInv
  OBVIOUS
<1>. USE DEF Init
<1>1. today \in Days
  BY LedgerAssumption, EarliestIs
<1>2. Catalogue(AtFirst)
  BY LedgerAssumption DEF Catalogue
<1>3. IsAgenda(rows) /\ DOMAIN rows = Occurrences
  BY LedgerAssumption DEF IsAgenda, Row, Pendiente, Items
<1>4. Job
  BY <1>2 DEF Job, NoJob
<1>5. Titled /\ OnPayday /\ Unedited
  BY DEF Titled, OnPayday, Unedited, NoJob
<1>6. RowsTell
  BY DEF RowsTell, Tells, Pendiente
<1> QED BY <1>1, <1>2, <1>3, <1>4, <1>5, <1>6 DEF IInv

\* A job that starts loads the catalogue as it is, and what there is to do.
LEMMA Starts ==
  ASSUME IInv, StartPull \/ StartReconcile \/ StartClose
  PROVE  IInv'
<1>. USE DEF IInv
<1>1. /\ job'.defs = defs /\ job'.open \subseteq DOMAIN rows
      /\ job' = [defs |-> job'.defs, open |-> job'.open, todos |-> job'.todos,
                 marking |-> job'.marking]
      /\ \A t \in job'.todos : t \in Tareas /\ Counts(defs[t])
      /\ pc' \in {"pull", "reconcile", "close"}
  BY DEF StartPull, StartReconcile, StartClose, LoadToClose, OpenRows, NoJob
<1>2. UNCHANGED <<today, rows, hecha, cortes, defs, edited, byparents>>
  BY DEF StartPull, StartReconcile, StartClose, LoadToClose, parents
<1>3. Job'
  BY <1>1, <1>2 DEF Job
<1>4. OnPayday'
  BY <1>2 DEF StartPull, StartReconcile, StartClose, LoadToClose, OnPayday
<1>5. Unedited'
  BY <1>1, <1>2 DEF Unedited
<1>6. Titled' /\ RowsTell'
  BY <1>2 DEF Titled, RowsTell, Tells
<1> QED BY <1>2, <1>3, <1>4, <1>5, <1>6

\* A job decides a row by the catalogue it loaded; a parent's hand shows on the row.
LEMMA Credits ==
  ASSUME IInv, NEW r \in DOMAIN rows,
         CreditRoutine(r) \/ Fail(r) \/ RecordByHand(r) \/ Appeal(r)
  PROVE  IInv'
<1>1. r[1] \in Items /\ rows[r] \in Row
  BY DEF IInv, IsAgenda
<1>2. Tells(r, rows[r])
  BY DEF IInv, RowsTell
<1>3. \A outcome : Credit(job.defs[r[1]], outcome) \in -25 .. 25
                   /\ Credit(job.defs[r[1]], outcome) # NoPoints
  BY <1>1, CreditsARow
<1>4. r[1] \notin edited => job.defs[r[1]] = AtFirst[r[1]]
  BY <1>1 DEF IInv, Unedited
<1>5. \E row \in Row : Tells(r, row) /\ rows' = [rows EXCEPT ![r] = row]
  <2>. DEFINE old == rows[r]
  <2>1. CASE CreditRoutine(r)
    <3>1. PICK p : p = Credit(job.defs[r[1]], "Hecha")
      OBVIOUS
    <3>. DEFINE row == [old EXCEPT !.estado = "Hecha", !.manual = FALSE, !.points = p]
    <3>2. rows' = [rows EXCEPT ![r] = row]
      BY <2>1, <3>1 DEF CreditRoutine
    <3>. HIDE DEF old
    <3>3. row \in Row /\ row.estado = "Hecha" /\ row.points = p
      BY <1>1, <1>3, <3>1 DEF Row, old
    <3>4. p # NoPoints /\ (r[1] \notin edited => p = Credit(AtFirst[r[1]], "Hecha"))
      BY <1>3, <1>4, <3>1
    <3>. HIDE DEF row
    <3>5. Tells(r, row)
      BY <3>3, <3>4 DEF Tells
    <3> QED BY <3>2, <3>3, <3>5
  <2>2. CASE Fail(r)
    <3>1. PICK p : p = Credit(job.defs[r[1]], "Fallada")
      OBVIOUS
    <3>. DEFINE row == [old EXCEPT !.estado = "Fallada", !.points = p]
    <3>2. rows' = [rows EXCEPT ![r] = row]
      BY <2>2, <3>1 DEF Fail
    <3>. HIDE DEF old
    <3>3. row \in Row /\ row.estado = "Fallada" /\ row.points = p
      BY <1>1, <1>3, <3>1 DEF Row, old
    <3>4. p # NoPoints /\ (r[1] \notin edited => p = Credit(AtFirst[r[1]], "Fallada"))
      BY <1>3, <1>4, <3>1
    <3>. HIDE DEF row
    <3>5. Tells(r, row)
      BY <3>3, <3>4 DEF Tells
    <3> QED BY <3>2, <3>3, <3>5
  <2>3. CASE RecordByHand(r)
    <3>1. PICK estado \in {"Hecha", "Fallada"} :
            rows' = [rows EXCEPT ![r].estado = estado, ![r].manual = TRUE]
      BY <2>3 DEF RecordByHand
    <3>. DEFINE row == [old EXCEPT !.estado = estado, !.manual = TRUE]
    <3>2. rows' = [rows EXCEPT ![r] = row]
      BY <3>1
    <3>. HIDE DEF old
    <3>3. /\ row \in Row /\ row.manual
          /\ row.adjusted = old.adjusted /\ row.points = old.points
      BY <1>1 DEF Row, old
    <3>. HIDE DEF row
    <3>4. Tells(r, row)
      BY <1>2, <3>3 DEF Tells, old
    <3> QED BY <3>2, <3>3, <3>4
  <2>4. CASE Appeal(r)
    <3>1. PICK p \in Appeals : rows' = [rows EXCEPT ![r].adjusted = TRUE, ![r].points = p]
      BY <2>4 DEF Appeal
    <3>. DEFINE row == [old EXCEPT !.adjusted = TRUE, !.points = p]
    <3>2. rows' = [rows EXCEPT ![r] = row]
      BY <3>1
    <3>. HIDE DEF old
    <3>3. row \in Row /\ row.adjusted /\ row.points = p
      BY <1>1 DEF Row, old
    <3>4. p # NoPoints
      BY LedgerAssumption
    <3>. HIDE DEF row
    <3>5. Tells(r, row)
      BY <3>3, <3>4 DEF Tells
    <3> QED BY <3>2, <3>3, <3>5
  <2> QED BY <2>1, <2>2, <2>3, <2>4
<1>6. /\ UNCHANGED <<today, defs, edited, cortes, pc, hecha>>
      /\ job' = job \/ \E q : job' = [job EXCEPT !.open = @ \ {q}]
  BY DEF CreditRoutine, Fail, RecordByHand, Appeal, parents
<1>7. /\ IsAgenda(rows)' /\ DOMAIN rows' = DOMAIN rows
      /\ RowsTell'
  BY <1>5, <1>6, RowWritten
<1>8. Job' /\ job'.defs = job.defs
  BY <1>6, <1>7, JobKept DEF IInv
<1>9. Unedited' /\ OnPayday' /\ Titled'
  BY <1>6, <1>8 DEF IInv, Unedited, OnPayday, Titled
<1> QED BY <1>6, <1>7, <1>8, <1>9 DEF IInv

\* A run that ends, and a new day, touch no row.
LEMMA Ends ==
  ASSUME IInv, EndRun \/ NextDay
  PROVE  IInv'
<1>1. UNCHANGED <<rows, hecha, defs, edited, cortes>>
  BY DEF EndRun, NextDay, parents
<1>2. /\ pc' = "idle" /\ (job' = NoJob \/ job' = job)
      /\ Catalogue(AtFirst) /\ \A i \in Items : job'.defs[i] = AtFirst[i] \/ job' = job
  BY LedgerAssumption DEF EndRun, NextDay, Catalogue, NoJob
<1>3. Job'
  <2>1. CASE job' = NoJob
    BY <1>1, <1>2, <2>1 DEF IInv, Job, NoJob
  <2>2. CASE job' = job
    BY <1>1, <1>2, <2>2 DEF IInv, Job
  <2> QED BY <1>2, <2>1, <2>2
<1>4. Unedited'
  BY <1>1, <1>2 DEF IInv, Unedited
<1>5. today' \in Days
  <2>1. CASE EndRun
    BY <2>1 DEF EndRun, IInv
  <2>2. CASE NextDay
    <3>1. Later # {} /\ Later \subseteq Days /\ Days \subseteq Nat /\ today' = Earliest(Later)
      BY <2>2, LedgerAssumption DEF NextDay, Later
    <3> QED BY <3>1, EarliestIs
  <2> QED BY <2>1, <2>2
<1>6. Titled' /\ OnPayday' /\ RowsTell'
  BY <1>1, <1>2 DEF IInv, Titled, OnPayday, RowsTell, Tells
<1> QED BY <1>1, <1>3, <1>4, <1>5, <1>6 DEF IInv

\* An edit of the catalogue counts against the item's rows from then on.
LEMMA Edits ==
  ASSUME IInv, NEW i \in Items, EditItem(i)
  PROVE  IInv'
<1>1. PICK def \in Definitions(i) : defs' = [defs EXCEPT ![i] = def]
  BY DEF EditItem
<1>2. edited' = edited \cup {i} /\ UNCHANGED <<today, rows, hecha, pc, job, cortes>>
  BY DEF EditItem
<1>3. Catalogue(defs)'
  BY <1>1 DEF IInv, Catalogue
<1>4. Job'
  BY <1>2 DEF IInv, Job
<1>5. Unedited'
  BY <1>1, <1>2 DEF IInv, Unedited
<1>6. Titled' /\ OnPayday' /\ RowsTell'
  BY <1>2 DEF IInv, Titled, OnPayday, RowsTell, Tells
<1> QED BY <1>2, <1>3, <1>4, <1>5, <1>6 DEF IInv

\* A tarea gets a row of its own, with the points of the catalogue that the job loaded.
LEMMA CreditsATarea ==
  ASSUME IInv, NEW t \in Tareas, CreditTarea(t)
  PROVE  IInv'
<1>. DEFINE New(n) == <<t, today, n>>
<1>0. PICK row : row = [Pendiente EXCEPT !.estado = "Hecha",
                                         !.points = points_earned(job.defs[t].difficulty)]
  OBVIOUS
<1>1. /\ row.estado = "Hecha" /\ row.points = points_earned(job.defs[t].difficulty)
      /\ row.adjusted = FALSE /\ row.manual = FALSE
  BY <1>0 DEF Pendiente
<1>2. PICK n \in 1 .. MaxRows :
        /\ New(n) \notin DOMAIN rows
        /\ rows' = [r \in DOMAIN rows \cup {New(n)} |-> IF r = New(n) THEN row ELSE rows[r]]
  BY <1>0 DEF CreditTarea
<1>3. /\ t \in job.todos /\ job' = [job EXCEPT !.todos = @ \ {t}, !.marking = {t}]
      /\ UNCHANGED <<today, hecha, pc, cortes, defs, edited, byparents>>
  BY DEF CreditTarea, parents
<1>4. /\ Counts(job.defs[t]) /\ t \in Items /\ today \in Days
      /\ \A k \in 1 .. MaxRows : New(k) \in Items \X Days \X Nat
  BY <1>3, LedgerAssumption DEF IInv, Job, Items
<1>. DEFINE new == New(n)
<1>. HIDE DEF New
<1>5. row.points = Credit(job.defs[t], "Hecha")
  <2>1. job.defs[t].kind = "To-Do"
    BY <1>4, DefinitionsAre DEF IInv, Job
  <2> QED BY <1>1, <1>4, <2>1 DEF Credit, signed_points, points_done
<1>6. row \in Row /\ row.points # NoPoints
  <2>1. row.points \in -25 .. 25 /\ row.points # NoPoints
    BY <1>4, <1>5, CreditsARow
  <2>2. PICK p : p = points_earned(job.defs[t].difficulty)
    OBVIOUS
  <2>3. row = [Pendiente EXCEPT !.estado = "Hecha", !.points = p] /\ p \in -25 .. 25
    BY <1>0, <1>1, <2>1, <2>2
  <2>4. row \in Row
    BY <2>3 DEF Row, Pendiente
  <2> QED BY <2>1, <2>4
<1>7. IsAgenda(rows)' /\ DOMAIN rows' = DOMAIN rows \cup {new}
  <2>1. DOMAIN rows' = DOMAIN rows \cup {new}
    BY <1>2
  <2>2. IsFiniteSet(DOMAIN rows \cup {new})
    BY FS_AddElement DEF IInv, IsAgenda
  <2>3. DOMAIN rows \cup {new} \subseteq Items \X Days \X Nat
    BY <1>4 DEF IInv, IsAgenda
  <2>4. \A r \in DOMAIN rows \cup {new} : rows'[r] \in Row
    BY <1>2, <1>6 DEF IInv, IsAgenda
  <2> QED BY <1>2, <2>1, <2>2, <2>3, <2>4 DEF IsAgenda
<1>8. Job' /\ job'.defs = job.defs
  <2>1. /\ job'.defs = job.defs /\ job'.open = job.open /\ job'.todos = job.todos \ {t}
        /\ job' = [defs |-> job'.defs, open |-> job'.open, todos |-> job'.todos,
                   marking |-> job'.marking]
    BY <1>3 DEF IInv, Job
  <2>2. \A u \in job'.todos : u \in Tareas /\ Counts(job'.defs[u])
    BY <2>1 DEF IInv, Job
  <2>3. pc' \in {"idle", "pull", "reconcile", "close"} /\ Catalogue(job'.defs)
        /\ job'.open \subseteq DOMAIN rows' /\ hecha' \subseteq Tareas
    BY <1>3, <1>7, <2>1 DEF IInv, Job
  <2> QED BY <2>1, <2>2, <2>3 DEF Job
<1>9. RowsTell'
  <2>. SUFFICES ASSUME NEW r \in DOMAIN rows' PROVE Tells(r, rows[r])'
    BY DEF RowsTell
  <2>1. CASE r = new
    <3>1. rows'[r] = row /\ r[1] = t
      BY <1>2, <1>7, <2>1 DEF New
    <3>2. t \notin edited => job.defs[t] = AtFirst[t]
      BY <1>4 DEF IInv, Unedited
    <3>3. row.estado = "Hecha" /\ ~row.adjusted
      BY <1>1
    <3> QED BY <1>3, <1>5, <1>6, <3>1, <3>2, <3>3 DEF Tells
  <2>2. CASE r # new
    BY <1>2, <1>3, <1>7, <2>2 DEF IInv, RowsTell, Tells
  <2> QED BY <2>1, <2>2
<1>10. Unedited' /\ OnPayday' /\ Titled'
  BY <1>3, <1>8 DEF IInv, Unedited, OnPayday, Titled
<1> QED BY <1>3, <1>7, <1>8, <1>9, <1>10 DEF IInv

\* A tarea that is marked has its row already: no row changes.
LEMMA MarksATarea ==
  ASSUME IInv, NEW t \in Tareas, MarkTarea(t)
  PROVE  IInv'
<1>1. /\ job' = [job EXCEPT !.marking = {}] /\ hecha' = hecha \cup {t}
      /\ UNCHANGED <<today, rows, pc, cortes, defs, edited, byparents>>
  BY DEF MarkTarea, parents
<1>2. /\ job'.defs = job.defs /\ job'.open = job.open /\ job'.todos = job.todos
      /\ job' = [defs |-> job'.defs, open |-> job'.open, todos |-> job'.todos,
                 marking |-> job'.marking]
  BY <1>1 DEF IInv, Job
<1>3. Job'
  BY <1>1, <1>2 DEF IInv, Job
<1>4. Unedited' /\ OnPayday' /\ Titled' /\ RowsTell'
  BY <1>1, <1>2 DEF IInv, Unedited, OnPayday, Titled, RowsTell, Tells
<1> QED BY <1>1, <1>3, <1>4 DEF IInv

\* A Corte is of a payday that had none, and is what the Agenda shows.
LEMMA Settles ==
  ASSUME IInv, Settle
  PROVE  IInv' /\ (AgendaMatchesCorte => AgendaMatchesCorte')
<1>. DEFINE bounds == cycle_bounds(today, Anchor)
            summary == close_cycle(to_events(rows, job.defs), bounds[1], bounds[2])
            agenda == OfPayday(today)
<1>1. PICK corte :
        corte = [ciclo |-> cycle_label(today, Anchor), desde |-> bounds[1],
                 net |-> summary.net, cap |-> summary.cap, shown |-> Shown(agenda),
                 byparents |-> ByParents(agenda),
                 appealed |-> \E r \in agenda : rows[r].adjusted]
  OBVIOUS
<1>2. cortes' = cortes \cup {corte}
  BY <1>1 DEF Settle
<1>3. /\ pc = "close" /\ pc' = "idle" /\ job' = NoJob
      /\ UNCHANGED <<today, rows, hecha, defs, edited, byparents>>
  BY DEF Settle, parents
<1>4. /\ corte.ciclo = cycle_label(today, Anchor) /\ corte.desde = bounds[1]
      /\ corte.net = summary.net /\ corte.shown = Shown(agenda)
  BY <1>1
<1>5. /\ corte.cap = summary.cap /\ (corte.byparents <=> ByParents(agenda))
      /\ corte.appealed <=> \E r \in agenda : rows[r].adjusted
  <2>. HIDE DEF agenda, summary
  <2> QED BY <1>1
<1>6. /\ today \in Int /\ bounds[2] = today /\ bounds[1] = today - 13
      /\ (today - Anchor) % 14 = 0 /\ \A c \in cortes : c.desde # bounds[1]
  <2>1. today \in Int
    BY LedgerAssumption DEF IInv
  <2> QED BY <1>3, <2>1, BoundsAre DEF IInv, OnPayday
<1>7. corte.net \in Nat
  <2>1. IsEvents(to_events(rows, job.defs))
    BY EventsOf DEF IInv, Job
  <2>. HIDE DEF bounds
  <2> QED BY <1>4, <2>1, NetIsNat
<1>8. corte.ciclo = Label(today)
  BY <1>4, <1>6 DEF cycle_label, Label, cycle_bounds
<1>9. Titled'
  <2>1. corte.desde \in Int /\ corte.desde + 13 = today /\ (corte.desde + 13 - Anchor) % 14 = 0
    <3>1. corte.desde = today - 13
      <4>. HIDE DEF bounds
      <4> QED BY <1>4, <1>6
    <3>2. today \in Int /\ (today - Anchor) % 14 = 0
      BY <1>6
    <3>3. corte.desde \in Int /\ corte.desde + 13 = today
      BY <3>1, <3>2
    <3>4. Anchor \in Int
      BY LedgerAssumption
    <3>. HIDE DEF bounds
    <3> QED BY <3>2, <3>3, <3>4
  <2>2. corte.net \in Nat /\ corte.ciclo = Label(corte.desde + 13)
    BY <1>7, <1>8, <2>1
  <2>3. \A c \in cortes : c.desde # corte.desde
    BY <1>4, <1>6
  <2>. HIDE DEF bounds, summary, agenda
  <2> QED BY <1>2, <2>1, <2>2, <2>3 DEF IInv, Titled
<1>10. Job' /\ Unedited'
  BY <1>3, LedgerAssumption DEF IInv, Job, Unedited, NoJob, Catalogue
<1>11. OnPayday' /\ RowsTell'
  BY <1>3 DEF IInv, OnPayday, RowsTell, Tells
<1>12. IInv'
  BY <1>3, <1>9, <1>10, <1>11 DEF IInv
<1>13. ~corte.byparents =>
         /\ corte.cap => corte.appealed
         /\ ~corte.cap => corte.net = Above(corte.shown)
  <2>1. ~ByParents(agenda) =>
          /\ summary.cap => \E r \in agenda : rows[r].adjusted
          /\ ~summary.cap => summary.net = Above(Shown(agenda))
    BY <1>3, SettleTells
  <2>. HIDE DEF agenda, summary, bounds
  <2> QED BY <1>4, <1>5, <2>1
<1>14. AgendaMatchesCorte => AgendaMatchesCorte'
  <2>. HIDE DEF agenda, summary, bounds
  <2> QED BY <1>2, <1>13 DEF AgendaMatchesCorte
<1> QED BY <1>12, <1>14

\* Every step keeps the invariant, and the Cortes that match.
LEMMA StepKeeps ==
  ASSUME IInv, AgendaMatchesCorte, [Next]_vars
  PROVE  IInv' /\ AgendaMatchesCorte'
<1>1. CASE StartPull \/ StartReconcile \/ StartClose
  <2>1. cortes' = cortes
    BY <1>1 DEF StartPull, StartReconcile, StartClose, LoadToClose
  <2> QED BY <1>1, <2>1, Starts DEF AgendaMatchesCorte
<1>2. CASE Settle
  BY <1>2, Settles
<1>3. CASE EndRun \/ NextDay
  <2>1. cortes' = cortes
    BY <1>3 DEF EndRun, NextDay
  <2> QED BY <1>3, <2>1, Ends DEF AgendaMatchesCorte
<1>4. ASSUME NEW r \in DOMAIN rows, CreditRoutine(r) \/ Fail(r) \/ RecordByHand(r) \/ Appeal(r)
      PROVE  IInv' /\ AgendaMatchesCorte'
  <2>1. cortes' = cortes
    BY <1>4 DEF CreditRoutine, Fail, RecordByHand, Appeal
  <2> QED BY <1>4, <2>1, Credits DEF AgendaMatchesCorte
<1>5. ASSUME NEW t \in Tareas, CreditTarea(t) \/ MarkTarea(t)
      PROVE  IInv' /\ AgendaMatchesCorte'
  <2>1. cortes' = cortes
    BY <1>5 DEF CreditTarea, MarkTarea
  <2> QED BY <1>5, <2>1, CreditsATarea, MarksATarea DEF AgendaMatchesCorte
<1>6. ASSUME NEW i \in Items, EditItem(i) PROVE IInv' /\ AgendaMatchesCorte'
  <2>1. cortes' = cortes
    BY <1>6 DEF EditItem
  <2> QED BY <1>6, <2>1, Edits DEF AgendaMatchesCorte
<1>7. CASE UNCHANGED vars
  BY <1>7 DEF vars, IInv, Catalogue, IsAgenda, Job, Titled, OnPayday,
              Unedited, RowsTell, Tells, AgendaMatchesCorte
<1> QED BY <1>1, <1>2, <1>3, <1>4, <1>5, <1>6, <1>7 DEF Next

(***************************************************************************)
(* The theorems.                                                           *)
(***************************************************************************)

\* The inductive invariant holds, and every Corte that was written matches.
THEOREM Invariance == Spec => [](IInv /\ AgendaMatchesCorte)
<1>1. Init => IInv /\ AgendaMatchesCorte
  <2>1. Init => AgendaMatchesCorte
    BY DEF Init, AgendaMatchesCorte
  <2> QED BY <2>1, InitEstablishes
<1>2. IInv /\ AgendaMatchesCorte /\ [Next]_vars => (IInv /\ AgendaMatchesCorte)'
  BY StepKeeps
<1> QED BY <1>1, <1>2, PTL DEF Spec

\* AgendaMatchesCorte of Ledger.tla, for every catalogue, family, story of days and any
\* number of edits, records and appeals: without a parent's hand a Corte is the sum of
\* the points its fortnight's rows show, and is capped only after an appeal
\* (rules.py, close_cycle; pull_completions.py and reconcile.py, the points they write).
THEOREM AgendaMatchesCorteHolds == Spec => []AgendaMatchesCorte
<1> QED BY Invariance, PTL

\* WorkNeverCosts of Ledger.tla: in every state, an occurrence that is done leaves the
\* net of its fortnight no lower (rules.py, settle_day and close_cycle: the cap is a share
\* of the work that was due, not of what was done).
THEOREM WorkNeverCostsHolds == Spec => []WorkNeverCosts
<1>1. IInv => WorkNeverCosts
  BY NeverCosts DEF IInv
<1> QED BY <1>1, Invariance, PTL

\* TypeOK of Ledger.tla: rows and Cortes hold what the code may write, no Corte is
\* negative, and the title of a Corte names one cycle however often its payday is closed
\* (close_cycle.py, the Corte that is there is reused; rules.py, cycle_label).
THEOREM TypeCorrectness == Spec => []TypeOK
<1>1. ASSUME IInv PROVE TypeOK
  <2>1. /\ today \in Days /\ \A i \in Items : defs[i] \in Definitions(i)
        /\ Occurrences \subseteq DOMAIN rows /\ DOMAIN rows \subseteq Items \X Days \X Nat
        /\ hecha \subseteq Tareas
        /\ pc \in {"idle", "pull", "reconcile", "close"} /\ job.open \subseteq DOMAIN rows
        /\ \A c \in cortes : c.net \in Nat
    BY <1>1 DEF IInv, Catalogue, IsAgenda, Job, Titled
  <2>2. \A r \in DOMAIN rows : rows[r] \in Row
    BY <1>1 DEF IInv, IsAgenda
  <2>3. ASSUME NEW c \in cortes, NEW d \in cortes, c.ciclo = d.ciclo PROVE c = d
    <3>1. /\ c.desde \in Int /\ (c.desde + 13 - Anchor) % 14 = 0 /\ c.ciclo = Label(c.desde + 13)
          /\ d.desde \in Int /\ (d.desde + 13 - Anchor) % 14 = 0 /\ d.ciclo = Label(d.desde + 13)
      BY <1>1 DEF IInv, Titled
    <3>2. PICK e \in Int : e = c.desde + 13
      BY <3>1
    <3>3. PICK f \in Int : f = d.desde + 13
      BY <3>1
    <3>4. (e - Anchor) % 14 = 0 /\ (f - Anchor) % 14 = 0 /\ Label(e) = Label(f)
      <4>0. Anchor \in Int
        BY LedgerAssumption
      <4>1. (e - Anchor) % 14 = 0 /\ c.ciclo = Label(e)
        BY <3>1, <3>2, <4>0
      <4>2. (f - Anchor) % 14 = 0 /\ d.ciclo = Label(f)
        BY <3>1, <3>3, <4>0
      <4> QED BY <2>3, <4>1, <4>2
    <3>5. e = f
      BY <3>4, LabelNamesOne
    <3>6. c.desde = d.desde
      BY <3>1, <3>2, <3>3, <3>5
    <3> QED BY <1>1, <3>6 DEF IInv, Titled
  <2> QED BY <2>1, <2>2, <2>3 DEF TypeOK, Row
<1> QED BY <1>1, Invariance, PTL
=============================================================================
