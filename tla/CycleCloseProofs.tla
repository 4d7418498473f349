-------------------------- MODULE CycleCloseProofs --------------------------
(***************************************************************************)
(* Theorems about CycleClose for every family, every net, any number of    *)
(* runs, failures and interventions of people, checked by TLAPS: types,    *)
(* one Corte a member, one payment a member, nothing lost in the split,    *)
(* no Corte short but by a failure, no Saldo but by its movements.         *)
(***************************************************************************)
EXTENDS CycleClose, FiniteSetTheorems, SequenceTheorems, WellFoundedInduction, TLAPS

(***************************************************************************)
(* Sums over finite sets. The folds of the community modules are recursive *)
(* functions over subsets, written with CHOOSE: that there is such a       *)
(* function, and one, is proved by induction over subsets.                 *)
(***************************************************************************)

\* The recursive function in the definition of the fold, by name.
Adds(g, S, h) ==
  h = [s \in SUBSET S |->
         IF s = {} THEN 0 ELSE LET x == CHOOSE x \in s : TRUE IN g[x] + h[s \ {x}]]

\* A sum is that function at the whole set.
LEMMA SumUnfolds ==
  ASSUME NEW g, NEW S
  PROVE  SumFunctionOnSet(g, S) = (CHOOSE h : Adds(g, S, h))[S]
BY DEF SumFunctionOnSet, FoldFunctionOnSet, MapThenFoldSet, Adds

\* What holds of a subset whenever it holds of the smaller ones holds of a finite set.
LEMMA StrongSubsetInduction ==
  ASSUME NEW S, IsFiniteSet(S), NEW P,
         \A T \in SUBSET S : (\A U \in SUBSET T : U # T => U \in P) => T \in P
  PROVE  S \in P
<1>. DEFINE bad == (SUBSET S) \ P
            less == StrictSubsetOrdering(S)
<1>1. IsWellFoundedOn(less, SUBSET S)
  BY FS_StrictSubsetOrderingWellFounded, FS_FiniteSubsetsOfFinite
<1>2. SUFFICES ASSUME S \notin P PROVE FALSE
  OBVIOUS
<1>3. S \in bad /\ bad \subseteq SUBSET S
  BY <1>2
<1>4. PICK T \in bad : \A U \in bad : <<U, T>> \notin less
  <2>. HIDE DEF bad, less
  <2> QED BY <1>1, <1>3, WFMin
<1>5. ASSUME NEW U \in SUBSET T, U # T PROVE U \in P
  <2>1. <<U, T>> \in less
    BY <1>4, <1>5 DEF StrictSubsetOrdering
  <2> QED BY <1>4, <2>1
<1> QED BY <1>4, <1>5

\* The same, one element at a time.
LEMMA SubsetInduction ==
  ASSUME NEW S, IsFiniteSet(S), NEW P, {} \in P,
         \A T \in SUBSET S : \A x \in S \ T : T \in P => T \cup {x} \in P
  PROVE  S \in P
<1>1. ASSUME NEW T \in SUBSET S, \A U \in SUBSET T : U # T => U \in P
      PROVE  T \in P
  <2>1. CASE T = {}
    BY <2>1
  <2>2. CASE T # {}
    <3>1. PICK x \in T : TRUE
      BY <2>2
    <3>2. T \ {x} \in P /\ (T \ {x}) \cup {x} = T
      BY <1>1, <3>1
    <3> QED BY <3>1, <3>2
  <2> QED BY <2>1, <2>2
<1> QED BY <1>1, StrongSubsetInduction

\* Two functions that add up the values agree on every finite set both are defined on.
LEMMA SumIsUnique ==
  ASSUME NEW g, NEW S, IsFiniteSet(S), NEW T, NEW U, S \subseteq T, S \subseteq U,
         NEW h, Adds(g, T, h), NEW k, Adds(g, U, k)
  PROVE  h[S] = k[S]
<1>. DEFINE P == {s \in SUBSET S : h[s] = k[s]}
<1>1. ASSUME NEW s \in SUBSET S, \A u \in SUBSET s : u # s => u \in P
      PROVE  s \in P
  <2>1. CASE s = {}
    BY <2>1 DEF Adds
  <2>2. CASE s # {}
    <3>. DEFINE x == CHOOSE x \in s : TRUE
    <3>1. x \in s
      BY <2>2
    <3>. HIDE DEF x
    <3>2. h[s \ {x}] = k[s \ {x}]
      BY <1>1, <3>1
    <3>3. h[s] = g[x] + h[s \ {x}] /\ k[s] = g[x] + k[s \ {x}]
      BY <2>2 DEF Adds, x
    <3> QED BY <3>2, <3>3
  <2> QED BY <2>1, <2>2
<1>2. S \in P
  <2>. HIDE DEF P
  <2> QED BY <1>1, StrongSubsetInduction
<1> QED BY <1>2

\* And there is one for every finite set.
LEMMA SumExists ==
  ASSUME NEW g, NEW S, IsFiniteSet(S)
  PROVE  \E h : Adds(g, S, h)
<1>. DEFINE P == {s \in SUBSET S : \E h : Adds(g, s, h)}
<1>1. ASSUME NEW T \in SUBSET S, \A u \in SUBSET T : u # T => u \in P
      PROVE  \E h : Adds(g, T, h)
  <2>. DEFINE sum(u) == (CHOOSE k : Adds(g, u, k))[u]
              first(s) == CHOOSE x \in s : TRUE
              h == [s \in SUBSET T |-> IF s = {} THEN 0
                                       ELSE g[first(s)] + sum(s \ {first(s)})]
  <2>1. ASSUME NEW u \in SUBSET T, u # T PROVE h[u] = sum(u)
    <3>. DEFINE k == CHOOSE k : Adds(g, u, k)
    <3>1. Adds(g, u, k) /\ u \in SUBSET u
      BY <1>1, <2>1
    <3>2. CASE u = {}
      BY <3>1, <3>2 DEF Adds
    <3>3. CASE u # {}
      <4>. DEFINE x == first(u)
                  w == u \ {x}
                  j == CHOOSE j : Adds(g, w, j)
      <4>1. x \in u
        BY <3>3
      <4>2. w \in SUBSET T /\ w # T /\ w \subseteq u /\ w \subseteq w /\ IsFiniteSet(w)
        BY <4>1, FS_Subset
      <4>3. Adds(g, w, j)
        BY <1>1, <4>2
      <4>4. k[w] = j[w]
        <5>. HIDE DEF k, j, w
        <5> QED BY <3>1, <4>2, <4>3, SumIsUnique
      <4>5. k[u] = g[x] + k[w]
        <5>. HIDE DEF k
        <5> QED BY <3>1, <3>3 DEF Adds
      <4>6. h[u] = g[x] + j[w]
        BY <3>3
      <4> QED BY <4>4, <4>5, <4>6
    <3> QED BY <3>2, <3>3
  <2>2. ASSUME NEW s \in SUBSET T, s # {}
        PROVE  sum(s \ {first(s)}) = h[s \ {first(s)}]
    <3>1. first(s) \in s
      BY <2>2
    <3>2. s \ {first(s)} \in SUBSET T /\ s \ {first(s)} # T
      BY <3>1
    <3> QED BY <2>1, <3>2
  <2>3. Adds(g, T, h)
    <3>1. \A s \in SUBSET T : h[s] = IF s = {} THEN 0
                                     ELSE g[first(s)] + h[s \ {first(s)}]
      <4>. TAKE s \in SUBSET T
      <4>1. h[s] = IF s = {} THEN 0 ELSE g[first(s)] + sum(s \ {first(s)})
        OBVIOUS
      <4>. HIDE DEF h, sum, first
      <4> QED BY <2>2, <4>1
    <3>2. h = [s \in SUBSET T |-> h[s]]
      OBVIOUS
    <3>. HIDE DEF h
    <3> QED BY <3>1, <3>2 DEF Adds
  <2> QED BY <2>3
<1>2. S \in P
  <2>1. ASSUME NEW T \in SUBSET S, \A u \in SUBSET T : u # T => u \in P PROVE T \in P
    BY <1>1, <2>1
  <2>. HIDE DEF P
  <2> QED BY <2>1, StrongSubsetInduction
<1> QED BY <1>2

\* So a sum is a chosen element's value and the sum of the others.
LEMMA SumOfSome ==
  ASSUME NEW g, NEW S, IsFiniteSet(S)
  PROVE  SumFunctionOnSet(g, S) =
           IF S = {} THEN 0
           ELSE LET x == CHOOSE x \in S : TRUE IN g[x] + SumFunctionOnSet(g, S \ {x})
<1>. DEFINE h == CHOOSE h : Adds(g, S, h)
            x == CHOOSE x \in S : TRUE
            k == CHOOSE k : Adds(g, S \ {x}, k)
<1>1. Adds(g, S, h) /\ IsFiniteSet(S \ {x}) /\ S \in SUBSET S
  BY SumExists, FS_Subset
<1>2. Adds(g, S \ {x}, k)
  BY <1>1, SumExists
<1>3. SumFunctionOnSet(g, S) = h[S] /\ SumFunctionOnSet(g, S \ {x}) = k[S \ {x}]
  BY SumUnfolds
<1>4. h[S \ {x}] = k[S \ {x}]
  <2>. HIDE DEF h, k, x
  <2> QED BY <1>1, <1>2, SumIsUnique
<1>5. h[S] = IF S = {} THEN 0 ELSE g[x] + h[S \ {x}]
  <2>. HIDE DEF h
  <2> QED BY <1>1 DEF Adds
<1> QED BY <1>3, <1>4, <1>5

\* Whichever element is taken first: a sum of integers has no order.
LEMMA SumAnyOrder ==
  ASSUME NEW g, NEW S, IsFiniteSet(S), \A y \in S : g[y] \in Int
  PROVE  /\ SumFunctionOnSet(g, S) \in Int
         /\ \A x \in S : SumFunctionOnSet(g, S) = g[x] + SumFunctionOnSet(g, S \ {x})
<1>. DEFINE Sum(T) == SumFunctionOnSet(g, T)
            P == {T \in SUBSET S : Sum(T) \in Int /\ \A x \in T : Sum(T) = g[x] + Sum(T \ {x})}
<1>1. ASSUME NEW T \in SUBSET S, \A U \in SUBSET T : U # T => U \in P
      PROVE  T \in P
  <2>0. IsFiniteSet(T)
    BY FS_Subset
  <2>1. CASE T = {}
    <3>1. Sum(T) = 0
      BY <2>0, <2>1, SumOfSome
    <3>. HIDE DEF Sum
    <3> QED BY <2>1, <3>1
  <2>2. CASE T # {}
    <3>. DEFINE p == CHOOSE x \in T : TRUE
    <3>1. p \in T /\ Sum(T) = g[p] + Sum(T \ {p})
      BY <2>0, <2>2, SumOfSome
    <3>. HIDE DEF p, Sum
    <3>2. Sum(T \ {p}) \in Int /\ g[p] \in Int
      BY <1>1, <3>1
    <3>3. ASSUME NEW x \in T, x # p PROVE Sum(T) = g[x] + Sum(T \ {x})
      <4>1. T \ {p} \in P /\ T \ {x} \in P
        BY <1>1, <3>1
      <4>2. Sum(T \ {p}) = g[x] + Sum((T \ {p}) \ {x})
        BY <3>3, <4>1
      <4>3. Sum(T \ {x}) = g[p] + Sum((T \ {x}) \ {p})
        BY <3>1, <3>3, <4>1
      <4>4. (T \ {p}) \ {x} = (T \ {x}) \ {p}
        OBVIOUS
      <4>5. Sum((T \ {p}) \ {x}) \in Int /\ g[x] \in Int
        <5>1. (T \ {p}) \ {x} \in P
          BY <1>1, <3>1
        <5> QED BY <5>1
      <4>. DEFINE rest == Sum((T \ {p}) \ {x})
      <4>6. Sum(T) = g[p] + (g[x] + rest) /\ Sum(T \ {x}) = g[p] + rest
        BY <3>1, <4>2, <4>3, <4>4
      <4>7. rest \in Int
        BY <4>5
      <4>. HIDE DEF rest
      <4> QED BY <3>2, <4>5, <4>6, <4>7
    <3> QED BY <3>1, <3>2, <3>3
  <2> QED BY <2>1, <2>2
<1>2. S \in P
  <2>. HIDE DEF P
  <2> QED BY <1>1, StrongSubsetInduction
<1> QED BY <1>2

\* Functions that agree on a set have the same sum over it.
LEMMA SumAgrees ==
  ASSUME NEW S, IsFiniteSet(S), NEW f, NEW g, \A y \in S : f[y] \in Int /\ f[y] = g[y]
  PROVE  SumFunctionOnSet(f, S) = SumFunctionOnSet(g, S)
<1>. DEFINE F(T) == SumFunctionOnSet(f, T)
            G(T) == SumFunctionOnSet(g, T)
            P == {T \in SUBSET S : F(T) = G(T)}
<1>1. {} \in P
  <2>1. F({}) = 0 /\ G({}) = 0
    BY FS_EmptySet, SumOfSome
  <2>. HIDE DEF F, G
  <2> QED BY <2>1
<1>2. ASSUME NEW T \in SUBSET S, NEW x \in S \ T, T \in P PROVE T \cup {x} \in P
  <2>1. IsFiniteSet(T \cup {x}) /\ x \in T \cup {x} /\ (T \cup {x}) \ {x} = T
    BY <1>2, FS_Subset
  <2>2. F(T \cup {x}) = f[x] + F(T)
    BY <2>1, SumAnyOrder
  <2>3. G(T \cup {x}) = g[x] + G(T)
    BY <2>1, SumAnyOrder
  <2>. HIDE DEF F, G
  <2> QED BY <1>2, <2>2, <2>3
<1>3. S \in P
  <2>. HIDE DEF P
  <2> QED BY <1>1, <1>2, SubsetInduction
<1> QED BY <1>3

\* Naturals add up to a natural, and none is more than the sum.
LEMMA SumOfNaturals ==
  ASSUME NEW S, IsFiniteSet(S), NEW g, \A y \in S : g[y] \in Nat
  PROVE  /\ SumFunctionOnSet(g, S) \in Nat
         /\ \A x \in S : g[x] <= SumFunctionOnSet(g, S)
<1>. DEFINE G(T) == SumFunctionOnSet(g, T)
            P == {T \in SUBSET S : G(T) \in Nat}
<1>1. {} \in P
  <2>1. G({}) = 0
    BY FS_EmptySet, SumOfSome
  <2>. HIDE DEF G
  <2> QED BY <2>1
<1>2. ASSUME NEW T \in SUBSET S, NEW x \in S \ T, T \in P PROVE T \cup {x} \in P
  <2>1. IsFiniteSet(T \cup {x}) /\ x \in T \cup {x} /\ (T \cup {x}) \ {x} = T
    BY <1>2, FS_Subset
  <2>2. G(T \cup {x}) = g[x] + G(T)
    BY <2>1, SumAnyOrder
  <2>. HIDE DEF G
  <2> QED BY <1>2, <2>2
<1>3. ASSUME NEW T \in SUBSET S PROVE G(T) \in Nat
  <2>1. IsFiniteSet(T) /\ \A U \in SUBSET T : U \in SUBSET S
    BY FS_Subset
  <2>2. T \in P
    <3>1. \A U \in SUBSET T : \A x \in T \ U : U \in P => U \cup {x} \in P
      BY <1>2
    <3>. HIDE DEF P
    <3> QED BY <1>1, <2>1, <3>1, SubsetInduction
  <2> QED BY <2>2
<1>4. ASSUME NEW x \in S PROVE g[x] <= G(S)
  <2>1. G(S) = g[x] + G(S \ {x})
    BY SumAnyOrder
  <2>2. G(S \ {x}) \in Nat /\ g[x] \in Nat
    BY <1>3
  <2>. HIDE DEF G
  <2> QED BY <2>1, <2>2
<1> QED BY <1>3, <1>4

\* Floors of the proportional parts of a net are not more than the net together.
LEMMA FloorsFit ==
  ASSUME NEW S, IsFiniteSet(S), NEW w, \A y \in S : w[y] \in Nat, NEW net \in Nat,
         NEW W \in Nat, W > 0, W = SumFunctionOnSet(w, S),
         NEW f, \A y \in S : f[y] = (net * w[y]) \div W
  PROVE  SumFunctionOnSet(f, S) \in Nat /\ SumFunctionOnSet(f, S) <= net
<1>1. ASSUME NEW a \in Nat PROVE (net * a) \div W \in Nat /\ ((net * a) \div W) * W <= net * a
  <2>. DEFINE n == net * a
  <2>1. n \in Nat
    OBVIOUS
  <2>. HIDE DEF n
  <2>2. n \div W \in Int /\ n \div W >= 0
    BY <2>1
  <2>3. (n \div W) * W <= n
    BY <2>1
  <2> QED BY <2>2, <2>3 DEF n
<1>2. \A y \in S : f[y] \in Nat /\ f[y] * W <= net * w[y]
  BY <1>1
<1>. DEFINE F(T) == SumFunctionOnSet(f, T)
            G(T) == SumFunctionOnSet(w, T)
            P == {T \in SUBSET S : F(T) * W <= net * G(T)}
<1>3. {} \in P
  <2>1. F({}) = 0 /\ G({}) = 0
    BY FS_EmptySet, SumOfSome
  <2>. HIDE DEF F, G
  <2> QED BY <2>1
<1>4. ASSUME NEW T \in SUBSET S, NEW x \in S \ T, T \in P PROVE T \cup {x} \in P
  <2>1. IsFiniteSet(T \cup {x}) /\ x \in T \cup {x} /\ (T \cup {x}) \ {x} = T /\ IsFiniteSet(T)
    BY <1>4, FS_Subset
  <2>0. \A y \in S : f[y] \in Int
    BY <1>2
  <2>2. F(T \cup {x}) = f[x] + F(T) /\ F(T) \in Int
    BY <2>0, <2>1, SumAnyOrder
  <2>3. G(T \cup {x}) = w[x] + G(T) /\ G(T) \in Int
    BY <2>1, SumAnyOrder
  <2>4. ASSUME NEW a \in Int, NEW b \in Int, NEW c \in Int, NEW d \in Int,
               a * W <= net * b, c * W <= net * d
        PROVE  (a + c) * W <= net * (b + d)
    <3>1. (a + c) * W = a * W + c * W /\ net * (b + d) = net * b + net * d
      BY Z3
    <3> QED BY <2>4, <3>1
  <2>. HIDE DEF F, G
  <2>5. f[x] \in Int /\ w[x] \in Int /\ f[x] * W <= net * w[x]
    BY <1>2
  <2>6. F(T) * W <= net * G(T)
    BY <1>4
  <2>7. (f[x] + F(T)) * W <= net * (w[x] + G(T))
    BY <2>2, <2>3, <2>4, <2>5, <2>6
  <2> QED BY <2>2, <2>3, <2>7
<1>5. S \in P
  <2>. HIDE DEF P
  <2> QED BY <1>3, <1>4, SubsetInduction
<1>6. F(S) \in Nat /\ F(S) * W <= net * W
  BY <1>2, <1>5, SumOfNaturals
<1>7. ASSUME NEW a \in Nat, a * W <= net * W PROVE a <= net
  <2>1. SUFFICES ASSUME a >= net + 1 PROVE FALSE
    OBVIOUS
  <2>2. a * W >= (net + 1) * W /\ (net + 1) * W = net * W + W
    BY <2>1, Z3
  <2>3. net * W \in Int /\ a * W \in Int
    OBVIOUS
  <2> QED BY <1>7, <2>2, <2>3
<1> QED BY <1>6, <1>7

\* Zeros do not count.
LEMMA SumRestricted ==
  ASSUME NEW S, IsFiniteSet(S), NEW f, \A y \in S : f[y] \in Int,
         NEW T \in SUBSET S, \A y \in S \ T : f[y] = 0
  PROVE  SumFunctionOnSet(f, S) = SumFunctionOnSet(f, T)
<1>. DEFINE F(U) == SumFunctionOnSet(f, U)
            P == {U \in SUBSET (S \ T) : F(T \cup U) = F(T)}
<1>1. {} \in P
  <2>1. T \cup {} = T
    OBVIOUS
  <2> QED BY <2>1
<1>2. ASSUME NEW U \in SUBSET (S \ T), NEW x \in (S \ T) \ U, U \in P PROVE U \cup {x} \in P
  <2>. DEFINE more == T \cup (U \cup {x})
  <2>1. /\ IsFiniteSet(more) /\ x \in more /\ more \ {x} = T \cup U
        /\ \A y \in more : f[y] \in Int
    BY <1>2, FS_Subset
  <2>2. F(more) = f[x] + F(more \ {x}) /\ F(more) \in Int
    <3>. HIDE DEF more
    <3> QED BY <2>1, SumAnyOrder
  <2>3. F(T \cup U) = F(T) /\ f[x] = 0
    BY <1>2
  <2>4. F(T \cup U) \in Int
    <3>1. IsFiniteSet(T \cup U) /\ \A y \in T \cup U : f[y] \in Int
      BY FS_Subset
    <3> QED BY <3>1, SumAnyOrder
  <2>5. F(more) = F(T \cup U)
    <3>1. F(more) = f[x] + F(T \cup U)
      BY <2>1, <2>2
    <3>. HIDE DEF F, more
    <3> QED BY <2>3, <2>4, <3>1
  <2> QED BY <2>3, <2>5
<1>3. S \ T \in P
  <2>1. IsFiniteSet(S \ T)
    BY FS_Subset
  <2>. HIDE DEF P
  <2> QED BY <1>1, <1>2, <2>1, SubsetInduction
<1>4. T \cup (S \ T) = S
  OBVIOUS
<1> QED BY <1>3, <1>4

\* One element of the domain apart from the others.
LEMMA SumSplit ==
  ASSUME NEW S, IsFiniteSet(S), NEW f, DOMAIN f = S, \A y \in S : f[y] \in Int
  PROVE  /\ SumFunction(f) \in Int
         /\ \A T \in SUBSET S : SumFunction([y \in T |-> f[y]]) = SumFunctionOnSet(f, T)
         /\ \A x \in S : SumFunction(f) = f[x] + SumFunction([y \in S \ {x} |-> f[y]])
<1>1. SumFunction(f) = SumFunctionOnSet(f, S)
  BY DEF SumFunction
<1>2. ASSUME NEW T \in SUBSET S
      PROVE  SumFunction([y \in T |-> f[y]]) = SumFunctionOnSet(f, T)
  <2>. DEFINE g == [y \in T |-> f[y]]
  <2>1. SumFunction(g) = SumFunctionOnSet(g, T)
    BY DEF SumFunction
  <2>2. IsFiniteSet(T) /\ \A y \in T : f[y] \in Int /\ f[y] = g[y]
    BY FS_Subset
  <2>3. SumFunctionOnSet(f, T) = SumFunctionOnSet(g, T)
    <3>. HIDE DEF g
    <3> QED BY <2>2, SumAgrees
  <2> QED BY <2>1, <2>3
<1>3. \A x \in S : S \ {x} \in SUBSET S
  OBVIOUS
<1> QED BY <1>1, <1>2, <1>3, SumAnyOrder

\* A function that differs at one place has a sum that differs by that.
LEMMA SumUpdate ==
  ASSUME NEW S, IsFiniteSet(S), NEW f, NEW g, DOMAIN f = S, DOMAIN g = S,
         \A y \in S : f[y] \in Int /\ g[y] \in Int,
         NEW x \in S, \A y \in S \ {x} : f[y] = g[y]
  PROVE  SumFunction(g) = SumFunction(f) - f[x] + g[x]
<1>1. [y \in S \ {x} |-> f[y]] = [y \in S \ {x} |-> g[y]]
  OBVIOUS
<1>. DEFINE rest == SumFunction([y \in S \ {x} |-> f[y]])
<1>2. SumFunction(f) = f[x] + rest /\ SumFunction(g) = g[x] + rest
  <2>1. (\A y \in S : f[y] \in Int) /\ (\A y \in S : g[y] \in Int)
    OBVIOUS
  <2>2. SumFunction(f) = f[x] + SumFunction([y \in S \ {x} |-> f[y]])
    BY <2>1, SumSplit
  <2>3. SumFunction(g) = g[x] + SumFunction([y \in S \ {x} |-> g[y]])
    BY <2>1, SumSplit
  <2> QED BY <1>1, <2>2, <2>3
<1>3. rest \in Int
  <2>1. rest = SumFunctionOnSet(f, S \ {x}) /\ IsFiniteSet(S \ {x})
    BY SumSplit, FS_Subset
  <2>2. \A y \in S \ {x} : f[y] \in Int
    OBVIOUS
  <2>. HIDE DEF rest
  <2> QED BY <2>1, <2>2, SumAnyOrder
<1>. HIDE DEF rest
<1> QED BY <1>2, <1>3

(***************************************************************************)
(* The split of a net.                                                     *)
(***************************************************************************)

\* A set of sobres that is not empty has a heaviest one: a smallest set of
\* sobres that dominate the others has one element.
LEMMA HeaviestIsThere ==
  ASSUME NEW S \in SUBSET Sobres, S # {}
  PROVE  Heaviest(S) \in S
  <1> DEFINE Dominates(A) == \A t \in S : \E a \in A : Weight[t] <= Weight[a]
             T == {A \in SUBSET S : A # {} /\ Dominates(A)}
  <1>0. Weight \in [Sobres -> Nat] /\ IsFiniteSet(S)
    BY CycleCloseAssumption, FS_Subset
  <1>1. S \in T
    BY <1>0
  <1>2. IsWellFoundedOn(StrictSubsetOrdering(S), SUBSET S)
    BY <1>0, FS_StrictSubsetOrderingWellFounded, FS_FiniteSubsetsOfFinite
  <1>3. PICK A \in T : \A B \in T : ~(<<B, A>> \in StrictSubsetOrdering(S))
    <2> HIDE DEF T
    <2>1. T \subseteq SUBSET S
      BY DEF T
    <2> QED BY <1>1, <1>2, <2>1, WFMin
  <1>4. \A a, b \in A : a = b
    <2> SUFFICES ASSUME NEW a \in A, NEW b \in A, a # b, Weight[a] <= Weight[b]
                 PROVE  FALSE
      BY <1>0
    <2>1. A \ {a} \in T
      BY <1>0
    <2>2. <<A \ {a}, A>> \in StrictSubsetOrdering(S)
      BY DEF StrictSubsetOrdering
    <2> QED BY <2>1, <2>2, <1>3
  <1>5. PICK s \in A : TRUE
    OBVIOUS
  <1>6. s \in S /\ \A t \in S : Weight[t] <= Weight[s]
    BY <1>4, <1>5
  <1> QED BY <1>6 DEF Heaviest

\* The floors of the sobres of a member, as one function.
LEMMA Floors ==
  ASSUME NEW m, NEW net \in Nat, TotalWeight(m) > 0
  PROVE  LET floors == [t \in SobresOf(m) |-> FloorShare(net, t)]
         IN /\ IsFiniteSet(SobresOf(m))
            /\ \A t \in SobresOf(m) : floors[t] \in Nat
            /\ SumFunction(floors) \in Nat /\ SumFunction(floors) <= net
<1>. DEFINE mine == SobresOf(m)
            W == TotalWeight(m)
            floors == [t \in mine |-> FloorShare(net, t)]
<1>1. /\ IsFiniteSet(mine) /\ mine \subseteq Sobres
      /\ \A t \in mine : Weight[t] \in Nat /\ Owner[t] = m
  BY CycleCloseAssumption, FS_Subset DEF SobresOf
<1>2. W = SumFunctionOnSet(Weight, mine)
  BY DEF TotalWeight
<1>3. W \in Nat /\ W > 0
  <2>. HIDE DEF W, mine
  <2>1. W \in Nat
    BY <1>1, <1>2, SumOfNaturals
  <2> QED BY <2>1 DEF W
<1>4. \A t \in mine : floors[t] = (net * Weight[t]) \div W
  BY <1>1 DEF FloorShare
<1>5. \A t \in mine : floors[t] \in Nat
  <2>. TAKE t \in mine
  <2>1. floors[t] = (net * Weight[t]) \div W /\ Weight[t] \in Nat
    BY <1>1, <1>4
  <2>. DEFINE n == net * Weight[t]
  <2>2. n \in Nat
    BY <2>1
  <2>. HIDE DEF W, n
  <2>3. n \div W \in Int /\ n \div W >= 0
    BY <1>3, <2>2
  <2> QED BY <2>1, <2>3 DEF n
<1>6. SumFunctionOnSet(floors, mine) \in Nat /\ SumFunctionOnSet(floors, mine) <= net
  <2>. HIDE DEF floors, W, mine
  <2> QED BY <1>1, <1>2, <1>3, <1>4, FloorsFit
<1>7. SumFunction(floors) = SumFunctionOnSet(floors, mine)
  BY DEF SumFunction
<1> QED BY <1>1, <1>5, <1>6, <1>7

\* split_by_weights: no share is negative, and those of a member's sobres are its net to
\* the last colon, unless there is no net or no weight: then they are zero.
LEMMA SharesSplitNet ==
  ASSUME NEW m, NEW net \in Nat
  PROVE  /\ \A s \in SobresOf(m) : Share(net, s) \in Nat
         /\ net > 0 /\ TotalWeight(m) > 0 /\ SobresOf(m) # {} =>
              SumFunction([s \in SobresOf(m) |-> Share(net, s)]) = net
         /\ net = 0 \/ TotalWeight(m) <= 0 => \A s \in SobresOf(m) : Share(net, s) = 0
<1>. DEFINE mine == SobresOf(m)
            floors == [t \in mine |-> FloorShare(net, t)]
            shares == [s \in mine |-> Share(net, s)]
            rest == net - SumFunction(floors)
            first == Heaviest(mine)
<1>0. \A s \in mine : Owner[s] = m
  BY DEF SobresOf
<1>T. TotalWeight(m) \in Nat
  <2>1. IsFiniteSet(mine) /\ \A t \in mine : Weight[t] \in Nat
    BY CycleCloseAssumption, FS_Subset DEF SobresOf
  <2> QED BY <2>1, SumOfNaturals DEF TotalWeight
<1>1. CASE net = 0 \/ TotalWeight(m) <= 0
  <2>1. ASSUME NEW s \in mine PROVE Share(net, s) = 0
    <3>1. net <= 0 \/ TotalWeight(Owner[s]) <= 0
      BY <1>0, <1>1
    <3> QED BY <3>1 DEF Share
  <2>2. ~(net > 0 /\ TotalWeight(m) > 0)
    BY <1>1, <1>T
  <2> QED BY <1>1, <2>1, <2>2
<1>2. CASE ~(net = 0 \/ TotalWeight(m) <= 0) /\ mine # {}
  <2>0. TotalWeight(m) > 0
    BY <1>2, <1>T
  <2>1. /\ IsFiniteSet(mine) /\ \A t \in mine : floors[t] \in Nat
        /\ SumFunction(floors) \in Nat /\ SumFunction(floors) <= net
    BY <2>0, Floors
  <2>2. first \in mine
    BY <1>2, HeaviestIsThere DEF SobresOf
  <2>3. rest \in Nat
    BY <2>1
  <2>4. \A s \in mine : shares[s] = IF s = first THEN floors[s] + rest ELSE floors[s]
    <3>. TAKE s \in mine
    <3>1. Owner[s] = m /\ ~(net <= 0) /\ ~(TotalWeight(m) <= 0)
      BY <1>0, <1>2
    <3>2. Share(net, s) = FloorShare(net, s) + (IF s = first THEN rest ELSE 0)
      BY <3>1 DEF Share
    <3>3. floors[s] = FloorShare(net, s) /\ shares[s] = Share(net, s) /\ floors[s] \in Nat
      BY <2>1
    <3>. HIDE DEF floors, shares, first, rest
    <3> QED BY <3>2, <3>3
  <2>. HIDE DEF rest
  <2>5. \A s \in mine : shares[s] \in Nat
    BY <2>1, <2>3, <2>4
  <2>6. SumFunction(shares) = SumFunction(floors) - floors[first] + shares[first]
    <3>1. DOMAIN floors = mine /\ DOMAIN shares = mine
      OBVIOUS
    <3>. HIDE DEF floors, shares, first, mine
    <3> QED BY <2>1, <2>2, <2>4, <2>5, <3>1, SumUpdate
  <2>7. SumFunction(shares) = net
    <3>1. floors[first] \in Nat /\ shares[first] = floors[first] + rest
      BY <2>1, <2>2, <2>4
    <3>. HIDE DEF floors, shares, first
    <3> QED BY <2>1, <2>3, <2>6, <3>1 DEF rest
  <2> QED BY <1>2, <2>5, <2>7
<1>3. CASE ~(net = 0 \/ TotalWeight(m) <= 0) /\ mine = {}
  BY <1>3
<1> QED BY <1>1, <1>2, <1>3

\* What plan_deposits pays out is the net, if there is a sobre that takes a share.
LEMMA DepositsAddUp ==
  ASSUME NEW m, NEW net \in Nat
  PROVE  /\ IsFiniteSet(PerSobre(m, net)) /\ PerSobre(m, net) \subseteq SobresOf(m)
         /\ PerSobre(m, net) # {} =>
              SumFunction([s \in PerSobre(m, net) |-> Share(net, s)]) = net
         /\ net = 0 => PerSobre(m, net) = {}
<1>. DEFINE mine == SobresOf(m)
            some == PerSobre(m, net)
            shares == [s \in mine |-> Share(net, s)]
<1>1. /\ IsFiniteSet(mine) /\ IsFiniteSet(some) /\ some \in SUBSET mine
      /\ some = {s \in mine : Share(net, s) > 0}
  BY CycleCloseAssumption, FS_Subset DEF SobresOf, PerSobre
<1>2. \A s \in mine : shares[s] \in Nat
  BY SharesSplitNet
<1>3. ASSUME some # {} PROVE SumFunction([s \in some |-> Share(net, s)]) = net
  <2>1. net > 0 /\ TotalWeight(m) > 0 /\ mine # {}
    <3>0. PICK s \in mine : Share(net, s) > 0
      BY <1>1, <1>3
    <3>1. net # 0 /\ ~(TotalWeight(m) <= 0) /\ mine # {}
      <4>1. Share(net, s) # 0
        BY <3>0, SharesSplitNet
      <4> QED BY <3>0, <4>1, SharesSplitNet
    <3>2. TotalWeight(m) \in Nat
      <4>1. \A t \in mine : Weight[t] \in Nat
        BY CycleCloseAssumption DEF SobresOf
      <4> QED BY <1>1, <4>1, SumOfNaturals DEF TotalWeight
    <3> QED BY <3>1, <3>2
  <2>2. SumFunction(shares) = net
    BY <2>1, SharesSplitNet
  <2>3. \A s \in mine \ some : shares[s] = 0
    BY <1>1, <1>2
  <2>4. [s \in some |-> Share(net, s)] = [s \in some |-> shares[s]]
    BY <1>1
  <2>5. DOMAIN shares = mine /\ \A s \in mine : shares[s] \in Int
    BY <1>2
  <2>6. SumFunction(shares) = SumFunctionOnSet(shares, mine)
    BY DEF SumFunction
  <2>. HIDE DEF shares, mine, some
  <2>7. SumFunction([s \in some |-> shares[s]]) = SumFunctionOnSet(shares, some)
    BY <1>1, <2>5, SumSplit
  <2>8. SumFunctionOnSet(shares, mine) = SumFunctionOnSet(shares, some)
    BY <1>1, <2>3, <2>5, SumRestricted
  <2> QED BY <2>2, <2>4, <2>6, <2>7, <2>8
<1>4. net = 0 => some = {}
  <2>1. net = 0 => \A s \in mine : Share(net, s) = 0
    BY SharesSplitNet
  <2> QED BY <1>1, <2>1
<1> QED BY <1>1, <1>3, <1>4

(***************************************************************************)
(* What movements add up to.                                               *)
(***************************************************************************)

\* What Append does to a sequence.
LEMMA Appended ==
  ASSUME NEW S, NEW pages \in Seq(S), NEW e \in S
  PROVE  /\ Append(pages, e) \in Seq(S)
         /\ DOMAIN pages = 1 .. Len(pages) /\ Len(pages) \in Nat
         /\ DOMAIN Append(pages, e) = 1 .. Len(pages) + 1
         /\ \A p \in DOMAIN pages : Append(pages, e)[p] = pages[p]
         /\ Append(pages, e)[Len(pages) + 1] = e
  BY AppendProperties, LenProperties

\* Amounts of movements add up to a number of colones.
LEMMA AmountsAddUp ==
  ASSUME NEW ms \in Seq(Movement), NEW I \in SUBSET DOMAIN ms
  PROVE  /\ IsFiniteSet(I)
         /\ SumFunction([i \in I |-> ms[i].amount]) \in Nat
<1>. DEFINE amounts == [i \in I |-> ms[i].amount]
<1>1. DOMAIN ms = 1..Len(ms) /\ Len(ms) \in Nat /\ \A i \in DOMAIN ms : ms[i].amount \in Nat
  <2>1. DOMAIN ms = 1..Len(ms) /\ Len(ms) \in Nat /\ \A i \in DOMAIN ms : ms[i] \in Movement
    BY LenProperties, ElementOfSeq
  <2> QED BY <2>1 DEF Movement
<1>2. IsFiniteSet(I)
  <2>1. IsFiniteSet(1..Len(ms))
    BY <1>1, FS_Interval
  <2> QED BY <1>1, <2>1, FS_Subset
<1>3. \A i \in I : amounts[i] \in Nat
  BY <1>1
<1>4. SumFunction(amounts) = SumFunctionOnSet(amounts, I)
  BY DEF SumFunction
<1>. HIDE DEF amounts
<1>5. SumFunctionOnSet(amounts, I) \in Nat
  BY <1>2, <1>3, SumOfNaturals
<1> QED BY <1>2, <1>4, <1>5 DEF amounts

\* A movement at the end adds its amount to a sum it is in.
LEMMA AmountAdded ==
  ASSUME NEW ms \in Seq(Movement), NEW v \in Movement, NEW I \in SUBSET DOMAIN ms
  PROVE  LET more == Append(ms, v)
             new == Len(ms) + 1
             sum == SumFunction([i \in I |-> ms[i].amount])
         IN /\ SumFunction([i \in I |-> more[i].amount]) = sum
            /\ SumFunction([i \in I \cup {new} |-> more[i].amount]) = sum + v.amount
<1>. DEFINE more == Append(ms, v)
            new == Len(ms) + 1
            J == I \cup {new}
            amounts == [i \in J |-> more[i].amount]
<1>1. /\ more \in Seq(Movement) /\ DOMAIN ms = 1..Len(ms) /\ Len(ms) \in Nat
      /\ DOMAIN more = 1..new /\ more[new] = v
      /\ \A i \in DOMAIN ms : more[i] = ms[i]
  BY Appended
<1>2. J \in SUBSET DOMAIN more /\ new \notin I /\ J \ {new} = I /\ new \in J
  BY <1>1
<1>3. [i \in I |-> more[i].amount] = [i \in I |-> ms[i].amount]
  BY <1>1
<1>. DEFINE old == [i \in I |-> ms[i].amount]
<1>4. IsFiniteSet(I) /\ SumFunction(old) \in Nat /\ IsFiniteSet(J)
  <2>1. IsFiniteSet(J)
    <3>. HIDE DEF more, J
    <3> QED BY <1>1, <1>2, AmountsAddUp
  <2> QED BY <2>1, AmountsAddUp
<1>5. \A i \in J : amounts[i] \in Int
  <2>1. \A i \in DOMAIN ms : ms[i] \in Movement
    BY LenProperties, ElementOfSeq
  <2>2. \A i \in DOMAIN more : more[i] \in Movement
    BY <1>1, <2>1
  <2>. HIDE DEF more
  <2> QED BY <1>2, <2>2 DEF Movement
<1>6. amounts[new] = v.amount /\ v.amount \in Nat /\ \A i \in I : amounts[i] = old[i]
  BY <1>1, <1>2 DEF Movement
<1>7. SumFunction(amounts) = SumFunctionOnSet(amounts, J)
      /\ SumFunction(old) = SumFunctionOnSet(old, I)
  BY DEF SumFunction
<1>8. SumFunction(amounts) = SumFunction(old) + v.amount
  <2>. HIDE DEF amounts, old, J, new
  <2>1. SumFunctionOnSet(amounts, J) = amounts[new] + SumFunctionOnSet(amounts, J \ {new})
    BY <1>2, <1>4, <1>5, SumAnyOrder
  <2>2. \A i \in I : amounts[i] \in Int /\ amounts[i] = old[i]
    BY <1>2, <1>5, <1>6
  <2>3. SumFunctionOnSet(amounts, I) = SumFunctionOnSet(old, I)
    BY <1>4, <2>2, SumAgrees
  <2>4. SumFunction(amounts) = v.amount + SumFunction(old)
    <3>1. SumFunctionOnSet(amounts, J \ {new}) = SumFunctionOnSet(old, I)
      BY <1>2, <2>3
    <3> QED BY <1>6, <1>7, <2>1, <3>1
  <2> QED BY <1>4, <1>6, <2>4
<1> QED BY <1>3, <1>8

\* A movement of a Corte is more of what was moved, and of that only.
LEMMA MovedMore ==
  ASSUME movs \in Seq(Movement), NEW v \in Movement, movs' = Append(movs, v),
         NEW page, NEW to
  PROVE  /\ Moved(page, to) \in Nat
         /\ Moved(page, to)' = Moved(page, to)
                               + (IF v.corte = page /\ v.to = to THEN v.amount ELSE 0)
<1>. DEFINE I == MovesTo(page, to)
            new == Len(movs) + 1
<1>1. /\ DOMAIN movs = 1..Len(movs) /\ Len(movs) \in Nat
      /\ DOMAIN movs' = 1..new /\ movs'[new] = v
      /\ \A i \in DOMAIN movs : movs'[i] = movs[i]
  BY Appended
<1>2. I \in SUBSET DOMAIN movs
  BY DEF MovesTo
<1>3. MovesTo(page, to)' = IF v.corte = page /\ v.to = to THEN I \cup {new} ELSE I
  <2>1. MovesTo(page, to)' = {i \in DOMAIN movs' : movs'[i].corte = page /\ movs'[i].to = to}
    BY DEF MovesTo
  <2>2. DOMAIN movs' = DOMAIN movs \cup {new}
    BY <1>1
  <2> QED BY <1>1, <2>1, <2>2 DEF MovesTo
<1>4. Moved(page, to) = SumFunction([i \in I |-> movs[i].amount])
  BY DEF Moved
<1>5. Moved(page, to)' = SumFunction([i \in MovesTo(page, to)' |-> movs'[i].amount])
  BY DEF Moved
<1>6. Moved(page, to) \in Nat
  BY <1>2, <1>4, AmountsAddUp
<1>7. /\ SumFunction([i \in I |-> movs'[i].amount]) = Moved(page, to)
      /\ SumFunction([i \in I \cup {new} |-> movs'[i].amount]) = Moved(page, to) + v.amount
  <2>. HIDE DEF I
  <2>. DEFINE more == Append(movs, v)
  <2>1. /\ SumFunction([i \in I |-> more[i].amount]) = SumFunction([i \in I |-> movs[i].amount])
        /\ SumFunction([i \in I \cup {new} |-> more[i].amount])
             = SumFunction([i \in I |-> movs[i].amount]) + v.amount
    BY <1>2, AmountAdded
  <2>2. movs' = more
    OBVIOUS
  <2>. HIDE DEF more, new
  <2> QED BY <1>4, <2>1, <2>2
<1>8. CASE v.corte = page /\ v.to = to
  BY <1>3, <1>5, <1>6, <1>7, <1>8
<1>9. CASE ~(v.corte = page /\ v.to = to)
  <2>1. Moved(page, to)' = Moved(page, to)
    BY <1>3, <1>5, <1>7, <1>9
  <2> QED BY <1>6, <1>9, <2>1
<1> QED BY <1>8, <1>9

\* What was moved for a Corte is a number of colones, none if nothing is linked to it.
LEMMA MovedIsNat ==
  ASSUME movs \in Seq(Movement), NEW page
  PROVE  /\ \A to : Moved(page, to) \in Nat
         /\ MovedToSobres(page) \in Nat
         /\ ~Linked(page) => MovedToSobres(page) = 0 /\ \A to : Moved(page, to) = 0
<1>1. ASSUME NEW to PROVE Moved(page, to) \in Nat
  <2>1. MovesTo(page, to) \in SUBSET DOMAIN movs
    BY DEF MovesTo
  <2> QED BY <2>1, AmountsAddUp DEF Moved
<1>. DEFINE moved == [s \in Sobres |-> Moved(page, s)]
<1>2. /\ IsFiniteSet(Sobres) /\ \A s \in Sobres : moved[s] \in Nat
      /\ MovedToSobres(page) = SumFunctionOnSet(moved, Sobres)
  BY <1>1, CycleCloseAssumption DEF MovedToSobres, SumFunction
<1>3. MovedToSobres(page) \in Nat
  <2>. HIDE DEF moved
  <2> QED BY <1>2, SumOfNaturals
<1>4. ASSUME ~Linked(page) PROVE MovedToSobres(page) = 0 /\ \A to : Moved(page, to) = 0
  <2>1. ASSUME NEW to PROVE Moved(page, to) = 0
    <3>1. MovesTo(page, to) = {}
      BY <1>4 DEF MovesTo, Linked
    <3>2. Moved(page, to) = SumFunction([i \in {} |-> movs[i].amount])
      BY <3>1 DEF Moved
    <3>. DEFINE none == [i \in {} |-> movs[i].amount]
    <3>3. SumFunction(none) = SumFunctionOnSet(none, {})
      BY DEF SumFunction
    <3>. HIDE DEF none
    <3>4. SumFunctionOnSet(none, {}) = 0
      BY FS_EmptySet, SumOfSome
    <3> QED BY <3>2, <3>3, <3>4 DEF none
  <2>2. \A s \in Sobres \ {} : moved[s] = 0
    BY <2>1
  <2>3. SumFunctionOnSet(moved, {}) = 0
    <3>. HIDE DEF moved
    <3> QED BY FS_EmptySet, SumOfSome
  <2>4. SumFunctionOnSet(moved, Sobres) = SumFunctionOnSet(moved, {})
    <3>1. \A s \in Sobres : moved[s] \in Int
      BY <1>2
    <3>2. {} \in SUBSET Sobres
      OBVIOUS
    <3>. HIDE DEF moved
    <3> QED BY <1>2, <2>2, <3>1, <3>2, SumRestricted
  <2> QED BY <1>2, <2>1, <2>3, <2>4
<1> QED BY <1>1, <1>3, <1>4

\* The same of what its sobres got.
LEMMA SobresGetMore ==
  ASSUME movs \in Seq(Movement), NEW v \in Movement, movs' = Append(movs, v), NEW page
  PROVE  MovedToSobres(page)' = MovedToSobres(page)
                                + (IF v.corte = page /\ v.to \in Sobres THEN v.amount ELSE 0)
<1>. DEFINE old == [s \in Sobres |-> Moved(page, s)]
            new == [s \in Sobres |-> Moved(page, s)']
<1>1. \A s \in Sobres : /\ old[s] \in Nat
                        /\ new[s] = old[s] + (IF v.corte = page /\ v.to = s THEN v.amount ELSE 0)
  BY MovedMore
<1>2. v.amount \in Nat
  BY DEF Movement
<1>3. /\ MovedToSobres(page) = SumFunction(old) /\ MovedToSobres(page)' = SumFunction(new)
      /\ IsFiniteSet(Sobres) /\ DOMAIN old = Sobres /\ DOMAIN new = Sobres
      /\ MovedToSobres(page) \in Nat
  <2>1. MovedToSobres(page)' = SumFunction(new)
    BY DEF MovedToSobres
  <2> QED BY <2>1, CycleCloseAssumption, MovedIsNat DEF MovedToSobres
<1>. HIDE DEF old, new
<1>4. CASE v.corte = page /\ v.to \in Sobres
  <2>1. /\ \A s \in Sobres \ {v.to} : old[s] = new[s]
        /\ new[v.to] = old[v.to] + v.amount
        /\ \A s \in Sobres : old[s] \in Int /\ new[s] \in Int
    BY <1>1, <1>2, <1>4
  <2>2. SumFunction(new) = SumFunction(old) - old[v.to] + new[v.to]
    BY <1>3, <1>4, <2>1, SumUpdate
  <2>3. SumFunction(new) = SumFunction(old) + v.amount
    <3>1. SumFunction(old) \in Nat /\ old[v.to] \in Nat
      BY <1>1, <1>3, <1>4
    <3> QED BY <1>2, <2>1, <2>2, <3>1
  <2> QED BY <1>3, <1>4, <2>3
<1>5. CASE ~(v.corte = page /\ v.to \in Sobres)
  <2>1. \A s \in Sobres : new[s] = old[s]
    BY <1>1, <1>5
  <2>2. new = old
    BY <2>1 DEF new, old
  <2> QED BY <1>3, <1>5, <2>2
<1> QED BY <1>4, <1>5

\* And of what a sobre got in all.
Transferred(s) == SumFunction([i \in TransfersTo(s) |-> movs[i].amount])

\* A movement to a sobre is more of what it got, one to another place is not.
LEMMA SobreGetsMore ==
  ASSUME movs \in Seq(Movement), NEW v \in Movement, movs' = Append(movs, v), NEW s
  PROVE  /\ Transferred(s) \in Nat
         /\ Transferred(s)' = Transferred(s) + (IF v.to = s THEN v.amount ELSE 0)
<1>. DEFINE I == TransfersTo(s)
            new == Len(movs) + 1
            more == Append(movs, v)
<1>1. /\ DOMAIN movs = 1..Len(movs) /\ Len(movs) \in Nat
      /\ DOMAIN movs' = 1..new /\ movs'[new] = v
      /\ \A i \in DOMAIN movs : movs'[i] = movs[i]
  BY Appended
<1>2. I \in SUBSET DOMAIN movs
  BY DEF TransfersTo
<1>3. TransfersTo(s)' = IF v.to = s THEN I \cup {new} ELSE I
  <2>1. TransfersTo(s)' = {i \in DOMAIN movs' : movs'[i].to = s}
    BY DEF TransfersTo
  <2>2. DOMAIN movs' = DOMAIN movs \cup {new}
    BY <1>1
  <2> QED BY <1>1, <2>1, <2>2 DEF TransfersTo
<1>4. /\ Transferred(s) = SumFunction([i \in I |-> movs[i].amount])
      /\ Transferred(s) \in Nat
  BY <1>2, AmountsAddUp DEF Transferred
<1>5. Transferred(s)' = SumFunction([i \in TransfersTo(s)' |-> movs'[i].amount])
  BY DEF Transferred
<1>6. /\ SumFunction([i \in I |-> movs'[i].amount]) = Transferred(s)
      /\ SumFunction([i \in I \cup {new} |-> movs'[i].amount]) = Transferred(s) + v.amount
  <2>. HIDE DEF I
  <2>1. /\ SumFunction([i \in I |-> more[i].amount]) = SumFunction([i \in I |-> movs[i].amount])
        /\ SumFunction([i \in I \cup {new} |-> more[i].amount])
             = SumFunction([i \in I |-> movs[i].amount]) + v.amount
    BY <1>2, AmountAdded
  <2>2. movs' = more
    OBVIOUS
  <2>. HIDE DEF more, new
  <2> QED BY <1>4, <2>1, <2>2
<1>7. CASE v.to = s
  BY <1>3, <1>4, <1>5, <1>6, <1>7
<1>8. CASE v.to # s
  <2>1. Transferred(s)' = Transferred(s)
    BY <1>3, <1>5, <1>6, <1>8
  <2> QED BY <1>4, <1>8, <2>1
<1> QED BY <1>7, <1>8

(***************************************************************************)
(* What there is of types in the argument.                                 *)
(***************************************************************************)

Locals == {"nets", "known", "saldos", "todo", "member", "page", "left"}

Shape ==
  /\ agenda \in [Members -> Nets]
  /\ cortes \in Seq(Corte)
  /\ movs \in Seq(Movement)
  /\ DOMAIN job = Locals
  /\ job.known \in Seq(Corte)
  /\ job.todo \subseteq Members /\ job.left \subseteq Sobres
  /\ job.member \in Members /\ job.page \in Nat
  /\ pc \notin {"idle", "failed", "agenda"} => job.nets \in [Members -> Nets]
  /\ pc \in {"saldo", "transfer"} => job.left # {}

\* The local variables of no run.
LEMMA NoLocalsShape ==
  /\ DOMAIN NoLocals = Locals
  /\ NoLocals.known \in Seq(Corte)
  /\ NoLocals.todo = {} /\ NoLocals.left = {}
  /\ NoLocals.member \in Members /\ NoLocals.page \in Nat
  BY CycleCloseAssumption DEF NoLocals, Locals

\* Setting Pagado changes nothing else of the Cortes.
LEMMA PagadoCorte ==
  ASSUME cortes \in Seq(Corte), NEW p \in Nat
  PROVE  LET new == [cortes EXCEPT ![p].pagado = TRUE] IN
         /\ new \in Seq(Corte)
         /\ DOMAIN new = DOMAIN cortes
         /\ \A q \in DOMAIN cortes : /\ new[q].member = cortes[q].member
                                     /\ new[q].net = cortes[q].net
                                     /\ new[q].pagado = (q = p \/ cortes[q].pagado)
  <1> DEFINE new == [cortes EXCEPT ![p].pagado = TRUE]
  <1>1. /\ Len(cortes) \in Nat /\ cortes \in [1 .. Len(cortes) -> Corte]
        /\ DOMAIN cortes = 1 .. Len(cortes)
    BY LenProperties
  <1>2. new \in [1 .. Len(cortes) -> Corte]
    BY <1>1 DEF Corte
  <1>3. new \in Seq(Corte)
    BY <1>1, <1>2, IsASeq
  <1>4. ASSUME NEW q \in DOMAIN cortes
        PROVE  /\ new[q].member = cortes[q].member /\ new[q].net = cortes[q].net
               /\ new[q].pagado = (q = p \/ cortes[q].pagado)
    <2>1. cortes[q] \in Corte
      BY <1>1
    <2>2. CASE q = p
      <3>1. new[q] = [cortes[q] EXCEPT !.pagado = TRUE]
        BY <1>1, <2>2
      <3> QED BY <2>1, <2>2, <3>1 DEF Corte
    <2>3. CASE q # p
      <3>1. new[q] = cortes[q]
        BY <1>1, <2>3
      <3>. HIDE DEF new
      <3>2. (q = p \/ cortes[q].pagado) = cortes[q].pagado
        BY <2>1, <2>3 DEF Corte
      <3> QED BY <3>1, <3>2
    <2> QED BY <2>2, <2>3
  <1> QED BY <1>1, <1>2, <1>3, <1>4

\* What the deposits write.
LEMMA DepositTypes ==
  ASSUME Shape
  PROVE  /\ pc \notin {"idle", "failed", "agenda"} => Net \in Nets
         /\ pc = "income"
              => [corte |-> job.page, to |-> "income", amount |-> Net] \in Movement
         /\ pc = "transfer"
              => /\ NextSobre \in job.left /\ NextSobre \in Sobres /\ NextSobre # "income"
                 /\ [corte |-> job.page, to |-> NextSobre,
                     amount |-> Share(Net, NextSobre)] \in Movement
  <1>1. ASSUME pc \notin {"idle", "failed", "agenda"} PROVE Net \in Nets
    BY <1>1 DEF Shape, Net
  <1>2. ASSUME pc = "income"
        PROVE  [corte |-> job.page, to |-> "income", amount |-> Net] \in Movement
    <2>1. Net \in Nat
      BY <1>1, <1>2, CycleCloseAssumption
    <2> QED BY <2>1 DEF Shape, Movement
  <1>3. ASSUME pc = "transfer"
        PROVE  /\ NextSobre \in job.left /\ NextSobre \in Sobres /\ NextSobre # "income"
               /\ [corte |-> job.page, to |-> NextSobre,
                   amount |-> Share(Net, NextSobre)] \in Movement
    <2> DEFINE s == NextSobre
    <2>1. s \in job.left /\ s \in Sobres
      BY <1>3, HeaviestIsThere DEF Shape, NextSobre
    <2>2. Share(Net, s) \in Nat
      <3>1. Net \in Nat /\ s \in SobresOf(Owner[s])
        BY <1>1, <1>3, <2>1, CycleCloseAssumption DEF SobresOf
      <3> QED BY <3>1, SharesSplitNet
    <2> HIDE DEF s
    <2>3. s # "income"
      BY <2>1, CycleCloseAssumption
    <2> QED BY <2>1, <2>2, <2>3 DEF Shape, Movement, s
  <1> QED BY <1>1, <1>2, <1>3

\* Every step keeps the shape of the state.
LEMMA NextShape ==
  ASSUME Shape, [Next]_vars
  PROVE  Shape'
  <1> USE DEF notion, counters
  <1>SharesType. ASSUME NEW m, NEW n PROVE PerSobre(m, n) \subseteq Sobres
    BY <1>SharesType DEF PerSobre, SobresOf
  <1>1. CASE Start
    BY <1>1 DEF Start, Shape
  <1>2. CASE Restart
    BY <1>2 DEF Restart, Shape
  <1>3. CASE LoadAgenda
    BY <1>3 DEF LoadAgenda, Set, Shape, Locals
  <1>4. CASE LoadCortes
    BY <1>4 DEF LoadCortes, Set, Shape, Locals
  <1>5. CASE LoadSobres
    BY <1>5 DEF LoadSobres, Shape, Locals
  <1>6. ASSUME NEW m \in Members, CreateCorte(m) PROVE Shape'
    <2>1. [member |-> m, net |-> job.nets[m], pagado |-> FALSE] \in Corte
      BY <1>6 DEF CreateCorte, Shape, Corte
    <2>2. cortes' \in Seq(Corte) /\ Len(cortes) + 1 \in Nat
      BY <1>6, <2>1, Appended DEF CreateCorte, Shape
    <2> QED BY <1>6, <2>2 DEF CreateCorte, Shape, Locals
  <1>7. ASSUME NEW m \in Members, NEW page \in DOMAIN job.known, Reuse(m, page)
        PROVE  Shape'
    <2>1. page \in Nat
      BY LenProperties DEF Shape
    <2>2. CASE Distribute /\ ~job.known[page].pagado
      BY <1>7, <2>1, <2>2 DEF Reuse, Shape, Locals
    <2>3. CASE ~(Distribute /\ ~job.known[page].pagado)
      <3>1. /\ pc = "next" /\ pc' = "next" /\ UNCHANGED <<agenda, cortes, movs>>
            /\ job' = [job EXCEPT !.member = m, !.page = page, !.todo = job.todo \ {m}]
        BY <1>7, <2>3 DEF Reuse
      <3>2. /\ DOMAIN job' = Locals /\ job'.nets = job.nets /\ job'.known = job.known
            /\ job'.left = job.left /\ job'.todo = job.todo \ {m}
            /\ job'.member = m /\ job'.page = page
        BY <3>1 DEF Shape, Locals
      <3> QED BY <2>1, <3>1, <3>2 DEF Shape
    <2> QED BY <2>2, <2>3
  <1>8. CASE CheckDeposit
    BY <1>8 DEF CheckDeposit, Check, Shape
  <1>9. CASE RecordIncome
    <2>1. movs' \in Seq(Movement)
      BY <1>9, DepositTypes, Appended DEF RecordIncome, Income, Shape
    <2> QED BY <1>9, <2>1, <1>SharesType DEF RecordIncome, Income, Set, Shape, Locals
  <1>10. CASE SetSaldo
    BY <1>10 DEF SetSaldo, NewSaldo, Shape
  <1>11. CASE RecordTransfer
    <2>1. movs' \in Seq(Movement)
      BY <1>11, DepositTypes, Appended DEF RecordTransfer, Shape
    <2>2. job' = [job EXCEPT !["left"] = job.left \ {NextSobre}]
      BY <1>11 DEF RecordTransfer, Set
    <2>3. pc' = IF job.left = {NextSobre} THEN "pagado" ELSE "saldo"
      BY <1>11 DEF RecordTransfer
    <2>4. NextSobre \in job.left
      BY <1>11, DepositTypes DEF RecordTransfer
    <2> QED BY <1>11, <2>1, <2>2, <2>3, <2>4 DEF RecordTransfer, Shape, Locals
  <1>12. CASE SetPagado
    <2>1. cortes' \in Seq(Corte)
      BY <1>12, PagadoCorte DEF SetPagado, Shape
    <2> QED BY <1>12, <2>1 DEF SetPagado, NextMember, Set, Shape, Locals
  <1>13. CASE Finish
    BY <1>13, NoLocalsShape DEF Finish, Shape
  <1>14. CASE Crash
    BY <1>14, NoLocalsShape DEF Crash, Shape
  <1>15. ASSUME NEW m \in Members, EditAgenda(m) PROVE Shape'
    BY <1>15 DEF EditAgenda, Shape
  <1>16. ASSUME NEW s \in Sobres, Spend(s) PROVE Shape'
    BY <1>16 DEF Spend, Shape
  <1>17. CASE UNCHANGED vars
    BY <1>17 DEF vars, Shape
  <1> QED
    BY <1>1, <1>2, <1>3, <1>4, <1>5, <1>6, <1>7, <1>8, <1>9, <1>10, <1>11, <1>12,
       <1>13, <1>14, <1>15, <1>16, <1>17 DEF Next, Step, People

(***************************************************************************)
(* The inductive invariant.                                                *)
(***************************************************************************)

\* Every step keeps the inductive invariant.
LEMMA NextInv ==
  ASSUME Shape, InductiveInv, [Next]_vars
  PROVE  InductiveInv'
  <1> USE DEF notion, counters
  \* A step that leaves Cortes, movements and the local variables the invariant is
  \* about alone, and goes nowhere it says more of.
  <1>QuietStep. ASSUME InductiveInv, UNCHANGED <<cortes, movs>>,
                       /\ job'.known = job.known /\ job'.todo = job.todo
                       /\ job'.member = job.member /\ job'.page = job.page,
                       \/ pc' = pc
                       \/ pc' \in {"idle", "failed", "agenda", "cortes"}
                       \/ Settling /\ pc' \in {"saldo", "transfer", "pagado"}
                PROVE  InductiveInv'
    BY <1>QuietStep
    DEF InductiveInv, KnownIsTrue, UnknownIsOwn, OwnPage, UniqueCortes, UniqueIncomes,
        LinksExist, NothingPaidYet, Loaded, Settling, Linked
  \* The run is over, or starts: what it knew is gone.
  <1>OutsideStep. ASSUME InductiveInv, UNCHANGED <<cortes, movs>>,
                         pc' \in {"idle", "failed", "agenda", "cortes"}
                  PROVE  InductiveInv'
    BY <1>OutsideStep
    DEF InductiveInv, KnownIsTrue, UnknownIsOwn, OwnPage, UniqueCortes, UniqueIncomes,
        LinksExist, NothingPaidYet, Loaded, Settling
  \* One more movement of the Corte the run is at: an income only if it is the first.
  <1>MovementInv. ASSUME Shape, InductiveInv, NEW v \in Movement, movs' = Append(movs, v),
                         v.corte = job.page, v.to = "income" => pc = "income",
                         Settling, pc' \in {"saldo", "pagado"}, cortes' = cortes,
                         /\ job'.known = job.known /\ job'.todo = job.todo
                         /\ job'.member = job.member /\ job'.page = job.page
                  PROVE  InductiveInv'
    <2> USE <1>MovementInv
    <2> DEFINE new == Len(movs) + 1
    <2>1. /\ DOMAIN movs = 1 .. Len(movs) /\ Len(movs) \in Nat
          /\ DOMAIN movs' = 1 .. new
          /\ \A i \in DOMAIN movs : movs'[i] = movs[i]
          /\ movs'[new] = v
      BY Appended DEF Shape
    <2>2. DOMAIN movs' = DOMAIN movs \cup {new}
      BY <2>1
    <2> HIDE DEF new
    <2>3. v.to = "income" => \A i \in DOMAIN movs : movs[i].corte # v.corte
      BY DEF InductiveInv, NothingPaidYet, Linked
    <2>4. UniqueIncomes'
      BY <2>1, <2>2, <2>3 DEF InductiveInv, UniqueIncomes
    <2>5. LinksExist'
      BY <2>1, <2>2 DEF InductiveInv, LinksExist, OwnPage
    <2> QED
      BY <2>4, <2>5 DEF InductiveInv, KnownIsTrue, UnknownIsOwn, OwnPage, UniqueCortes,
                        NothingPaidYet, Loaded, Settling
  <1>LoadCortesInv. ASSUME Shape, InductiveInv, LoadCortes PROVE InductiveInv'
    <2> USE <1>LoadCortesInv
    <2>1. job'.known = cortes /\ pc' = "sobres" /\ cortes' = cortes /\ movs' = movs
      BY DEF LoadCortes, Set, Shape, Locals, notion
    <2> QED
      BY <2>1 DEF InductiveInv, KnownIsTrue, UnknownIsOwn, OwnPage, UniqueCortes,
                  UniqueIncomes, LinksExist, NothingPaidYet, Loaded, Settling
  <1>LoadSobresInv. ASSUME Shape, InductiveInv, LoadSobres PROVE InductiveInv'
    <2> USE <1>LoadSobresInv
    <2>1. /\ job'.known = job.known /\ pc = "sobres" /\ pc' = "next"
          /\ cortes' = cortes /\ movs' = movs
      BY DEF LoadSobres, Shape, Locals, notion
    <2> QED
      BY <2>1 DEF InductiveInv, KnownIsTrue, UnknownIsOwn, OwnPage, UniqueCortes,
                  UniqueIncomes, LinksExist, NothingPaidYet, Loaded, Settling
  <1>ReuseInv. ASSUME Shape, InductiveInv, NEW m \in Members, NEW page \in DOMAIN job.known,
                      Reuse(m, page)
               PROVE  InductiveInv'
    <2> USE <1>ReuseInv
    <2>1. /\ pc = "next" /\ m \in job.todo /\ job.known[page].member = m
          /\ cortes' = cortes /\ movs' = movs
      BY DEF Reuse, notion
    <2>2. page \in DOMAIN cortes /\ cortes[page].member = m
      BY <2>1 DEF InductiveInv, KnownIsTrue, Loaded
    <2>3. CASE Distribute /\ ~job.known[page].pagado
      <3>1. /\ pc' = "deposit" /\ job'.known = job.known /\ job'.todo = job.todo
            /\ job'.member = m /\ job'.page = page
        BY <2>3 DEF Reuse, Shape, Locals
      <3> QED
        BY <2>1, <2>2, <3>1
        DEF InductiveInv, KnownIsTrue, UnknownIsOwn, OwnPage, UniqueCortes,
            UniqueIncomes, LinksExist, NothingPaidYet, Loaded, Settling
    <2>4. CASE ~(Distribute /\ ~job.known[page].pagado)
      <3>1. /\ pc' = "next" /\ job'.known = job.known /\ job'.todo = job.todo \ {m}
        BY <2>4 DEF Reuse, Shape, Locals
      <3> QED
        BY <2>1, <3>1
        DEF InductiveInv, KnownIsTrue, UnknownIsOwn, OwnPage, UniqueCortes,
            UniqueIncomes, LinksExist, NothingPaidYet, Loaded, Settling
    <2> QED BY <2>3, <2>4
  \* The member has no Corte: it would be one the run knows of.
  <1>CreateCorteInv. ASSUME Shape, InductiveInv, NEW m \in Members, CreateCorte(m)
                     PROVE  InductiveInv'
    <2> USE <1>CreateCorteInv
    <2> DEFINE c == [member |-> m, net |-> job.nets[m], pagado |-> FALSE]
               new == Len(cortes) + 1
    <2>1. /\ pc = "next" /\ m \in job.todo /\ movs' = movs
          /\ cortes' = Append(cortes, c)
          /\ \A page \in DOMAIN job.known : job.known[page].member # m
      BY DEF CreateCorte
    <2>2. c \in Corte /\ c.member = m
      BY <2>1 DEF Shape, Corte
    <2> HIDE DEF c
    <2>3. /\ DOMAIN cortes = 1 .. Len(cortes) /\ Len(cortes) \in Nat
          /\ DOMAIN cortes' = 1 .. new
          /\ \A p \in DOMAIN cortes : cortes'[p] = cortes[p]
          /\ cortes'[new] = c
      BY <2>1, <2>2, Appended DEF Shape
    <2>4. \A p \in DOMAIN cortes : cortes[p].member # m
      BY <2>1 DEF InductiveInv, UnknownIsOwn, KnownIsTrue, Loaded, Settling
    <2>5. DOMAIN cortes' = DOMAIN cortes \cup {new} /\ new \notin DOMAIN cortes
      BY <2>3
    <2> HIDE DEF new
    <2>6. /\ job'.known = job.known /\ job'.page = new /\ job'.member = m
          /\ \/ pc' = "deposit" /\ job'.todo = job.todo
             \/ pc' = "next" /\ job'.todo = job.todo \ {m}
      <3>1. CASE Distribute
        BY <3>1 DEF CreateCorte, Shape, Locals, new
      <3>2. CASE ~Distribute
        BY <3>2 DEF CreateCorte, Shape, Locals, new
      <3> QED BY <3>1, <3>2
    <2>7. KnownIsTrue'
      BY <2>1, <2>3, <2>5, <2>6 DEF InductiveInv, KnownIsTrue, Loaded
    <2>8. UnknownIsOwn'
      BY <2>1, <2>2, <2>3, <2>5, <2>6 DEF InductiveInv, UnknownIsOwn, Settling
    <2>9. OwnPage'
      BY <2>2, <2>3, <2>5, <2>6 DEF OwnPage, Settling
    <2>10. UniqueCortes'
      BY <2>2, <2>3, <2>4, <2>5 DEF InductiveInv, UniqueCortes
    <2>11. UniqueIncomes' /\ LinksExist' /\ NothingPaidYet'
      BY <2>1, <2>5, <2>6 DEF InductiveInv, UniqueIncomes, LinksExist, NothingPaidYet
    <2> QED BY <2>7, <2>8, <2>9, <2>10, <2>11 DEF InductiveInv
  <1>CheckDepositInv. ASSUME Shape, InductiveInv, CheckDeposit PROVE InductiveInv'
    <2> USE <1>CheckDepositInv
    <2>1. /\ pc = "deposit" /\ UNCHANGED <<cortes, movs, job>>
          /\ pc' = "pagado" \/ (pc' = "income" /\ ~Linked(job.page))
      BY DEF CheckDeposit, Check, notion
    <2> QED
      BY <2>1 DEF InductiveInv, KnownIsTrue, UnknownIsOwn, OwnPage, UniqueCortes,
                  UniqueIncomes, LinksExist, NothingPaidYet, Loaded, Settling, Linked
  <1>RecordIncomeInv. ASSUME Shape, InductiveInv, RecordIncome PROVE InductiveInv'
    <2> USE <1>RecordIncomeInv
    <2> DEFINE v == [corte |-> job.page, to |-> "income", amount |-> Net]
    <2>1. /\ pc = "income" /\ movs' = Append(movs, v) /\ cortes' = cortes
          /\ pc' \in {"saldo", "pagado"}
      BY DEF RecordIncome, Income
    <2>2. v \in Movement /\ v.corte = job.page
      BY <2>1, DepositTypes
    <2>3. /\ job'.known = job.known /\ job'.todo = job.todo
          /\ job'.member = job.member /\ job'.page = job.page
      BY DEF RecordIncome, Income, Set, Shape, Locals
    <2> HIDE DEF v
    <2> QED BY <2>1, <2>2, <2>3, <1>MovementInv DEF Settling
  <1>RecordTransferInv. ASSUME Shape, InductiveInv, RecordTransfer PROVE InductiveInv'
    <2> USE <1>RecordTransferInv
    <2> DEFINE s == NextSobre
               v == [corte |-> job.page, to |-> s, amount |-> Share(Net, s)]
    <2>1. /\ pc = "transfer" /\ movs' = Append(movs, v) /\ cortes' = cortes
          /\ pc' \in {"saldo", "pagado"} /\ Set("left", job.left \ {s})
      BY DEF RecordTransfer
    <2>2. v \in Movement /\ s # "income"
      BY <2>1, DepositTypes
    <2> HIDE DEF s
    <2>3. /\ job'.known = job.known /\ job'.todo = job.todo
          /\ job'.member = job.member /\ job'.page = job.page
      BY <2>1 DEF Set, Shape, Locals
    <2>4. v.corte = job.page /\ v.to # "income"
      BY <2>2
    <2> HIDE DEF v
    <2> QED BY <2>1, <2>2, <2>3, <2>4, <1>MovementInv DEF Settling
  <1>SetPagadoInv. ASSUME Shape, InductiveInv, SetPagado PROVE InductiveInv'
    <2> USE <1>SetPagadoInv
    <2>1. /\ DOMAIN cortes' = DOMAIN cortes
          /\ \A q \in DOMAIN cortes : cortes'[q].member = cortes[q].member
      BY PagadoCorte DEF SetPagado, Shape
    <2>2. /\ pc = "pagado" /\ pc' = "next" /\ movs' = movs
          /\ job'.known = job.known /\ job'.todo = job.todo \ {job.member}
      BY DEF SetPagado, NextMember, Set, Shape, Locals
    <2> QED
      BY <2>1, <2>2 DEF InductiveInv, KnownIsTrue, UnknownIsOwn, OwnPage, UniqueCortes,
                        UniqueIncomes, LinksExist, NothingPaidYet, Loaded, Settling
  <1>1. CASE Start \/ Restart \/ LoadAgenda \/ Finish \/ Crash
    BY <1>1, <1>OutsideStep DEF Start, Restart, LoadAgenda, Finish, Crash
  <1>2. CASE LoadCortes
    BY <1>2, <1>LoadCortesInv
  <1>3. CASE LoadSobres
    BY <1>3, <1>LoadSobresInv
  <1>4. ASSUME NEW m \in Members, CreateCorte(m) PROVE InductiveInv'
    BY <1>4, <1>CreateCorteInv
  <1>5. ASSUME NEW m \in Members, NEW page \in DOMAIN job.known, Reuse(m, page)
        PROVE  InductiveInv'
    BY <1>5, <1>ReuseInv
  <1>6. CASE CheckDeposit
    BY <1>6, <1>CheckDepositInv
  <1>7. CASE RecordIncome
    BY <1>7, <1>RecordIncomeInv
  <1>8. CASE SetSaldo
    BY <1>8, <1>QuietStep DEF SetSaldo, NewSaldo, Settling
  <1>9. CASE RecordTransfer
    BY <1>9, <1>RecordTransferInv
  <1>10. CASE SetPagado
    BY <1>10, <1>SetPagadoInv
  <1>11. CASE \E m \in Members : EditAgenda(m)
    BY <1>11, <1>QuietStep DEF EditAgenda
  <1>12. CASE \E s \in Sobres : Spend(s)
    BY <1>12, <1>QuietStep DEF Spend
  <1>13. CASE UNCHANGED vars
    BY <1>13, <1>QuietStep DEF vars
  <1> QED
    BY <1>1, <1>2, <1>3, <1>4, <1>5, <1>6, <1>7, <1>8, <1>9, <1>10, <1>11, <1>12, <1>13
    DEF Next, Step, People

\* Whatever fails and is run again, and whatever people do: the run knows the
\* Cortes of the members it has before it, and pays into Cortes not paid into.
THEOREM Invariance == Spec => [](Shape /\ InductiveInv)
  <1>InitShape. Init => Shape
    <2> SUFFICES ASSUME Init PROVE Shape
      OBVIOUS
    <2>1. cortes \in Seq(Corte) /\ movs \in Seq(Movement)
      BY EmptySeq DEF Init
    <2> QED BY <2>1, NoLocalsShape DEF Init, Shape
  <1>InitInv. Init => InductiveInv
    <2> SUFFICES ASSUME Init PROVE InductiveInv
      OBVIOUS
    <2>1. DOMAIN cortes = {} /\ DOMAIN movs = {}
      BY DEF Init
    <2> QED
      BY <2>1 DEF Init, InductiveInv, KnownIsTrue, UnknownIsOwn, OwnPage, UniqueCortes,
                  UniqueIncomes, LinksExist, NothingPaidYet, Loaded, Settling
  <1>1. Init => Shape /\ InductiveInv
    BY <1>InitShape, <1>InitInv
  <1>2. Shape /\ InductiveInv /\ [Next]_vars => (Shape /\ InductiveInv)'
    BY NextShape, NextInv
  <1> QED BY <1>1, <1>2, PTL DEF Spec

\* A member never gets a second Corte for the cycle.
THEOREM OneCorteHolds == Spec => []OneCorte
  <1>1. InductiveInv => OneCorte
    <2> SUFFICES ASSUME InductiveInv, NEW m \in Members
                 PROVE  Cardinality(PagesOf(m)) <= 1
      BY DEF OneCorte
    <2>1. CASE PagesOf(m) = {}
      BY <2>1, FS_EmptySet
    <2>2. ASSUME NEW p \in PagesOf(m) PROVE Cardinality(PagesOf(m)) <= 1
      <3>1. PagesOf(m) = {p}
        BY DEF PagesOf, InductiveInv, UniqueCortes
      <3>2. Cardinality({p}) = 1
        BY FS_Singleton
      <3> QED BY <3>1, <3>2
    <2> QED BY <2>1, <2>2
  <1> QED BY <1>1, Invariance, PTL

(***************************************************************************)
(* Payday implements Payout.                                               *)
(***************************************************************************)

\* Every step is a payment or leaves the payments as they are.
LEMMA StepPays ==
  ASSUME Shape, InductiveInv, [Next]_vars
  PROVE  (\E m \in Members : PaidOut!Pay(m)) \/ payments' = payments
  <1> USE DEF notion, counters
  \* A movement is of a member by the member of its Corte.
  <1>IncomesByMember. ASSUME NEW m
                      PROVE  IncomesOf(m) = {i \in DOMAIN movs :
                                               /\ movs[i].to = "income"
                                               /\ movs[i].corte \in DOMAIN cortes
                                               /\ cortes[movs[i].corte].member = m}
    BY <1>IncomesByMember DEF IncomesOf, PagesOf
  \* A step that adds no income, and after which Cortes belong to whom they did,
  \* leaves the payments as they are.
  <1>NoIncome. ASSUME LinksExist,
                      DOMAIN movs \subseteq DOMAIN movs',
                      \A i \in DOMAIN movs : movs'[i] = movs[i],
                      \A i \in DOMAIN movs' \ DOMAIN movs : movs'[i].to # "income",
                      DOMAIN cortes \subseteq DOMAIN cortes',
                      \A p \in DOMAIN cortes : cortes'[p].member = cortes[p].member
               PROVE  payments' = payments
    <2> USE <1>NoIncome
    <2>1. ASSUME NEW m \in Members PROVE IncomesOf(m)' = IncomesOf(m)
      <3>1. IncomesOf(m)' = {i \in DOMAIN movs' : /\ movs'[i].to = "income"
                                                /\ movs'[i].corte \in DOMAIN cortes'
                                                /\ cortes'[movs'[i].corte].member = m}
        BY DEF IncomesOf, PagesOf
      <3> QED BY <3>1, <1>IncomesByMember DEF LinksExist
    <2>2. \A m \in Members : \A i \in IncomesOf(m) : movs'[i] = movs[i]
      BY DEF IncomesOf
    <2>3. ASSUME NEW m \in Members
          PROVE  {[movement |-> i, amount |-> movs'[i].amount] : i \in IncomesOf(m)'}
                   = {[movement |-> i, amount |-> movs[i].amount] : i \in IncomesOf(m)}
      BY <2>1, <2>2
    <2> QED BY <2>3 DEF payments
  \* RecordIncome is the payment of the member the run is at, who has had none.
  <1>IncomePays. ASSUME Shape, InductiveInv, RecordIncome
                 PROVE  \E m \in Members : PaidOut!Pay(m)
    <2> USE <1>IncomePays
    <2> DEFINE v == [corte |-> job.page, to |-> "income", amount |-> Net]
               new == Len(movs) + 1
    <2>0. PICK m \in Members : m = job.member
      BY DEF Shape
    <2>1. /\ pc = "income" /\ movs' = Append(movs, v) /\ cortes' = cortes
      BY DEF RecordIncome, Income
    <2>2. /\ v \in Movement /\ v.corte = job.page /\ v.to = "income" /\ v.amount = Net
          /\ Net \in Nets
      BY <2>1, DepositTypes
    <2> HIDE DEF v
    <2>3. /\ DOMAIN movs = 1 .. Len(movs) /\ Len(movs) \in Nat
          /\ DOMAIN movs' = 1 .. new
          /\ \A i \in DOMAIN movs : movs'[i] = movs[i]
          /\ movs'[new] = v
      BY <2>1, <2>2, Appended DEF Shape
    <2>4. DOMAIN movs' = DOMAIN movs \cup {new} /\ new \notin DOMAIN movs
      BY <2>3
    <2> HIDE DEF new
    <2>5. job.page \in DOMAIN cortes /\ cortes[job.page].member = m
      BY <2>0, <2>1 DEF InductiveInv, OwnPage, Settling
    <2>6. ASSUME NEW n \in Members
          PROVE  IncomesOf(n)' = {i \in DOMAIN movs' : /\ movs'[i].to = "income"
                                                    /\ movs'[i].corte \in DOMAIN cortes
                                                    /\ cortes[movs'[i].corte].member = n}
      BY <2>1 DEF IncomesOf, PagesOf
    <2>7. IncomesOf(m) = {}
      <3> SUFFICES ASSUME NEW i \in IncomesOf(m) PROVE FALSE
        OBVIOUS
      <3>1. movs[i].corte = job.page
        BY <2>5 DEF IncomesOf, PagesOf, InductiveInv, UniqueCortes
      <3> QED BY <2>1, <3>1 DEF IncomesOf, InductiveInv, NothingPaidYet, Linked
    <2>8. IncomesOf(m)' = {new}
      <3>1. new \in IncomesOf(m)'
        BY <2>2, <2>3, <2>4, <2>5, <2>6
      <3>2. ASSUME NEW i \in DOMAIN movs PROVE i \notin IncomesOf(m)'
        <4>1. i \notin IncomesOf(m)
          BY <2>7
        <4>2. ~(/\ movs[i].to = "income" /\ movs[i].corte \in DOMAIN cortes
                /\ cortes[movs[i].corte].member = m)
          BY <4>1, <1>IncomesByMember
        <4> QED BY <2>3, <2>6, <4>2
      <3>3. IncomesOf(m)' \subseteq DOMAIN movs \cup {new}
        BY <2>4, <2>6
      <3> QED BY <3>1, <3>2, <3>3
    <2>9. ASSUME NEW n \in Members, n # m PROVE IncomesOf(n)' = IncomesOf(n)
      BY <2>2, <2>3, <2>4, <2>5, <2>6, <2>9, <1>IncomesByMember
    <2> DEFINE payment == [movement |-> new, amount |-> movs'[new].amount]
    <2>10. payments[m] = {}
      BY <2>7 DEF payments
    <2>11. payments'[m] = {payment}
      <3>1. payments'[m] = {[movement |-> i, amount |-> movs'[i].amount] : i \in IncomesOf(m)'}
        BY DEF payments
      <3> QED BY <2>8, <3>1
    <2>12. ASSUME NEW n \in Members, n # m PROVE payments'[n] = payments[n]
      <3>1. payments'[n] = {[movement |-> i, amount |-> movs'[i].amount] : i \in IncomesOf(n)'}
        BY DEF payments
      <3>2. payments[n] = {[movement |-> i, amount |-> movs[i].amount] : i \in IncomesOf(n)}
        BY DEF payments
      <3>3. \A i \in IncomesOf(n) : movs'[i] = movs[i]
        BY <2>3 DEF IncomesOf
      <3>4. IncomesOf(n)' = IncomesOf(n)
        BY <2>9, <2>12
      <3> QED BY <3>1, <3>2, <3>3, <3>4
    <2>13. payment.amount \in Nets
      BY <2>2, <2>3
    <2>14. payments' = [payments EXCEPT ![m] = {payment}]
      <3>1. DOMAIN payments = Members /\ DOMAIN payments' = Members
        BY DEF payments
      <3>2. /\ payments = [n \in Members |-> payments[n]]
            /\ payments' = [n \in Members |-> payments'[n]]
        BY DEF payments
      <3> HIDE DEF payment
      <3> QED BY <2>11, <2>12, <3>1, <3>2
    <2> QED BY <2>10, <2>11, <2>13, <2>14 DEF PaidOut!Pay
  <1>0. LinksExist
    BY DEF InductiveInv
  <1>1. CASE UNCHANGED <<cortes, movs>>
    BY <1>0, <1>1, <1>NoIncome
  <1>2. ASSUME NEW m \in Members, CreateCorte(m) PROVE payments' = payments
    <2>1. [member |-> m, net |-> job.nets[m], pagado |-> FALSE] \in Corte
      BY <1>2 DEF CreateCorte, Shape, Corte
    <2>2. /\ DOMAIN cortes \subseteq DOMAIN cortes'
          /\ \A p \in DOMAIN cortes : cortes'[p] = cortes[p]
      BY <1>2, <2>1, Appended DEF CreateCorte, Shape
    <2> QED BY <1>0, <1>2, <2>2, <1>NoIncome DEF CreateCorte
  <1>3. CASE RecordIncome
    BY <1>3, <1>IncomePays
  <1>4. CASE RecordTransfer
    <2> DEFINE v == [corte |-> job.page, to |-> NextSobre,
                     amount |-> Share(Net, NextSobre)]
    <2>1. v \in Movement /\ v.to # "income" /\ movs' = Append(movs, v) /\ cortes' = cortes
      BY <1>4, DepositTypes DEF RecordTransfer
    <2> HIDE DEF v
    <2>2. /\ DOMAIN movs \subseteq DOMAIN movs'
          /\ \A i \in DOMAIN movs : movs'[i] = movs[i]
          /\ \A i \in DOMAIN movs' \ DOMAIN movs : movs'[i] = v
      BY <2>1, Appended DEF Shape
    <2> QED BY <1>0, <2>1, <2>2, <1>NoIncome
  <1>5. CASE SetPagado
    <2>1. /\ DOMAIN cortes' = DOMAIN cortes /\ movs' = movs
          /\ \A q \in DOMAIN cortes : cortes'[q].member = cortes[q].member
      BY <1>5, PagadoCorte DEF SetPagado, Shape
    <2> QED BY <1>0, <2>1, <1>NoIncome
  <1> QED
    BY <1>1, <1>2, <1>3, <1>4, <1>5
    DEF Next, Step, People, Start, Restart, LoadAgenda, LoadCortes, LoadSobres, Reuse,
        CheckDeposit, Check, SetSaldo, NewSaldo, Finish, Crash, EditAgenda, Spend, vars

\* A member is paid once, an amount that does not change, whatever dies and is run
\* again: payday implements Payout.
THEOREM PaysOnceHolds == Spec => PaysOnce
  <1>InitPaid. Init => PaidOut!PayoutInit
    <2> SUFFICES ASSUME Init PROVE payments = [m \in Members |-> {}]
      BY DEF PaidOut!PayoutInit
    <2>1. DOMAIN movs = {}
      BY DEF Init
    <2> QED BY <2>1 DEF payments, IncomesOf
  <1>1. Shape /\ InductiveInv /\ [Next]_vars
          => [\E m \in Members : PaidOut!Pay(m)]_payments
    BY StepPays
  <1>2. Spec => PaidOut!PayoutSpec
    BY <1>1, <1>InitPaid, Invariance, PTL DEF Spec, PaidOut!PayoutSpec
  <1> QED BY <1>2 DEF PaysOnce

(***************************************************************************)
(* Types.                                                                  *)
(***************************************************************************)
Numbers ==
  /\ saldo \in [Sobres -> Int] /\ pc \in Places
  /\ job.nets \in [Members -> Nets] \cup {<<>>}
  /\ job.saldos \in [Sobres -> Int] \cup {<<>>}
  /\ pc = "next" \/ Settling => job.saldos \in [Sobres -> Int]
  /\ job.page <= Len(cortes)
  /\ runs \in 0 .. MaxRuns /\ crashes \in 0 .. MaxCrashes /\ edits \in 0 .. MaxEdits
  /\ spent \in [Sobres -> 0 .. MaxSpends]

\* Nobody draws more often than is drawn in all.
LEMMA SpentIsBounded ==
  ASSUME spent \in [Sobres -> 0 .. MaxSpends], SumFunction(spent) < MaxSpends, NEW s \in Sobres
  PROVE  spent[s] + 1 \in 0 .. MaxSpends
<1>1. SumFunction(spent) = SumFunctionOnSet(spent, Sobres)
  BY DEF SumFunction
<1>2. \A t \in Sobres : spent[t] \in Nat
  BY CycleCloseAssumption
<1>3. spent[s] <= SumFunctionOnSet(spent, Sobres) /\ SumFunctionOnSet(spent, Sobres) \in Nat
  BY <1>2, CycleCloseAssumption, SumOfNaturals
<1> QED BY <1>1, <1>2, <1>3, CycleCloseAssumption

\* Every step keeps the numbers numbers.
LEMMA NextNumbers ==
  ASSUME Shape, Shape', InductiveInv, Numbers, [Next]_vars
  PROVE  Numbers'
<1>. USE DEF notion, counters
<1>0. /\ MaxRuns \in Nat /\ MaxCrashes \in Nat /\ MaxEdits \in Nat /\ MaxSpends \in Nat
      /\ Len(cortes) \in Nat /\ Len(cortes') \in Nat /\ DOMAIN cortes = 1 .. Len(cortes)
  BY CycleCloseAssumption, LenProperties DEF Shape
\* A step that leaves the numbers alone.
<1>Quiet. ASSUME UNCHANGED <<saldo, runs, crashes, edits, spent>>, Len(cortes') >= Len(cortes),
                 job'.nets = job.nets, job'.saldos = job.saldos, job'.page = job.page,
                 pc' \in Places, pc' = "next" \/ Settling' => pc = "next" \/ Settling
          PROVE  Numbers'
  BY <1>0, <1>Quiet DEF Numbers, Shape
<1>1. CASE Start
  BY <1>0, <1>1 DEF Start, Numbers, Places, Settling
<1>2. CASE Restart
  BY <1>0, <1>2 DEF Restart, Numbers, Places, Settling
<1>3. CASE LoadAgenda
  <2>1. job'.nets = agenda /\ job'.saldos = job.saldos /\ job'.page = job.page
    BY <1>3 DEF LoadAgenda, Set, Shape, Locals
  <2> QED BY <1>3, <2>1 DEF LoadAgenda, Numbers, Places, Settling, Shape
<1>4. CASE LoadCortes
  <2>1. job'.nets = job.nets /\ job'.saldos = job.saldos /\ job'.page = job.page
    BY <1>4 DEF LoadCortes, Set, Shape, Locals
  <2> QED BY <1>4, <2>1 DEF LoadCortes, Numbers, Places, Settling
<1>5. CASE LoadSobres
  <2>1. job'.nets = job.nets /\ job'.saldos = saldo /\ job'.page = job.page
    BY <1>5 DEF LoadSobres, Shape, Locals
  <2> QED BY <1>5, <2>1 DEF LoadSobres, Numbers, Places, Settling
<1>6. ASSUME NEW m \in Members, CreateCorte(m) PROVE Numbers'
  <2>1. job'.nets = job.nets /\ job'.saldos = job.saldos /\ job'.page = Len(cortes) + 1
    BY <1>6 DEF CreateCorte, Shape, Locals
  <2>2. Len(cortes') = Len(cortes) + 1
    BY <1>6, AppendProperties DEF CreateCorte, Shape
  <2> QED BY <1>0, <1>6, <2>1, <2>2 DEF CreateCorte, Numbers, Places, Settling
<1>7. ASSUME NEW m \in Members, NEW page \in DOMAIN job.known, Reuse(m, page)
      PROVE  Numbers'
  <2>1. page \in DOMAIN cortes
    BY <1>7 DEF Reuse, InductiveInv, KnownIsTrue, Loaded
  <2>2. job'.nets = job.nets /\ job'.saldos = job.saldos /\ job'.page = page
    <3>1. CASE Distribute /\ ~job.known[page].pagado
      BY <1>7, <3>1 DEF Reuse, Shape, Locals
    <3>2. CASE ~(Distribute /\ ~job.known[page].pagado)
      <4>1. job' = [job EXCEPT !.member = m, !.page = page, !.todo = job.todo \ {m}]
        BY <1>7, <3>2 DEF Reuse
      <4> QED BY <4>1 DEF Shape, Locals
    <3> QED BY <3>1, <3>2
  <2>3. pc = "next" /\ pc' \in {"deposit", "next"}
    BY <1>7 DEF Reuse
  <2>4. UNCHANGED <<cortes, saldo, runs, crashes, edits, spent>>
    BY <1>7 DEF Reuse
  <2> QED BY <1>0, <2>1, <2>2, <2>3, <2>4 DEF Numbers, Places, Settling
<1>8. CASE CheckDeposit
  BY <1>0, <1>8, <1>Quiet DEF CheckDeposit, Check, Places, Settling
<1>9. CASE RecordIncome
  <2>1. job'.nets = job.nets /\ job'.saldos = job.saldos /\ job'.page = job.page
    BY <1>9 DEF RecordIncome, Income, Set, Shape, Locals
  <2> QED BY <1>0, <1>9, <2>1, <1>Quiet DEF RecordIncome, Income, Places, Settling
<1>10. CASE SetSaldo
  <2>0. pc = "saldo"
    BY <1>10 DEF SetSaldo, NewSaldo
  <2>1. NextSobre \in Sobres
    BY <2>0, HeaviestIsThere DEF NextSobre, Shape
  <2>2. Share(Net, NextSobre) \in Nat
    <3>1. Net \in Nat /\ NextSobre \in SobresOf(Owner[NextSobre])
      BY <2>0, <2>1, DepositTypes, CycleCloseAssumption DEF SobresOf
    <3> QED BY <3>1, SharesSplitNet
  <2>. DEFINE amount == job.saldos[NextSobre] + Share(Net, NextSobre)
  <2>3. amount \in Int
    BY <2>0, <2>1, <2>2 DEF Numbers, Settling
  <2>4. saldo' = [saldo EXCEPT ![NextSobre] = amount]
    BY <1>10 DEF SetSaldo, NewSaldo
  <2>5. saldo' \in [Sobres -> Int]
    <3>. HIDE DEF amount
    <3> QED BY <2>3, <2>4 DEF Numbers
  <2> QED BY <1>10, <2>0, <2>5 DEF SetSaldo, NewSaldo, Numbers, Places, Settling
<1>11. CASE RecordTransfer
  <2>0. Set("left", job.left \ {NextSobre}) /\ pc = "transfer" /\ pc' \in {"pagado", "saldo"}
        /\ UNCHANGED <<saldo, cortes, runs, crashes, edits, spent>>
    BY <1>11 DEF RecordTransfer
  <2>1. job'.nets = job.nets /\ job'.saldos = job.saldos /\ job'.page = job.page
    BY <2>0 DEF Set, Shape, Locals
  <2> QED BY <1>0, <2>0, <2>1, <1>Quiet DEF Places, Settling
<1>12. CASE SetPagado
  <2>1. job'.nets = job.nets /\ job'.saldos = job.saldos /\ job'.page = job.page
    BY <1>12 DEF SetPagado, NextMember, Set, Shape, Locals
  <2>2. Len(cortes') = Len(cortes)
    <3>1. DOMAIN cortes' = DOMAIN cortes
      BY <1>12, PagadoCorte DEF SetPagado, Shape
    <3>2. DOMAIN cortes' = 1 .. Len(cortes')
      BY LenProperties DEF Shape
    <3> QED BY <1>0, <3>1, <3>2
  <2> QED BY <1>0, <1>12, <2>1, <2>2, <1>Quiet DEF SetPagado, NextMember, Places, Settling
<1>13. CASE Finish
  BY <1>0, <1>13 DEF Finish, Numbers, Places, Settling, NoLocals
<1>14. CASE Crash
  BY <1>0, <1>14 DEF Crash, Numbers, Places, Settling, NoLocals
<1>15. ASSUME NEW m \in Members, EditAgenda(m) PROVE Numbers'
  BY <1>0, <1>15 DEF EditAgenda, Numbers, Settling
<1>16. ASSUME NEW s \in Sobres, Spend(s) PROVE Numbers'
  <2>1. spent[s] + 1 \in 0 .. MaxSpends
    BY <1>16, SpentIsBounded DEF Spend, Numbers
  <2>2. spent' \in [Sobres -> 0 .. MaxSpends] /\ saldo' \in [Sobres -> Int]
    BY <1>16, <2>1 DEF Spend, Numbers
  <2> QED BY <1>16, <2>2 DEF Spend, Numbers, Settling
<1>17. CASE UNCHANGED vars
  BY <1>0, <1>17 DEF vars, Numbers, Settling
<1> QED
  BY <1>1, <1>2, <1>3, <1>4, <1>5, <1>6, <1>7, <1>8, <1>9, <1>10, <1>11, <1>12,
     <1>13, <1>14, <1>15, <1>16, <1>17 DEF Next, Step, People

\* The counters, the Saldos and the run's numbers are numbers.
THEOREM NumbersHold == Spec => []Numbers
<1>1. Init => Numbers
  <2>. SUFFICES ASSUME Init PROVE Numbers
    OBVIOUS
  <2>1. Len(cortes) = 0
    BY DEF Init
  <2>2. Opening \in Int
    BY CycleCloseAssumption
  <2> QED BY <2>1, <2>2, CycleCloseAssumption DEF Init, Numbers, Settling, Places, NoLocals
<1>2. Shape /\ Shape' /\ InductiveInv /\ Numbers /\ [Next]_vars => Numbers'
  BY NextNumbers
<1> QED BY <1>1, <1>2, Invariance, PTL DEF Spec

\* The databases and the run hold what the code may put there: amounts are numbers
\* of colones, and no share is negative.
THEOREM TypeCorrectness == Spec => []TypeOK
<1>1. Shape /\ Numbers => TypeOK
  <2>. SUFFICES ASSUME Shape, Numbers PROVE TypeOK
    OBVIOUS
  <2>1. job.page \in 0 .. Len(cortes)
    BY LenProperties DEF Shape, Numbers
  <2> QED BY <2>1 DEF Shape, Numbers, TypeOK
<1> QED BY <1>1, Invariance, NumbersHold, PTL

(***************************************************************************)
(* What a run loaded of Pagado still holds of the members before it.       *)
(***************************************************************************)
PagadoIsTrue ==
  /\ Settling => job.member \in job.todo /\ ~cortes[job.page].pagado
  /\ Loaded => \A page \in DOMAIN job.known :
       pc = "sobres" \/ cortes[page].member \in job.todo =>
         job.known[page].pagado = cortes[page].pagado

\* Every step keeps what the run knows of Pagado true.
LEMMA NextPagado ==
  ASSUME Shape, Shape', InductiveInv, InductiveInv', PagadoIsTrue, [Next]_vars
  PROVE  PagadoIsTrue'
<1>. USE DEF notion, counters
<1>0. /\ Loaded => DOMAIN job.known \subseteq DOMAIN cortes
      /\ Settling => job.page \in DOMAIN cortes /\ cortes[job.page].member = job.member
  BY DEF InductiveInv, KnownIsTrue, OwnPage
<1>Quiet. ASSUME UNCHANGED cortes, pc' \in {"idle", "failed", "agenda", "cortes"} \/
                   /\ job'.known = job.known /\ job'.todo = job.todo
                   /\ job'.member = job.member /\ job'.page = job.page
                   /\ pc' = pc \/ (Settling /\ Settling')
          PROVE  PagadoIsTrue'
  BY <1>Quiet DEF PagadoIsTrue, Loaded, Settling
<1>1. CASE Start \/ Restart \/ LoadAgenda \/ Finish \/ Crash
  BY <1>1, <1>Quiet DEF Start, Restart, LoadAgenda, Finish, Crash
<1>2. CASE LoadCortes
  <2>1. job'.known = cortes /\ pc' = "sobres" /\ cortes' = cortes
    BY <1>2 DEF LoadCortes, Set, Shape, Locals
  <2> QED BY <2>1 DEF PagadoIsTrue, Loaded, Settling
<1>3. CASE LoadSobres
  <2>1. job'.known = job.known /\ pc = "sobres" /\ pc' = "next" /\ cortes' = cortes
    BY <1>3 DEF LoadSobres, Shape, Locals
  <2> QED BY <2>1 DEF PagadoIsTrue, Loaded, Settling
<1>4. ASSUME NEW m \in Members, CreateCorte(m) PROVE PagadoIsTrue'
  <2>. DEFINE c == [member |-> m, net |-> job.nets[m], pagado |-> FALSE]
              new == Len(cortes) + 1
  <2>1. pc = "next" /\ m \in job.todo /\ cortes' = Append(cortes, c)
    BY <1>4 DEF CreateCorte
  <2>2. c \in Corte /\ c.pagado = FALSE
    BY <2>1 DEF Shape, Corte
  <2>. HIDE DEF c
  <2>3. cortes'[new] = c /\ \A p \in DOMAIN cortes : cortes'[p] = cortes[p]
    BY <2>1, <2>2, Appended DEF Shape
  <2>4. /\ job'.known = job.known /\ job'.page = new /\ job'.member = m
        /\ job'.todo \subseteq job.todo
        /\ pc' = "deposit" => job'.todo = job.todo
        /\ pc' \in {"deposit", "next"}
    <3>1. CASE Distribute
      BY <1>4, <3>1 DEF CreateCorte, Shape, Locals
    <3>2. CASE ~Distribute
      BY <1>4, <3>2 DEF CreateCorte, Shape, Locals
    <3> QED BY <3>1, <3>2
  <2>. HIDE DEF new
  <2> QED BY <1>0, <2>1, <2>2, <2>3, <2>4 DEF PagadoIsTrue, Loaded, Settling
<1>5. ASSUME NEW m \in Members, NEW page \in DOMAIN job.known, Reuse(m, page)
      PROVE  PagadoIsTrue'
  <2>1. /\ pc = "next" /\ m \in job.todo /\ job.known[page].member = m /\ cortes' = cortes
    BY <1>5 DEF Reuse
  <2>2. page \in DOMAIN cortes /\ cortes[page].member = m
    BY <2>1 DEF InductiveInv, KnownIsTrue, Loaded
  <2>3. CASE Distribute /\ ~job.known[page].pagado
    <3>1. /\ pc' = "deposit" /\ job'.known = job.known /\ job'.todo = job.todo
          /\ job'.member = m /\ job'.page = page
      BY <1>5, <2>3 DEF Reuse, Shape, Locals
    <3> QED BY <2>1, <2>2, <2>3, <3>1 DEF PagadoIsTrue, Loaded, Settling
  <2>4. CASE ~(Distribute /\ ~job.known[page].pagado)
    <3>1. pc' = "next" /\ job'.known = job.known /\ job'.todo = job.todo \ {m}
      BY <1>5, <2>4 DEF Reuse, Shape, Locals
    <3> QED BY <2>1, <3>1 DEF PagadoIsTrue, Loaded, Settling
  <2> QED BY <2>3, <2>4
<1>6. CASE CheckDeposit
  BY <1>6, <1>Quiet DEF CheckDeposit, Check, Settling
<1>7. CASE RecordIncome
  <2>1. /\ job'.known = job.known /\ job'.todo = job.todo
        /\ job'.member = job.member /\ job'.page = job.page
    BY <1>7 DEF RecordIncome, Income, Set, Shape, Locals
  <2> QED BY <1>7, <2>1, <1>Quiet DEF RecordIncome, Income, Settling
<1>8. CASE SetSaldo
  BY <1>8, <1>Quiet DEF SetSaldo, NewSaldo, Settling
<1>9. CASE RecordTransfer
  <2>0. /\ Set("left", job.left \ {NextSobre}) /\ pc = "transfer" /\ pc' \in {"pagado", "saldo"}
        /\ UNCHANGED cortes
    BY <1>9 DEF RecordTransfer
  <2>1. /\ job'.known = job.known /\ job'.todo = job.todo
        /\ job'.member = job.member /\ job'.page = job.page
    BY <2>0 DEF Set, Shape, Locals
  <2> QED BY <2>0, <2>1, <1>Quiet DEF Settling
<1>10. CASE SetPagado
  <2>1. \A q \in DOMAIN cortes : /\ cortes'[q].member = cortes[q].member
                                 /\ cortes'[q].pagado = (q = job.page \/ cortes[q].pagado)
    BY <1>10, PagadoCorte DEF SetPagado, Shape
  <2>2. /\ pc = "pagado" /\ pc' = "next"
        /\ job'.known = job.known /\ job'.todo = job.todo \ {job.member}
    BY <1>10 DEF SetPagado, NextMember, Set, Shape, Locals
  <2>3. \A q \in DOMAIN cortes : q # job.page => cortes'[q].pagado = cortes[q].pagado
    <3>1. \A q \in DOMAIN cortes : cortes[q].pagado \in BOOLEAN
      <4>1. \A q \in DOMAIN cortes : cortes[q] \in Corte
        BY LenProperties, ElementOfSeq DEF Shape
      <4> QED BY <4>1 DEF Corte
    <3> QED BY <2>1, <3>1
  <2>4. Loaded /\ Settling /\ ~Settling' /\ pc' # "sobres"
    BY <2>2 DEF Loaded, Settling
  <2>5. ASSUME NEW page \in DOMAIN job.known, cortes'[page].member \in job'.todo
        PROVE  job.known[page].pagado = cortes'[page].pagado
    <3>1. page \in DOMAIN cortes /\ cortes[page].member \in job.todo \ {job.member}
      BY <1>0, <2>1, <2>2, <2>4, <2>5
    <3>2. page # job.page
      BY <1>0, <2>4, <3>1
    <3> QED BY <2>3, <2>4, <3>1, <3>2 DEF PagadoIsTrue
  <2> QED BY <2>2, <2>4, <2>5 DEF PagadoIsTrue
<1>11. CASE \E m \in Members : EditAgenda(m)
  BY <1>11, <1>Quiet DEF EditAgenda
<1>12. CASE \E s \in Sobres : Spend(s)
  BY <1>12, <1>Quiet DEF Spend
<1>13. CASE UNCHANGED vars
  BY <1>13, <1>Quiet DEF vars
<1> QED
  BY <1>1, <1>2, <1>3, <1>4, <1>5, <1>6, <1>7, <1>8, <1>9, <1>10, <1>11, <1>12, <1>13
  DEF Next, Step, People

(***************************************************************************)
(* What a Corte's sobres got and have still to get is its income.          *)
(***************************************************************************)
Shares(net, some) == SumFunction([s \in some |-> Share(net, s)])

Balanced ==
  /\ pc \in {"saldo", "transfer"} => job.left \subseteq SobresOf(job.member)
  /\ \A page \in DOMAIN cortes :
       /\ MovedToSobres(page) <= Moved(page, "income")
       /\ pc \in {"saldo", "transfer"} /\ page = job.page =>
            /\ Moved(page, "income") = Net
            /\ MovedToSobres(page) + Shares(Net, job.left) = Net

\* The shares of some sobres are the share of one of them and those of the rest.
LEMMA SharesOfTheRest ==
  ASSUME NEW net \in Nat, NEW some \in SUBSET Sobres, NEW s \in some
  PROVE  /\ Share(net, s) \in Nat /\ Shares(net, some) \in Nat
         /\ Shares(net, some \ {s}) \in Nat
         /\ Shares(net, some) = Share(net, s) + Shares(net, some \ {s})
         /\ some = {s} => Shares(net, some \ {s}) = 0
<1>1. \A t \in Sobres : Share(net, t) \in Nat
  <2>. TAKE t \in Sobres
  <2>1. t \in SobresOf(Owner[t])
    BY DEF SobresOf
  <2> QED BY <2>1, SharesSplitNet
<1>2. ASSUME NEW S \in SUBSET Sobres
      PROVE  /\ IsFiniteSet(S) /\ Shares(net, S) \in Nat
             /\ \A t \in S : Shares(net, S) = Share(net, t) + Shares(net, S \ {t})
             /\ S = {} => Shares(net, S) = 0
  <2>. DEFINE f == [t \in S |-> Share(net, t)]
  <2>1. IsFiniteSet(S) /\ DOMAIN f = S /\ \A t \in S : f[t] \in Nat
    BY <1>1, CycleCloseAssumption, FS_Subset
  <2>2. Shares(net, S) = SumFunctionOnSet(f, S) /\ Shares(net, S) = SumFunction(f)
    BY DEF Shares, SumFunction
  <2>3. SumFunctionOnSet(f, S) \in Nat
    <3>. HIDE DEF f
    <3> QED BY <2>1, SumOfNaturals
  <2>4. ASSUME NEW t \in S PROVE Shares(net, S) = Share(net, t) + Shares(net, S \ {t})
    <3>1. [u \in S \ {t} |-> f[u]] = [u \in S \ {t} |-> Share(net, u)]
      OBVIOUS
    <3>2. SumFunction(f) = f[t] + SumFunction([u \in S \ {t} |-> f[u]])
      <4>1. \A u \in S : f[u] \in Int
        BY <2>1
      <4>. HIDE DEF f
      <4> QED BY <2>1, <4>1, SumSplit
    <3> QED BY <2>2, <3>1, <3>2 DEF Shares
  <2>5. S = {} => SumFunctionOnSet(f, S) = 0
    <3>. HIDE DEF f
    <3> QED BY FS_EmptySet, SumOfSome
  <2> QED BY <2>1, <2>2, <2>3, <2>4, <2>5
<1>3. some \ {s} \in SUBSET Sobres /\ (some = {s} => some \ {s} = {})
  OBVIOUS
<1> QED BY <1>1, <1>2, <1>3

\* Every step keeps the income of a Corte what its sobres got and have still to get.
LEMMA NextBalanced ==
  ASSUME Shape, Shape', InductiveInv, InductiveInv', Balanced, [Next]_vars
  PROVE  Balanced'
<1>. USE DEF notion, counters
<1>0. /\ movs \in Seq(Movement)
      /\ Settling => job.page \in DOMAIN cortes /\ cortes[job.page].member = job.member
  BY DEF Shape, InductiveInv, OwnPage
\* A step without a movement, to a place that says no more.
<1>Quiet. ASSUME UNCHANGED movs, DOMAIN cortes' = DOMAIN cortes,
                 \/ pc' \notin {"saldo", "transfer"}
                 \/ /\ pc' \in {"saldo", "transfer"} => pc \in {"saldo", "transfer"}
                    /\ UNCHANGED job
          PROVE  Balanced'
  <2>1. \A page : /\ MovedToSobres(page)' = MovedToSobres(page)
                  /\ Moved(page, "income")' = Moved(page, "income")
    BY <1>Quiet DEF MovedToSobres, Moved, MovesTo
  <2> QED BY <1>Quiet, <2>1 DEF Balanced, Net
<1>1. CASE \/ Start \/ Restart \/ LoadAgenda \/ LoadCortes \/ LoadSobres \/ Finish \/ Crash
           \/ CheckDeposit \/ SetSaldo
           \/ \E m \in Members : \E page \in DOMAIN job.known : Reuse(m, page)
           \/ \E m \in Members : EditAgenda(m)
           \/ \E s \in Sobres : Spend(s)
           \/ UNCHANGED vars
  BY <1>1, <1>Quiet
  DEF Start, Restart, LoadAgenda, LoadCortes, LoadSobres, Finish, Crash, CheckDeposit, Check,
      SetSaldo, NewSaldo, Reuse, EditAgenda, Spend, vars
<1>2. CASE SetPagado
  <2>1. DOMAIN cortes' = DOMAIN cortes
    BY <1>2, PagadoCorte DEF SetPagado, Shape
  <2> QED BY <1>2, <2>1, <1>Quiet DEF SetPagado, NextMember
<1>3. ASSUME NEW m \in Members, CreateCorte(m) PROVE Balanced'
  <2>. DEFINE c == [member |-> m, net |-> job.nets[m], pagado |-> FALSE]
              new == Len(cortes) + 1
  <2>1. /\ UNCHANGED movs /\ pc = "next" /\ pc' \notin {"saldo", "transfer"}
        /\ cortes' = Append(cortes, c)
    BY <1>3 DEF CreateCorte
  <2>2. c \in Corte
    BY <2>1 DEF Shape, Corte
  <2>. HIDE DEF c
  <2>3. DOMAIN cortes' = DOMAIN cortes \cup {new} /\ new \notin DOMAIN cortes
    <3>1. /\ DOMAIN cortes = 1 .. Len(cortes) /\ Len(cortes) \in Nat
          /\ DOMAIN cortes' = 1 .. new
      BY <2>1, <2>2, Appended DEF Shape
    <3> QED BY <3>1
  <2>4. MovedToSobres(new) = 0 /\ Moved(new, "income") = 0
    <3>1. ~Linked(new)
      BY <2>3 DEF Linked, InductiveInv, LinksExist
    <3>. HIDE DEF new
    <3> QED BY <1>0, <3>1, MovedIsNat
  <2>5. \A page : /\ MovedToSobres(page)' = MovedToSobres(page)
                  /\ Moved(page, "income")' = Moved(page, "income")
    BY <2>1 DEF MovedToSobres, Moved, MovesTo
  <2>. HIDE DEF new
  <2> QED BY <2>1, <2>3, <2>4, <2>5 DEF Balanced
\* A movement of a Corte.
<1>More. ASSUME NEW v \in Movement, movs' = Append(movs, v), NEW page
         PROVE  /\ MovedToSobres(page) \in Nat /\ Moved(page, "income") \in Nat
                /\ v.amount \in Nat
                /\ Moved(page, "income")' = Moved(page, "income")
                     + (IF v.corte = page /\ v.to = "income" THEN v.amount ELSE 0)
                /\ MovedToSobres(page)' = MovedToSobres(page)
                     + (IF v.corte = page /\ v.to \in Sobres THEN v.amount ELSE 0)
  <2>1. v.amount \in Nat
    BY DEF Movement
  <2> QED BY <1>0, <1>More, <2>1, MovedMore, MovedIsNat, SobresGetMore
<1>4. CASE RecordIncome
  <2>. DEFINE v == [corte |-> job.page, to |-> "income", amount |-> Net]
  <2>1. /\ pc = "income" /\ movs' = Append(movs, v) /\ cortes' = cortes
        /\ Set("left", PerSobre(job.member, Net))
    BY <1>4 DEF RecordIncome, Income
  <2>2. /\ v \in Movement /\ v.corte = job.page /\ v.to = "income" /\ v.amount = Net
        /\ Net \in Nat /\ v.to \notin Sobres
    BY <2>1, DepositTypes, CycleCloseAssumption
  <2>. HIDE DEF v
  <2>3. /\ job'.page = job.page /\ job'.member = job.member /\ Net' = Net
        /\ job'.left = PerSobre(job.member, Net)
    BY <2>1 DEF Set, Shape, Locals, Net
  <2>4. MovedToSobres(job.page) = 0 /\ Moved(job.page, "income") = 0
    <3>1. ~Linked(job.page)
      BY <2>1 DEF InductiveInv, NothingPaidYet
    <3> QED BY <1>0, <3>1, MovedIsNat
  <2>5. job'.left \subseteq SobresOf(job'.member)
    <3>1. PerSobre(job.member, Net) \subseteq SobresOf(job.member)
      BY DEF PerSobre
    <3> QED BY <2>3, <3>1
  <2>6. ASSUME NEW page \in DOMAIN cortes
        PROVE  /\ MovedToSobres(page)' <= Moved(page, "income")'
               /\ pc' = "saldo" /\ page = job'.page =>
                    /\ Moved(page, "income")' = Net'
                    /\ MovedToSobres(page)' + Shares(Net', job'.left) = Net'
    <3>1. /\ MovedToSobres(page) \in Nat /\ Moved(page, "income") \in Nat
          /\ MovedToSobres(page) <= Moved(page, "income")
          /\ MovedToSobres(page)' = MovedToSobres(page)
          /\ Moved(page, "income")' = Moved(page, "income")
                                      + (IF page = job.page THEN Net ELSE 0)
      BY <2>1, <2>2, <1>More DEF Balanced
    <3>2. page = job.page => MovedToSobres(page)' = 0 /\ Moved(page, "income")' = Net
      BY <2>2, <2>4, <3>1
    <3>3. pc' = "saldo" => Shares(Net', job'.left) = Net
      <4>1. pc' = "saldo" => PerSobre(job.member, Net) # {}
        BY <1>4 DEF RecordIncome, Income
      <4>2. PerSobre(job.member, Net) # {} => Shares(Net, PerSobre(job.member, Net)) = Net
        BY <2>2, DepositsAddUp DEF Shares
      <4> QED BY <2>3, <4>1, <4>2
    <3> QED BY <2>2, <2>3, <3>1, <3>2, <3>3
  <2>7. pc' \in {"pagado", "saldo"}
    BY <1>4 DEF RecordIncome, Income
  <2> QED BY <2>1, <2>5, <2>6, <2>7 DEF Balanced
<1>5. CASE RecordTransfer
  <2>. DEFINE s == NextSobre
              v == [corte |-> job.page, to |-> s, amount |-> Share(Net, s)]
  <2>1. /\ pc = "transfer" /\ movs' = Append(movs, v) /\ cortes' = cortes
        /\ pc' \in {"saldo", "pagado"} /\ Set("left", job.left \ {s})
    BY <1>5 DEF RecordTransfer
  <2>2. /\ v \in Movement /\ v.corte = job.page /\ v.to = s /\ v.amount = Share(Net, s)
        /\ Net \in Nat /\ s # "income" /\ s \in job.left /\ s \in Sobres
    BY <2>1, DepositTypes, CycleCloseAssumption
  <2>. HIDE DEF v, s
  <2>3. /\ job'.page = job.page /\ job'.member = job.member /\ Net' = Net
        /\ job'.left = job.left \ {s}
    BY <2>1 DEF Set, Shape, Locals, Net
  <2>4. /\ Share(Net, s) \in Nat /\ Shares(Net, job.left) \in Nat
        /\ Shares(Net, job.left \ {s}) \in Nat
        /\ Shares(Net, job.left) = Share(Net, s) + Shares(Net, job.left \ {s})
    <3>1. job.left \in SUBSET Sobres
      BY DEF Shape
    <3> QED BY <2>2, <3>1, SharesOfTheRest
  <2>5. job'.left \subseteq SobresOf(job'.member)
    BY <2>1, <2>3 DEF Balanced
  <2>6. ASSUME NEW page \in DOMAIN cortes
        PROVE  /\ MovedToSobres(page)' <= Moved(page, "income")'
               /\ page = job'.page =>
                    /\ Moved(page, "income")' = Net'
                    /\ MovedToSobres(page)' + Shares(Net', job'.left) = Net'
    <3>1. /\ MovedToSobres(page) \in Nat /\ Moved(page, "income") \in Nat
          /\ MovedToSobres(page) <= Moved(page, "income")
          /\ Moved(page, "income")' = Moved(page, "income")
          /\ MovedToSobres(page)' = MovedToSobres(page)
                                    + (IF page = job.page THEN Share(Net, s) ELSE 0)
      BY <2>1, <2>2, <1>More DEF Balanced
    <3>2. page = job.page => /\ Moved(page, "income") = Net
                             /\ MovedToSobres(page) + Shares(Net, job.left) = Net
      BY <2>1 DEF Balanced
    <3>3. page = job.page => MovedToSobres(page)' + Shares(Net, job.left \ {s}) = Net
      BY <2>2, <2>4, <3>1, <3>2
    <3>4. Shares(Net', job'.left) = Shares(Net, job.left \ {s})
      BY <2>3
    <3> QED BY <2>2, <2>3, <2>4, <3>1, <3>2, <3>3, <3>4
  <2> QED BY <2>1, <2>5, <2>6 DEF Balanced
<1> QED BY <1>1, <1>2, <1>3, <1>4, <1>5 DEF Next, Step, People

(***************************************************************************)
(* Who is owed a net: each failure leaves one Corte at most.               *)
(***************************************************************************)

\* The run is about to pay this Corte in full.
Clean(page) ==
  /\ Settling /\ page = job.page /\ cortes[page].net = Net
  /\ pc = "deposit" => ~Linked(page)
  /\ pc = "pagado" => PaidInFull(page)

Owed == {page \in DOMAIN cortes :
           ~Clean(page) /\ ~(cortes[page].pagado /\ PaidInFull(page))}

OwedByCrash ==
  IF Distribute THEN Cardinality(Owed) <= crashes
  ELSE ~Settling /\ \A page \in DOMAIN cortes : ~cortes[page].pagado

\* Without DISTRIBUTE nothing is paid and no Corte is Pagado.
LEMMA NothingDistributed ==
  ASSUME Shape, OwedByCrash, ~Distribute, [Next]_vars
  PROVE  OwedByCrash'
<1>. USE DEF notion, counters
<1>0. ~Settling /\ \A page \in DOMAIN cortes : ~cortes[page].pagado
  BY DEF OwedByCrash
<1>1. UNCHANGED cortes \/ \E m \in Members : CreateCorte(m)
  BY <1>0 DEF Next, Step, People, Start, Restart, LoadAgenda, LoadCortes, LoadSobres, Finish,
     Crash, CheckDeposit, Check, RecordIncome, Income, SetSaldo, NewSaldo, RecordTransfer,
     SetPagado, Reuse, EditAgenda, Spend, vars, Settling
<1>2. ~Settling'
  BY <1>0 DEF Next, Step, People, Start, Restart, LoadAgenda, LoadCortes, LoadSobres, Finish,
     Crash, CheckDeposit, Check, RecordIncome, Income, SetSaldo, NewSaldo, RecordTransfer,
     SetPagado, Reuse, CreateCorte, EditAgenda, Spend, vars, Settling
<1>3. \A page \in DOMAIN cortes' : ~cortes'[page].pagado
  <2>1. CASE UNCHANGED cortes
    BY <1>0, <2>1
  <2>2. ASSUME NEW m \in Members, CreateCorte(m)
        PROVE  \A page \in DOMAIN cortes' : ~cortes'[page].pagado
    <3>. DEFINE c == [member |-> m, net |-> job.nets[m], pagado |-> FALSE]
    <3>1. cortes' = Append(cortes, c) /\ c \in Corte /\ ~c.pagado
      BY <2>2 DEF CreateCorte, Shape, Corte
    <3>. HIDE DEF c
    <3>2. /\ DOMAIN cortes = 1 .. Len(cortes) /\ Len(cortes) \in Nat
          /\ DOMAIN cortes' = 1 .. Len(cortes) + 1
          /\ \A p \in DOMAIN cortes : cortes'[p] = cortes[p]
          /\ cortes'[Len(cortes) + 1] = c
      BY <3>1, Appended DEF Shape
    <3>3. \A page \in DOMAIN cortes' : page \in DOMAIN cortes \/ page = Len(cortes) + 1
      BY <3>2
    <3> QED BY <1>0, <3>1, <3>2, <3>3
  <2> QED BY <1>1, <2>1, <2>2
<1> QED BY <1>2, <1>3 DEF OwedByCrash

\* Every step keeps the Cortes that are owed as few as the failures.
LEMMA NextOwed ==
  ASSUME Shape, Shape', InductiveInv, InductiveInv', Numbers, PagadoIsTrue, Balanced,
         OwedByCrash, [Next]_vars
  PROVE  OwedByCrash'
<1>. USE DEF notion, counters
<1>N. CASE ~Distribute
  BY <1>N, NothingDistributed
<1>D. CASE Distribute
  <2>. USE <1>D
  <2>0. /\ movs \in Seq(Movement) /\ crashes \in Nat
        /\ Settling => job.page \in DOMAIN cortes /\ cortes[job.page].member = job.member
                       /\ ~cortes[job.page].pagado
        /\ IsFiniteSet(Owed) /\ Cardinality(Owed) <= crashes /\ Cardinality(Owed) \in Nat
    <3>1. DOMAIN cortes = 1 .. Len(cortes) /\ Len(cortes) \in Nat
      BY LenProperties DEF Shape
    <3>2. IsFiniteSet(DOMAIN cortes) /\ Owed \in SUBSET DOMAIN cortes
      BY <3>1, FS_Interval DEF Owed
    <3>3. IsFiniteSet(Owed) /\ Cardinality(Owed) \in Nat
      BY <3>2, FS_Subset, FS_CardinalityType
    <3>4. crashes \in Nat
      BY CycleCloseAssumption DEF Numbers
    <3> QED BY <3>3, <3>4 DEF Shape, InductiveInv, OwnPage, PagadoIsTrue, OwedByCrash
  <2>Less. ASSUME Owed' \subseteq Owed, crashes' = crashes PROVE OwedByCrash'
    <3>1. Cardinality(Owed') <= Cardinality(Owed) /\ Cardinality(Owed') \in Nat
      BY <2>0, <2>Less, FS_Subset, FS_CardinalityType
    <3>2. Cardinality(Owed') <= crashes'
      BY <2>0, <2>Less, <3>1
    <3> QED BY <3>2 DEF OwedByCrash
  \* A Corte that is left alone is as paid as it was.
  <2>Same. ASSUME NEW page, Moved(page, "income")' = Moved(page, "income"),
                  MovedToSobres(page)' = MovedToSobres(page),
                  cortes'[page].net = cortes[page].net,
                  cortes'[page].member = cortes[page].member
           PROVE  PaidInFull(page)' <=> PaidInFull(page)
    BY <2>Same DEF PaidInFull
  <2>Still. ASSUME UNCHANGED <<cortes, movs>>
            PROVE  \A page : PaidInFull(page)' <=> PaidInFull(page)
    <3>1. \A page : /\ MovedToSobres(page)' = MovedToSobres(page)
                    /\ Moved(page, "income")' = Moved(page, "income")
      BY <2>Still DEF MovedToSobres, Moved, MovesTo
    <3> QED BY <2>Still, <2>Same, <3>1
  \* Nobody is paid, and the Corte that was about to be still is.
  <2>Quiet. ASSUME UNCHANGED <<cortes, movs, crashes>>, \A page : Clean(page) => Clean(page)'
            PROVE  OwedByCrash'
    <3>1. Owed' \subseteq Owed
      BY <2>Quiet, <2>Still DEF Owed
    <3> QED BY <2>Quiet, <2>Less, <3>1
  <2>1. CASE \/ Start \/ Restart \/ LoadAgenda \/ LoadCortes \/ LoadSobres \/ Finish
             \/ \E m \in Members : \E page \in DOMAIN job.known : Reuse(m, page)
    <3>1. ~Settling /\ UNCHANGED <<cortes, movs, crashes>>
      BY <2>1 DEF Start, Restart, LoadAgenda, LoadCortes, LoadSobres, Finish, Reuse, Settling
    <3> QED BY <3>1, <2>Quiet DEF Clean
  <2>2. CASE \/ \E m \in Members : EditAgenda(m)
             \/ \E s \in Sobres : Spend(s)
             \/ UNCHANGED vars
    <3>1. UNCHANGED <<cortes, movs, crashes, pc, job>>
      BY <2>2 DEF EditAgenda, Spend, vars
    <3>2. \A page : Clean(page) => Clean(page)'
      BY <3>1, <2>Still DEF Clean, Settling, Net, Linked
    <3> QED BY <3>1, <3>2, <2>Quiet
  <2>3. ASSUME NEW m \in Members, CreateCorte(m) PROVE OwedByCrash'
    <3>. DEFINE c == [member |-> m, net |-> job.nets[m], pagado |-> FALSE]
                new == Len(cortes) + 1
    <3>1. pc = "next" /\ pc' = "deposit" /\ UNCHANGED <<movs, crashes>>
          /\ cortes' = Append(cortes, c)
      BY <2>3 DEF CreateCorte
    <3>2. c \in Corte /\ c.net = job.nets[m]
      BY <3>1 DEF Shape, Corte
    <3>. HIDE DEF c
    <3>3. /\ DOMAIN cortes' = DOMAIN cortes \cup {new} /\ new \notin DOMAIN cortes
          /\ cortes'[new] = c /\ \A p \in DOMAIN cortes : cortes'[p] = cortes[p]
      <4>1. /\ DOMAIN cortes = 1 .. Len(cortes) /\ Len(cortes) \in Nat
            /\ DOMAIN cortes' = 1 .. new /\ cortes'[new] = c
            /\ \A p \in DOMAIN cortes : cortes'[p] = cortes[p]
        BY <3>1, <3>2, Appended DEF Shape
      <4> QED BY <4>1
    <3>4. job'.page = new /\ job'.member = m /\ job'.nets = job.nets
      BY <2>3 DEF CreateCorte, Shape, Locals
    <3>. HIDE DEF new
    <3>6. ASSUME NEW page, page = new PROVE page \notin Owed'
      <4>1. ~Linked(page)'
        BY <3>1, <3>3, <3>6 DEF Linked, InductiveInv, LinksExist
      <4>2. Clean(page)'
        BY <3>1, <3>2, <3>3, <3>4, <3>6, <4>1 DEF Clean, Settling, Net
      <4> QED BY <4>2 DEF Owed
    <3>7. ASSUME NEW page \in DOMAIN cortes PROVE page \in Owed' => page \in Owed
      <4>1. /\ MovedToSobres(page)' = MovedToSobres(page)
            /\ Moved(page, "income")' = Moved(page, "income")
        BY <3>1 DEF MovedToSobres, Moved, MovesTo
      <4>2. PaidInFull(page)' <=> PaidInFull(page)
        BY <3>3, <4>1, <2>Same
      <4>3. ~Clean(page)
        BY <3>1 DEF Clean, Settling
      <4> QED BY <3>3, <4>2, <4>3 DEF Owed
    <3>8. Owed' \subseteq Owed
      <4>1. Owed' \subseteq DOMAIN cortes'
        BY DEF Owed
      <4> QED BY <3>3, <3>6, <3>7, <4>1
    <3> QED BY <3>1, <3>8, <2>Less
  <2>4. CASE CheckDeposit
    <3>1. /\ pc = "deposit" /\ pc' \in {"pagado", "income"}
          /\ UNCHANGED <<cortes, movs, job, crashes>>
          /\ pc' = "pagado" => Net <= 0 \/ Linked(job.page)
      BY <2>4 DEF CheckDeposit, Check
    <3>2. ASSUME NEW page, Clean(page), pc' = "pagado" PROVE PaidInFull(page)
      <4>1. ~Linked(page) /\ Net <= 0 /\ cortes[page].net = Net /\ page = job.page
        BY <3>1, <3>2 DEF Clean
      <4>2. Net = 0
        <5>1. Net \in Nat
          BY <3>1, DepositTypes, CycleCloseAssumption
        <5> QED BY <4>1, <5>1
      <4>3. Moved(page, "income") = 0
        BY <2>0, <4>1, MovedIsNat
      <4>4. PerSobre(cortes[page].member, 0) = {}
        BY DepositsAddUp
      <4> QED BY <4>1, <4>2, <4>3, <4>4 DEF PaidInFull
    <3>3. \A page : Clean(page) => Clean(page)'
      BY <3>1, <3>2, <2>Still DEF Clean, Settling, Net
    <3> QED BY <3>1, <3>3, <2>Quiet
  <2>5. CASE SetSaldo
    <3>1. pc = "saldo" /\ pc' = "transfer" /\ UNCHANGED <<cortes, movs, job, crashes>>
      BY <2>5 DEF SetSaldo, NewSaldo
    <3>2. \A page : Clean(page) => Clean(page)'
      BY <3>1 DEF Clean, Settling, Net
    <3> QED BY <3>1, <3>2, <2>Quiet
  \* A movement of the Corte the run is at, which was not Pagado.
  <2>More. ASSUME NEW v \in Movement, movs' = Append(movs, v), v.corte = job.page,
                  Settling, UNCHANGED <<cortes, crashes>>,
                  \A page : Clean(page) => Clean(page)'
           PROVE  OwedByCrash'
    <3>1. ASSUME NEW page \in DOMAIN cortes, page # job.page PROVE page \in Owed' => page \in Owed
      <4>1. /\ MovedToSobres(page) \in Nat /\ Moved(page, "income") \in Nat
            /\ Moved(page, "income")' = Moved(page, "income")
                 + (IF v.corte = page /\ v.to = "income" THEN v.amount ELSE 0)
            /\ MovedToSobres(page)' = MovedToSobres(page)
                 + (IF v.corte = page /\ v.to \in Sobres THEN v.amount ELSE 0)
        BY <2>0, <2>More, MovedMore, MovedIsNat, SobresGetMore
      <4>2. /\ MovedToSobres(page)' = MovedToSobres(page)
            /\ Moved(page, "income")' = Moved(page, "income")
        BY <2>More, <3>1, <4>1
      <4>3. PaidInFull(page)' <=> PaidInFull(page)
        BY <2>More, <4>2, <2>Same
      <4>4. ~Clean(page)
        BY <3>1 DEF Clean
      <4> QED BY <2>More, <4>3, <4>4 DEF Owed
    <3>2. job.page \in Owed' => job.page \in Owed
      <4>1. ASSUME NEW page, page = job.page, page \in Owed' PROVE page \in Owed
        <5>1. ~Clean(page)' /\ page \in DOMAIN cortes
          BY <2>More, <4>1 DEF Owed
        <5>2. ~Clean(page) /\ ~cortes[page].pagado
          BY <2>0, <2>More, <4>1, <5>1
        <5> QED BY <5>1, <5>2 DEF Owed
      <4> QED BY <4>1
    <3>3. Owed' \subseteq DOMAIN cortes
      BY <2>More DEF Owed
    <3>4. Owed' \subseteq Owed
      BY <3>1, <3>2, <3>3
    <3> QED BY <2>More, <3>4, <2>Less
  <2>6. CASE RecordIncome
    <3>. DEFINE v == [corte |-> job.page, to |-> "income", amount |-> Net]
    <3>1. /\ pc = "income" /\ movs' = Append(movs, v) /\ UNCHANGED <<cortes, crashes>>
          /\ Set("left", PerSobre(job.member, Net))
          /\ pc' \in {"pagado", "saldo"}
          /\ pc' = "pagado" => PerSobre(job.member, Net) = {}
      BY <2>6 DEF RecordIncome, Income
    <3>2. /\ v \in Movement /\ v.corte = job.page /\ v.to = "income" /\ v.amount = Net
          /\ Net \in Nat
      BY <3>1, DepositTypes, CycleCloseAssumption
    <3>. HIDE DEF v
    <3>3. job'.page = job.page /\ Net' = Net
      BY <3>1 DEF Set, Shape, Locals, Net
    <3>4. ASSUME NEW page, Clean(page) PROVE Clean(page)'
      <4>1. /\ page = job.page /\ cortes[page].net = Net
            /\ cortes[page].member = job.member
        BY <2>0, <3>4 DEF Clean
      <4>2. ASSUME pc' = "pagado" PROVE PaidInFull(page)'
        <5>1. ~Linked(page)
          BY <3>1, <4>1 DEF InductiveInv, NothingPaidYet
        <5>2. Moved(page, "income") = 0
          BY <2>0, <5>1, MovedIsNat
        <5>3. Moved(page, "income")' = Moved(page, "income")
                 + (IF v.corte = page /\ v.to = "income" THEN v.amount ELSE 0)
          BY <2>0, <3>1, <3>2, MovedMore
        <5>4. Moved(page, "income")' = Net
          BY <3>2, <4>1, <5>2, <5>3
        <5>5. PerSobre(job.member, Net) = {}
          BY <3>1, <4>2
        <5>6. cortes'[page].net = Net /\ cortes'[page].member = job.member
          BY <3>1, <4>1
        <5> QED BY <5>4, <5>5, <5>6 DEF PaidInFull
      <4> QED BY <3>1, <3>3, <4>1, <4>2 DEF Clean, Settling
    <3>5. Settling
      BY <3>1 DEF Settling
    <3> QED BY <3>1, <3>2, <3>4, <3>5, <2>More
  <2>7. CASE RecordTransfer
    <3>. DEFINE s == NextSobre
                v == [corte |-> job.page, to |-> s, amount |-> Share(Net, s)]
    <3>1. /\ pc = "transfer" /\ movs' = Append(movs, v) /\ UNCHANGED <<cortes, crashes>>
          /\ pc' \in {"saldo", "pagado"} /\ Set("left", job.left \ {s})
          /\ pc' = "pagado" => job.left = {s}
      BY <2>7 DEF RecordTransfer
    <3>2. /\ v \in Movement /\ v.corte = job.page /\ v.to = s /\ v.amount = Share(Net, s)
          /\ Net \in Nat /\ s # "income" /\ s \in job.left /\ s \in Sobres
      BY <3>1, DepositTypes, CycleCloseAssumption
    <3>. HIDE DEF v, s
    <3>3. job'.page = job.page /\ Net' = Net
      BY <3>1 DEF Set, Shape, Locals, Net
    <3>4. ASSUME NEW page, Clean(page) PROVE Clean(page)'
      <4>1. /\ page = job.page /\ cortes[page].net = Net /\ page \in DOMAIN cortes
        BY <2>0, <3>4 DEF Clean
      <4>2. ASSUME pc' = "pagado" PROVE PaidInFull(page)'
        <5>1. /\ Moved(page, "income") = Net
              /\ MovedToSobres(page) + Shares(Net, job.left) = Net
          BY <3>1, <4>1 DEF Balanced
        <5>2. /\ Shares(Net, job.left) = Share(Net, s) + Shares(Net, job.left \ {s})
              /\ Share(Net, s) \in Nat
              /\ job.left = {s} => Shares(Net, job.left \ {s}) = 0
          <6>1. job.left \in SUBSET Sobres
            BY DEF Shape
          <6> QED BY <3>2, <6>1, SharesOfTheRest
        <5>3. Shares(Net, job.left) = Share(Net, s)
          <6>1. Shares(Net, job.left \ {s}) = 0
            BY <3>1, <4>2, <5>2
          <6> QED BY <5>2, <6>1
        <5>4. /\ MovedToSobres(page) \in Nat /\ Moved(page, "income") \in Nat
              /\ Moved(page, "income")' = Moved(page, "income")
                   + (IF v.corte = page /\ v.to = "income" THEN v.amount ELSE 0)
              /\ MovedToSobres(page)' = MovedToSobres(page)
                   + (IF v.corte = page /\ v.to \in Sobres THEN v.amount ELSE 0)
          BY <2>0, <3>1, <3>2, MovedMore, MovedIsNat, SobresGetMore
        <5>5. Moved(page, "income")' = Net
          BY <3>2, <5>1, <5>4
        <5>6. MovedToSobres(page)' = Net
          BY <3>2, <4>1, <5>1, <5>3, <5>4
        <5>7. cortes'[page].net = Net
          BY <3>1, <4>1
        <5> QED BY <5>5, <5>6, <5>7 DEF PaidInFull
      <4> QED BY <3>1, <3>3, <4>1, <4>2 DEF Clean, Settling
    <3>5. Settling
      BY <3>1 DEF Settling
    <3> QED BY <3>1, <3>2, <3>4, <3>5, <2>More
  <2>8. CASE SetPagado
    <3>1. pc = "pagado" /\ UNCHANGED <<movs, crashes>> /\ job.page \in DOMAIN cortes
          /\ ~cortes[job.page].pagado
      BY <2>0, <2>8 DEF SetPagado, Settling
    <3>2. /\ DOMAIN cortes' = DOMAIN cortes
          /\ \A q \in DOMAIN cortes : /\ cortes'[q].member = cortes[q].member
                                      /\ cortes'[q].net = cortes[q].net
                                      /\ cortes'[q].pagado = (q = job.page \/ cortes[q].pagado)
      BY <2>8, PagadoCorte DEF SetPagado, Shape
    <3>3. ASSUME NEW page \in DOMAIN cortes, page \notin Owed PROVE page \notin Owed'
      <4>1. /\ MovedToSobres(page)' = MovedToSobres(page)
            /\ Moved(page, "income")' = Moved(page, "income")
        BY <3>1 DEF MovedToSobres, Moved, MovesTo
      <4>2. PaidInFull(page)' <=> PaidInFull(page)
        BY <3>2, <4>1, <2>Same
      <4>3. Clean(page) \/ (cortes[page].pagado /\ PaidInFull(page))
        BY <3>3 DEF Owed
      <4>4. CASE Clean(page)
        <5>1. page = job.page /\ PaidInFull(page)
          BY <3>1, <4>4 DEF Clean
        <5>2. cortes'[page].pagado
          BY <3>2, <5>1
        <5> QED BY <4>2, <5>1, <5>2 DEF Owed
      <4>5. CASE cortes[page].pagado /\ PaidInFull(page)
        <5>1. cortes'[page].pagado
          BY <3>2, <4>5
        <5> QED BY <4>2, <4>5, <5>1 DEF Owed
      <4> QED BY <4>3, <4>4, <4>5
    <3>4. Owed' \subseteq Owed
      BY <3>2, <3>3 DEF Owed
    <3> QED BY <3>1, <3>4, <2>Less
  \* The Corte the run was at is owed now, if it was not.
  <2>9. CASE Crash
    <3>1. UNCHANGED <<cortes, movs>> /\ crashes' = crashes + 1
      BY <2>9 DEF Crash
    <3>2. Owed' \subseteq Owed \cup {job.page}
      BY <3>1, <2>Still DEF Owed, Clean
    <3>3. /\ IsFiniteSet(Owed \cup {job.page})
          /\ Cardinality(Owed \cup {job.page}) <= Cardinality(Owed) + 1
          /\ Cardinality(Owed \cup {job.page}) \in Nat
      <4>1. /\ IsFiniteSet(Owed \cup {job.page})
            /\ Cardinality(Owed \cup {job.page})
                 = IF job.page \in Owed THEN Cardinality(Owed) ELSE Cardinality(Owed) + 1
        BY <2>0, FS_AddElement
      <4> QED BY <2>0, <4>1
    <3>4. Cardinality(Owed') <= Cardinality(Owed \cup {job.page}) /\ Cardinality(Owed') \in Nat
      BY <3>2, <3>3, FS_Subset, FS_CardinalityType
    <3>5. Cardinality(Owed') <= crashes'
      BY <2>0, <3>1, <3>3, <3>4
    <3> QED BY <3>5 DEF OwedByCrash
  <2> QED
    BY <2>1, <2>2, <2>3, <2>4, <2>5, <2>6, <2>7, <2>8, <2>9 DEF Next, Step, People
<1> QED BY <1>N, <1>D

(***************************************************************************)
(* What a run loaded of the Saldos still holds of the sobres before it.    *)
(***************************************************************************)

\* The sobre whose Saldo is written and whose movement is not.
InHand == IF pc = "transfer" THEN {NextSobre} ELSE {}

\* The sobres the run has before it.
Untouched ==
  {s \in Sobres :
     /\ Owner[s] \in job.todo
     /\ Owner[s] = job.member =>
          \/ pc \in {"next", "deposit", "income"}
          \/ pc \in {"saldo", "transfer"} /\ s \in job.left \ InHand}

SaldosAreTrue ==
  /\ pc = "next" \/ Settling =>
       \A s \in Untouched : spent[s] = 0 => job.saldos[s] = saldo[s]
  /\ crashes = 0 =>
       \A s \in Sobres : spent[s] = 0 =>
         saldo[s] = Opening + Transferred(s) + (IF s \in InHand THEN Share(Net, s) ELSE 0)

\* Every step keeps the Saldos what the run and the movements make them.
LEMMA NextSaldos ==
  ASSUME Shape, Shape', InductiveInv, Numbers, Numbers', PagadoIsTrue, Balanced,
         SaldosAreTrue, [Next]_vars
  PROVE  SaldosAreTrue'
<1>. USE DEF notion, counters
<1>0. /\ movs \in Seq(Movement) /\ Opening \in Nat
      /\ saldo \in [Sobres -> Int] /\ spent \in [Sobres -> Nat]
      /\ Settling => job.member \in job.todo
      /\ pc = "next" \/ Settling =>
           job.saldos \in [Sobres -> Int] /\ job.nets \in [Members -> Nets]
  <2>1. \A n \in 0 .. MaxSpends : n \in Nat
    BY CycleCloseAssumption
  <2> QED BY <2>1, CycleCloseAssumption DEF Numbers, Shape, PagadoIsTrue, Settling
\* A step that writes no Saldo and no movement, and has no more before it.
<1>Quiet. ASSUME UNCHANGED <<movs, saldo, spent>>, crashes' = 0 => crashes = 0,
                 pc # "transfer", pc' # "transfer",
                 pc' = "next" \/ Settling' =>
                   /\ pc = "next" \/ Settling
                   /\ job'.saldos = job.saldos /\ Untouched' \subseteq Untouched
          PROVE  SaldosAreTrue'
  <2>1. InHand = {} /\ InHand' = {} /\ \A s : Transferred(s)' = Transferred(s)
    BY <1>Quiet DEF InHand, Transferred, TransfersTo
  <2>2. \A s \in Untouched : s \in Sobres
    BY DEF Untouched
  <2> QED BY <1>Quiet, <2>1, <2>2 DEF SaldosAreTrue
<1>1. CASE Start \/ Restart \/ LoadAgenda \/ LoadCortes \/ Finish
  BY <1>1, <1>Quiet DEF Start, Restart, LoadAgenda, LoadCortes, Finish, Settling
<1>2. CASE Crash
  <2>1. /\ crashes' # 0 /\ pc' = "failed"
    BY <1>2, CycleCloseAssumption DEF Crash, Numbers
  <2> QED BY <2>1 DEF SaldosAreTrue, Settling
<1>3. CASE LoadSobres
  <2>1. /\ pc = "sobres" /\ pc' = "next" /\ UNCHANGED <<movs, saldo, spent, crashes>>
        /\ job'.saldos = saldo
    BY <1>3 DEF LoadSobres, Shape, Locals
  <2>2. InHand = {} /\ InHand' = {} /\ \A s : Transferred(s)' = Transferred(s)
    BY <2>1 DEF InHand, Transferred, TransfersTo
  <2> QED BY <2>1, <2>2 DEF SaldosAreTrue, Settling, Untouched
<1>4. ASSUME NEW m \in Members, CreateCorte(m) PROVE SaldosAreTrue'
  <2>1. /\ pc = "next" /\ m \in job.todo /\ pc' \in {"deposit", "next"}
        /\ UNCHANGED <<movs, saldo, spent, crashes>>
    BY <1>4 DEF CreateCorte
  <2>2. job'.saldos = job.saldos /\ job'.todo \subseteq job.todo
    <3>1. CASE Distribute
      BY <1>4, <3>1 DEF CreateCorte, Shape, Locals
    <3>2. CASE ~Distribute
      BY <1>4, <3>2 DEF CreateCorte, Shape, Locals
    <3> QED BY <3>1, <3>2
  <2>3. Untouched' \subseteq Untouched
    BY <2>1, <2>2 DEF Untouched
  <2> QED BY <2>1, <2>2, <2>3, <1>Quiet
<1>5. ASSUME NEW m \in Members, NEW page \in DOMAIN job.known, Reuse(m, page)
      PROVE  SaldosAreTrue'
  <2>1. /\ pc = "next" /\ m \in job.todo /\ pc' \in {"deposit", "next"}
        /\ UNCHANGED <<movs, saldo, spent, crashes>>
    BY <1>5 DEF Reuse
  <2>2. job'.saldos = job.saldos /\ job'.todo \subseteq job.todo
    <3>1. CASE Distribute /\ ~job.known[page].pagado
      BY <1>5, <3>1 DEF Reuse, Shape, Locals
    <3>2. CASE ~(Distribute /\ ~job.known[page].pagado)
      <4>1. job' = [job EXCEPT !.member = m, !.page = page, !.todo = job.todo \ {m}]
        BY <1>5, <3>2 DEF Reuse
      <4> QED BY <4>1 DEF Shape, Locals
    <3> QED BY <3>1, <3>2
  <2>3. Untouched' \subseteq Untouched
    BY <2>1, <2>2 DEF Untouched
  <2> QED BY <2>1, <2>2, <2>3, <1>Quiet
<1>6. CASE CheckDeposit
  <2>1. /\ pc = "deposit" /\ pc' \in {"pagado", "income"}
        /\ UNCHANGED <<movs, saldo, spent, crashes, job>>
    BY <1>6 DEF CheckDeposit, Check
  <2>2. Untouched' \subseteq Untouched
    BY <2>1 DEF Untouched
  <2> QED BY <2>1, <2>2, <1>Quiet DEF Settling
\* A movement.
<1>More. ASSUME NEW v \in Movement, movs' = Append(movs, v), NEW s
         PROVE  /\ Transferred(s) \in Nat /\ v.amount \in Nat
                /\ Transferred(s)' = Transferred(s) + (IF v.to = s THEN v.amount ELSE 0)
  BY <1>0, <1>More, SobreGetsMore DEF Movement
<1>7. CASE RecordIncome
  <2>. DEFINE v == [corte |-> job.page, to |-> "income", amount |-> Net]
  <2>1. /\ pc = "income" /\ pc' \in {"pagado", "saldo"} /\ movs' = Append(movs, v)
        /\ UNCHANGED <<saldo, spent, crashes>> /\ Set("left", PerSobre(job.member, Net))
    BY <1>7 DEF RecordIncome, Income
  <2>2. v \in Movement /\ v.to = "income"
    BY <2>1, DepositTypes
  <2>. HIDE DEF v
  <2>3. job'.saldos = job.saldos /\ job'.todo = job.todo /\ job'.member = job.member
    BY <2>1 DEF Set, Shape, Locals
  <2>4. Untouched' \subseteq Untouched
    BY <2>1, <2>3 DEF Untouched
  <2>5. InHand = {} /\ InHand' = {}
    BY <2>1 DEF InHand
  <2>6. \A s \in Sobres : Transferred(s)' = Transferred(s)
    <3>. TAKE s \in Sobres
    <3>1. s # "income"
      BY CycleCloseAssumption
    <3>2. /\ Transferred(s) \in Nat
          /\ Transferred(s)' = Transferred(s) + (IF v.to = s THEN v.amount ELSE 0)
      BY <2>1, <2>2, <1>More
    <3> QED BY <2>2, <3>1, <3>2
  <2>7. /\ pc = "next" \/ Settling
        /\ \A s \in Untouched : s \in Sobres
    BY <2>1 DEF Settling, Untouched
  <2> QED BY <2>1, <2>3, <2>4, <2>5, <2>6, <2>7 DEF SaldosAreTrue
<1>8. CASE SetSaldo
  <2>. DEFINE s == NextSobre
              amount == job.saldos[s] + Share(Net, s)
  <2>1. /\ pc = "saldo" /\ pc' = "transfer" /\ UNCHANGED <<movs, job, spent, crashes>>
        /\ saldo' = [saldo EXCEPT ![s] = amount]
    BY <1>8 DEF SetSaldo, NewSaldo
  <2>2. s \in job.left /\ s \in Sobres
    BY <2>1, HeaviestIsThere DEF NextSobre, Shape
  <2>3. Owner[s] = job.member /\ job.member \in job.todo
    BY <1>0, <2>1, <2>2 DEF Balanced, SobresOf, Settling
  <2>4. s \in Untouched
    BY <2>1, <2>2, <2>3 DEF Untouched, InHand
  <2>5. s' = s /\ Net' = Net
    BY <2>1 DEF NextSobre, Net
  <2>6. InHand = {} /\ InHand' = {s}
    BY <2>1, <2>5 DEF InHand
  <2>. HIDE DEF s
  <2>7. Untouched' \subseteq Untouched \ {s}
    BY <2>1, <2>3, <2>6 DEF Untouched
  <2>8. saldo'[s] = amount /\ \A t \in Sobres \ {s} : saldo'[t] = saldo[t]
    BY <1>0, <2>1, <2>2
  <2>9. \A t : Transferred(t)' = Transferred(t)
    BY <2>1 DEF Transferred, TransfersTo
  <2>10. pc = "next" \/ Settling
    BY <2>1 DEF Settling
  <2>11. \A t \in Untouched' : spent'[t] = 0 => job'.saldos[t] = saldo'[t]
    <3>1. \A t \in Untouched : t \in Sobres
      BY DEF Untouched
    <3> QED BY <2>1, <2>7, <2>8, <2>10, <3>1 DEF SaldosAreTrue
  <2>12. ASSUME crashes = 0, NEW t \in Sobres, spent[t] = 0
         PROVE  saldo'[t] = Opening + Transferred(t)'
                            + (IF t \in InHand' THEN Share(Net', t) ELSE 0)
    <3>1. saldo[t] = Opening + Transferred(t)
      <4>1. saldo[t] = Opening + Transferred(t) + (IF t \in InHand THEN Share(Net, t) ELSE 0)
        BY <2>12 DEF SaldosAreTrue
      <4>2. Transferred(t) \in Nat
        <5>1. TransfersTo(t) \in SUBSET DOMAIN movs
          BY DEF TransfersTo
        <5> QED BY <1>0, <5>1, AmountsAddUp DEF Transferred
      <4> QED BY <1>0, <2>6, <4>1, <4>2
    <3>2. CASE t = s
      <4>1. job.saldos[s] = saldo[s]
        BY <2>4, <2>10, <2>12, <3>2 DEF SaldosAreTrue
      <4> QED BY <2>5, <2>6, <2>8, <2>9, <3>1, <3>2, <4>1
    <3>3. CASE t # s
      <4>1. saldo'[t] = Opening + Transferred(t)' /\ t \notin InHand' /\ saldo'[t] \in Int
        BY <1>0, <2>6, <2>8, <2>9, <3>1, <3>3
      <4> QED BY <4>1
    <3> QED BY <3>2, <3>3
  <2> QED BY <2>1, <2>11, <2>12 DEF SaldosAreTrue
<1>9. CASE RecordTransfer
  <2>. DEFINE s == NextSobre
              v == [corte |-> job.page, to |-> s, amount |-> Share(Net, s)]
  <2>1. /\ pc = "transfer" /\ pc' \in {"pagado", "saldo"} /\ movs' = Append(movs, v)
        /\ UNCHANGED <<saldo, spent, crashes>> /\ Set("left", job.left \ {s})
    BY <1>9 DEF RecordTransfer
  <2>2. /\ v \in Movement /\ v.to = s /\ v.amount = Share(Net, s)
        /\ s \in job.left /\ s \in Sobres
    BY <2>1, DepositTypes
  <2>3. InHand = {s} /\ InHand' = {}
    BY <2>1 DEF InHand
  <2>. HIDE DEF v, s
  <2>4. /\ job'.saldos = job.saldos /\ job'.todo = job.todo /\ job'.member = job.member
        /\ job'.left = job.left \ {s}
    BY <2>1 DEF Set, Shape, Locals
  <2>5. Untouched' \subseteq Untouched
    BY <2>1, <2>3, <2>4 DEF Untouched
  <2>6. /\ pc = "next" \/ Settling
        /\ \A t \in Untouched : t \in Sobres
    BY <2>1 DEF Settling, Untouched
  <2>7. ASSUME crashes = 0, NEW t \in Sobres, spent[t] = 0
        PROVE  saldo'[t] = Opening + Transferred(t)'
    <3>1. saldo[t] = Opening + Transferred(t) + (IF t \in InHand THEN Share(Net, t) ELSE 0)
      BY <2>7 DEF SaldosAreTrue
    <3>2. /\ Transferred(t) \in Nat /\ v.amount \in Nat
          /\ Transferred(t)' = Transferred(t) + (IF v.to = t THEN v.amount ELSE 0)
      BY <2>1, <2>2, <1>More
    <3>3. CASE t = s
      <4>1. /\ saldo[t] = Opening + Transferred(t) + v.amount
            /\ Transferred(t)' = Transferred(t) + v.amount
        BY <2>2, <2>3, <3>1, <3>2, <3>3
      <4> QED BY <1>0, <2>1, <3>2, <4>1
    <3>4. CASE t # s
      <4>1. /\ saldo[t] = Opening + Transferred(t) + 0
            /\ Transferred(t)' = Transferred(t) + 0
        BY <2>2, <2>3, <3>1, <3>2, <3>4
      <4> QED BY <1>0, <2>1, <3>2, <4>1
    <3> QED BY <3>3, <3>4
  <2>8. ASSUME crashes' = 0, NEW t \in Sobres, spent'[t] = 0
        PROVE  saldo'[t] = Opening + Transferred(t)'
                           + (IF t \in InHand' THEN Share(Net, t)' ELSE 0)
    <3>1. saldo'[t] = Opening + Transferred(t)' /\ saldo'[t] \in Int
      BY <1>0, <2>1, <2>7, <2>8
    <3> QED BY <2>3, <3>1
  <2> QED BY <2>1, <2>4, <2>5, <2>6, <2>8 DEF SaldosAreTrue
<1>10. CASE SetPagado
  <2>1. /\ pc = "pagado" /\ pc' = "next" /\ UNCHANGED <<movs, saldo, spent, crashes>>
        /\ job'.saldos = job.saldos /\ job'.todo = job.todo \ {job.member}
        /\ job'.member = job.member
    BY <1>10 DEF SetPagado, NextMember, Set, Shape, Locals
  <2>2. Untouched' \subseteq Untouched
    BY <2>1 DEF Untouched
  <2> QED BY <2>1, <2>2, <1>Quiet DEF Settling
<1>11. CASE \/ \E m \in Members : EditAgenda(m)
            \/ UNCHANGED vars
  <2>1. UNCHANGED <<movs, saldo, spent, crashes, pc, job>>
    BY <1>11 DEF EditAgenda, vars
  <2>2. /\ InHand' = InHand /\ Untouched' = Untouched /\ Net' = Net
        /\ \A s : Transferred(s)' = Transferred(s)
    BY <2>1 DEF InHand, NextSobre, Untouched, Net, Transferred, TransfersTo
  <2> QED BY <2>1, <2>2 DEF SaldosAreTrue, Settling
<1>12. ASSUME NEW s \in Sobres, Spend(s) PROVE SaldosAreTrue'
  <2>1. /\ UNCHANGED <<movs, crashes, pc, job>>
        /\ saldo' = [saldo EXCEPT ![s] = @ - 1] /\ spent' = [spent EXCEPT ![s] = @ + 1]
    BY <1>12 DEF Spend
  <2>2. /\ InHand' = InHand /\ Untouched' = Untouched /\ Net' = Net
        /\ \A t : Transferred(t)' = Transferred(t)
    BY <2>1 DEF InHand, NextSobre, Untouched, Net, Transferred, TransfersTo
  <2>3. /\ spent'[s] # 0
        /\ \A t \in Sobres \ {s} : spent'[t] = spent[t] /\ saldo'[t] = saldo[t]
    BY <1>0, <2>1
  <2>4. \A t \in Untouched : t \in Sobres
    BY DEF Untouched
  <2> QED BY <2>1, <2>2, <2>3, <2>4 DEF SaldosAreTrue, Settling
<1> QED
  BY <1>1, <1>2, <1>3, <1>4, <1>5, <1>6, <1>7, <1>8, <1>9, <1>10, <1>11, <1>12
  DEF Next, Step, People

(***************************************************************************)
(* What the money invariants come to.                                      *)
(***************************************************************************)

\* Whatever fails and is run again, the run knows whom it owes, what it still has to
\* move of the income it recorded, and what the sobres before it hold.
THEOREM MoneyInvariance == Spec => [](PagadoIsTrue /\ Balanced /\ OwedByCrash /\ SaldosAreTrue)
<1>1. Init => PagadoIsTrue /\ Balanced /\ OwedByCrash /\ SaldosAreTrue
  <2>. SUFFICES ASSUME Init PROVE PagadoIsTrue /\ Balanced /\ OwedByCrash /\ SaldosAreTrue
    OBVIOUS
  <2>1. DOMAIN cortes = {} /\ movs = <<>> /\ pc = "idle" /\ ~Settling /\ ~Loaded
    BY DEF Init, Settling, Loaded
  <2>2. PagadoIsTrue /\ Balanced
    BY <2>1 DEF PagadoIsTrue, Balanced
  <2>3. OwedByCrash
    <3>1. Owed = {}
      BY <2>1 DEF Owed
    <3>2. crashes = 0
      BY DEF Init
    <3> QED BY <2>1, <3>1, <3>2, FS_EmptySet DEF OwedByCrash
  <2>4. SaldosAreTrue
    <3>1. InHand = {}
      BY <2>1 DEF InHand
    <3>2. ASSUME NEW s \in Sobres PROVE saldo[s] = Opening + Transferred(s) /\ Opening \in Nat
      <4>1. TransfersTo(s) = {}
        BY <2>1 DEF TransfersTo
      <4>. DEFINE none == [i \in {} |-> movs[i].amount]
      <4>2. Transferred(s) = SumFunction(none)
        BY <4>1 DEF Transferred
      <4>3. SumFunction(none) = SumFunctionOnSet(none, {})
        BY DEF SumFunction
      <4>4. SumFunctionOnSet(none, {}) = 0
        <5>. HIDE DEF none
        <5> QED BY FS_EmptySet, SumOfSome
      <4>5. saldo[s] = Opening /\ Opening \in Nat
        BY CycleCloseAssumption DEF Init
      <4>6. Transferred(s) = 0
        BY <4>2, <4>3, <4>4
      <4> QED BY <4>5, <4>6
    <3>3. \A s \in Sobres : saldo[s] \in Int
      BY CycleCloseAssumption DEF Init
    <3>4. \A s \in Sobres : saldo[s] = Opening + Transferred(s) + 0
      <4>. TAKE s \in Sobres
      <4>1. saldo[s] = Opening + Transferred(s) /\ saldo[s] \in Int
        BY <3>2, <3>3
      <4> QED BY <4>1
    <3> QED BY <2>1, <3>1, <3>4 DEF SaldosAreTrue
  <2> QED BY <2>2, <2>3, <2>4
<1>2. /\ Shape /\ Shape' /\ InductiveInv /\ InductiveInv' /\ Numbers /\ Numbers'
      /\ PagadoIsTrue /\ Balanced /\ OwedByCrash /\ SaldosAreTrue
      /\ [Next]_vars
      => (PagadoIsTrue /\ Balanced /\ OwedByCrash /\ SaldosAreTrue)'
  <2>. SUFFICES ASSUME Shape, Shape', InductiveInv, InductiveInv', Numbers, Numbers',
                       PagadoIsTrue, Balanced, OwedByCrash, SaldosAreTrue, [Next]_vars
                PROVE  (PagadoIsTrue /\ Balanced /\ OwedByCrash /\ SaldosAreTrue)'
    OBVIOUS
  <2>1. PagadoIsTrue'
    BY NextPagado
  <2>2. Balanced'
    BY NextBalanced
  <2>3. OwedByCrash'
    BY NextOwed
  <2>4. SaldosAreTrue'
    BY NextSaldos
  <2> QED BY <2>1, <2>2, <2>3, <2>4
<1> QED BY <1>1, <1>2, Invariance, NumbersHold, PTL DEF Spec

\* Each failure leaves one member's Corte Pagado and not paid in full at most, and the
\* sobres never get more for a Corte than its income.
THEOREM ShortByCrashHolds == Spec => []ShortByCrash
<1>1. Shape /\ Numbers /\ PagadoIsTrue /\ Balanced /\ OwedByCrash => ShortByCrash
  <2>. SUFFICES ASSUME Shape, Numbers, PagadoIsTrue, Balanced, OwedByCrash
                PROVE  ShortByCrash
    OBVIOUS
  <2>. DEFINE short == {page \in DOMAIN cortes : cortes[page].pagado /\ ~PaidInFull(page)}
  <2>0. crashes \in Nat
    BY CycleCloseAssumption DEF Numbers
  <2>1. IsFiniteSet(Owed)
    <3>1. DOMAIN cortes = 1 .. Len(cortes) /\ Len(cortes) \in Nat
      BY LenProperties DEF Shape
    <3>2. IsFiniteSet(DOMAIN cortes) /\ Owed \in SUBSET DOMAIN cortes
      BY <3>1, FS_Interval DEF Owed
    <3> QED BY <3>2, FS_Subset
  <2>2. Cardinality(short) <= crashes
    <3>1. CASE Distribute
      <4>1. short \subseteq Owed
        BY DEF Owed, Clean, PagadoIsTrue
      <4>2. Cardinality(short) <= Cardinality(Owed) /\ Cardinality(Owed) <= crashes
        BY <2>1, <3>1, <4>1, FS_Subset DEF OwedByCrash
      <4>3. Cardinality(short) \in Nat /\ Cardinality(Owed) \in Nat
        BY <2>1, <4>1, FS_Subset, FS_CardinalityType
      <4> QED BY <2>0, <4>2, <4>3
    <3>2. CASE ~Distribute
      <4>1. short = {}
        BY <3>2 DEF OwedByCrash
      <4> QED BY <2>0, <4>1, FS_EmptySet
    <3> QED BY <3>1, <3>2
  <2>3. \A page \in DOMAIN cortes : MovedToSobres(page) <= Moved(page, "income")
    BY DEF Balanced
  <2> QED BY <2>2, <2>3 DEF ShortByCrash
<1> QED BY <1>1, Invariance, NumbersHold, MoneyInvariance, PTL

\* When no run is at work and none has died, the Saldo of a sobre nobody drew from is
\* its Saldo before payday and what was transferred to it.
THEOREM SaldoExplainedHolds == Spec => []SaldoExplained
<1>1. Numbers /\ Shape /\ SaldosAreTrue => SaldoExplained
  <2>. SUFFICES ASSUME Numbers, Shape, SaldosAreTrue, pc = "idle", crashes = 0,
                       NEW s \in Sobres, spent[s] = 0
                PROVE  saldo[s] = Opening + Transferred(s)
    BY DEF SaldoExplained, Transferred
  <2>1. Opening \in Nat /\ Transferred(s) \in Nat
    <3>1. TransfersTo(s) \in SUBSET DOMAIN movs
      BY DEF TransfersTo
    <3> QED BY <3>1, AmountsAddUp, CycleCloseAssumption DEF Transferred, Shape
  <2>2. saldo[s] = Opening + Transferred(s) + 0
    BY DEF SaldosAreTrue, InHand
  <2> QED BY <2>1, <2>2
<1> QED BY <1>1, Invariance, NumbersHold, MoneyInvariance, PTL
=============================================================================
