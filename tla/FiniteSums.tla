----------------------------- MODULE FiniteSums -----------------------------
(***************************************************************************)
(* Sums of a function's values over a finite set: what the books of the    *)
(* settlement, the tranches of a deal and the weeks of an engagement add   *)
(* up to.  The sums are the community modules' folds; the lemmas say what  *)
(* the proofs need of them: that the order of the fold does not matter,    *)
(* how one changed value changes the sum, and that a part is at most the   *)
(* whole.                                                                  *)
(*                                                                         *)
(* SetInduction is the induction principle of the proofs: a set G of sets  *)
(* that holds every subset of S all of whose proper subsets it holds,      *)
(* holds every subset of S.                                                *)
(***************************************************************************)
EXTENDS Integers, Sequences, FiniteSets, Functions, FiniteSetTheorems, WellFoundedInduction, TLAPS

SumOn(f, S) == FoldFunctionOnSet(LAMBDA x, y : x + y, 0, f, S)

\* The element the folds of the community modules take first.
Pick(S) == CHOOSE x \in S : TRUE

\* g is the recursive function that the fold of f over S is defined by.
IsFold(g, f, S) ==
    g = [T \in SUBSET S |-> IF T = {} THEN 0 ELSE f[Pick(T)] + g[T \ {Pick(T)}]]

-----------------------------------------------------------------------------
LEMMA SetInduction ==
    ASSUME NEW S, IsFiniteSet(S), NEW G,
           \A T \in SUBSET S : (\A U \in SUBSET T : U # T => U \in G) => T \in G
    PROVE  SUBSET S \subseteq G
<1> DEFINE B == (SUBSET S) \ G
<1>1. SUFFICES ASSUME B # {} PROVE FALSE
  OBVIOUS
<1>2. IsWellFoundedOn(StrictSubsetOrdering(S), FiniteSubsetsOf(S))
  BY FS_StrictSubsetOrderingWellFounded
<1>3. FiniteSubsetsOf(S) = SUBSET S
  BY FS_FiniteSubsetsOfFinite
<1>4. \E T \in B : \A U \in B : <<U, T>> \notin StrictSubsetOrdering(S)
  <2>1. B \subseteq SUBSET S
    OBVIOUS
  <2> HIDE DEF B
  <2> QED
    BY <1>1, <1>2, <1>3, <2>1, WFMin
<1>5. ASSUME NEW T \in B, NEW U \in B, U \subseteq T, U # T
      PROVE  <<U, T>> \in StrictSubsetOrdering(S)
  BY <1>5 DEF StrictSubsetOrdering
<1>6. PICK T \in B : \A U \in B : U \subseteq T => U = T
  <2> HIDE DEF B
  <2> QED
    BY <1>4, <1>5
<1>7. \A U \in SUBSET T : U # T => U \in G
  BY <1>6
<1> QED
  BY <1>7

LEMMA FoldStep ==
    ASSUME NEW f, NEW S, NEW g, IsFold(g, f, S)
    PROVE  /\ g[{}] = 0
           /\ \A T \in SUBSET S : T # {} =>
                  /\ Pick(T) \in T /\ T \ {Pick(T)} \in SUBSET S
                  /\ g[T] = f[Pick(T)] + g[T \ {Pick(T)}]
<1>1. g[{}] = 0
  BY DEF IsFold
<1>2. ASSUME NEW T \in SUBSET S, T # {}
      PROVE  Pick(T) \in T
  BY <1>2 DEF Pick
<1>3. ASSUME NEW T \in SUBSET S, T # {}
      PROVE  g[T] = f[Pick(T)] + g[T \ {Pick(T)}]
  BY <1>3 DEF IsFold
<1> QED
  BY <1>1, <1>2, <1>3

\* The folds over a set and over a larger one agree on what they share.
LEMMA FoldUnique ==
    ASSUME NEW f, NEW S, NEW R, NEW g, NEW h, IsFiniteSet(S),
           IsFold(g, f, S), IsFold(h, f, R), S \subseteq R
    PROVE  \A T \in SUBSET S : g[T] = h[T]
<1> DEFINE Inductive == {T \in SUBSET S : g[T] = h[T]}
<1>1. SUFFICES ASSUME NEW T \in SUBSET S, T \notin Inductive,
                      \A U \in SUBSET T : U # T => U \in Inductive
               PROVE  FALSE
  <2>1. SUBSET S \subseteq Inductive
    <3> HIDE DEF Inductive
    <3> QED
      BY <1>1, SetInduction
  <2> QED
    BY <2>1
<1>2. T # {}
  <2>1. g[{}] = 0 /\ h[{}] = 0
    BY FoldStep
  <2> QED
    BY <1>1, <2>1
<1>3. Pick(T) \in T
  BY <1>2, FoldStep
<1>4. g[T \ {Pick(T)}] = h[T \ {Pick(T)}]
  BY <1>1, <1>3
<1>5. g[T] = f[Pick(T)] + g[T \ {Pick(T)}] /\ h[T] = f[Pick(T)] + h[T \ {Pick(T)}]
  BY <1>2, FoldStep
<1> QED
  BY <1>1, <1>4, <1>5

LEMMA FoldExists ==
    ASSUME NEW f, NEW S, IsFiniteSet(S)
    PROVE  \E g : IsFold(g, f, S)
<1> DEFINE Inductive == {T \in SUBSET S : \E g : IsFold(g, f, T)}
<1>1. SUFFICES ASSUME NEW T \in SUBSET S, T \notin Inductive,
                      \A U \in SUBSET T : U # T => U \in Inductive
               PROVE  FALSE
  <2>1. SUBSET S \subseteq Inductive
    <3> HIDE DEF Inductive
    <3> QED
      BY <1>1, SetInduction
  <2> QED
    BY <2>1
<1> DEFINE fold(V) == CHOOSE g : IsFold(g, f, V)
           G(V) == fold(V)[V]
           h == [V \in SUBSET T |-> IF V = {} THEN 0 ELSE f[Pick(V)] + G(V \ {Pick(V)})]
<1>2. ASSUME NEW V \in SUBSET T, V # T PROVE IsFold(fold(V), f, V)
  BY <1>1, <1>2
<1>3. ASSUME NEW V \in SUBSET T, V # {}
      PROVE  V \ {Pick(V)} \in SUBSET T /\ V \ {Pick(V)} # T
  BY <1>3 DEF Pick
<1>4. ASSUME NEW V \in SUBSET T, V # T PROVE G(V) = h[V]
  <2>1. IsFold(fold(V), f, V)
    BY <1>2, <1>4
  <2>2. CASE V = {}
    <3>1. fold(V)[{}] = 0
      BY <2>1, FoldStep
    <3> QED
      BY <3>1, <2>2
  <2>3. CASE V # {}
    <3> DEFINE W == V \ {Pick(V)}
    <3>1. W \in SUBSET T /\ W # T /\ W \subseteq V
      BY <1>3, <2>3
    <3>2. IsFold(fold(W), f, W)
      BY <1>2, <3>1
    <3>3. IsFiniteSet(W)
      BY FS_Subset
    <3>4. fold(W)[W] = fold(V)[W]
      <4> HIDE DEF W, fold
      <4> QED BY <2>1, <3>1, <3>2, <3>3, FoldUnique
    <3>5. fold(V)[V] = f[Pick(V)] + fold(V)[W]
      BY <2>1, <2>3, FoldStep
    <3>6. h[V] = f[Pick(V)] + G(W)
      BY <2>3
    <3> QED
      BY <3>4, <3>5, <3>6
  <2> QED
    BY <2>2, <2>3
<1>5. ASSUME NEW V \in SUBSET T, V # {} PROVE G(V \ {Pick(V)}) = h[V \ {Pick(V)}]
  BY <1>3, <1>4, <1>5
<1>6. h = [V \in SUBSET T |-> IF V = {} THEN 0 ELSE f[Pick(V)] + h[V \ {Pick(V)}]]
  <2> DEFINE k == [V \in SUBSET T |-> IF V = {} THEN 0 ELSE f[Pick(V)] + h[V \ {Pick(V)}]]
  <2>1. ASSUME NEW V \in SUBSET T PROVE h[V] = k[V]
    <3>1. CASE V = {}
      BY <3>1
    <3>2. CASE V # {}
      <4>1. h[V] = f[Pick(V)] + G(V \ {Pick(V)})
        BY <3>2
      <4>2. k[V] = f[Pick(V)] + h[V \ {Pick(V)}]
        <5> HIDE DEF h
        <5> QED BY <3>2
      <4> QED
        BY <4>1, <4>2, <3>2, <1>5
    <3> QED
      BY <3>1, <3>2
  <2>2. h = [V \in SUBSET T |-> h[V]] /\ k = [V \in SUBSET T |-> k[V]]
    OBVIOUS
  <2> HIDE DEF h, k
  <2>3. h = k
    BY <2>1, <2>2
  <2> QED
    BY <2>3 DEF k
<1>7. IsFold(h, f, T)
  <2> HIDE DEF h
  <2> QED BY <1>6 DEF IsFold
<1> QED
  BY <1>1, <1>7

LEMMA SumIsFold ==
    ASSUME NEW f, NEW S, IsFiniteSet(S)
    PROVE  \E g : IsFold(g, f, S) /\ SumOn(f, S) = g[S]
<1> DEFINE step(g) == [s \in SUBSET S |->
                          IF s = {} THEN 0
                          ELSE f[CHOOSE x \in s : TRUE] + g[s \ {CHOOSE x \in s : TRUE}]]
           iter == CHOOSE g : g = step(g)
<1>1. PICK g : IsFold(g, f, S)
  BY FoldExists
<1>2. g = step(g)
  BY <1>1 DEF IsFold, Pick
<1>3. iter = step(iter)
  <2> HIDE DEF step
  <2> QED BY <1>2
<1>4. SumOn(f, S) = iter[S]
  BY DEF SumOn, FoldFunctionOnSet, MapThenFoldSet
<1>5. IsFold(iter, f, S)
  <2> HIDE DEF iter
  <2> QED BY <1>3 DEF IsFold, Pick
<1> QED
  BY <1>4, <1>5

-----------------------------------------------------------------------------
\* The sum over a set, by the element the fold takes first.
LEMMA SumStep ==
    ASSUME NEW f, NEW S, IsFiniteSet(S)
    PROVE  /\ SumOn(f, {}) = 0
           /\ S # {} => /\ Pick(S) \in S
                        /\ SumOn(f, S) = f[Pick(S)] + SumOn(f, S \ {Pick(S)})
<1>1. SumOn(f, {}) = 0
  <2>1. IsFiniteSet({})
    BY FS_EmptySet
  <2>2. PICK g : IsFold(g, f, {}) /\ SumOn(f, {}) = g[{}]
    BY <2>1, SumIsFold
  <2> QED
    BY <2>2, FoldStep
<1>2. ASSUME S # {}
      PROVE  Pick(S) \in S /\ SumOn(f, S) = f[Pick(S)] + SumOn(f, S \ {Pick(S)})
  <2> DEFINE R == S \ {Pick(S)}
  <2>1. PICK g : IsFold(g, f, S) /\ SumOn(f, S) = g[S]
    BY SumIsFold
  <2>2. IsFiniteSet(R)
    BY FS_Subset
  <2>3. PICK h : IsFold(h, f, R) /\ SumOn(f, R) = h[R]
    BY <2>2, SumIsFold
  <2>4. h[R] = g[R]
    <3>1. R \subseteq S /\ R \in SUBSET R
      OBVIOUS
    <3> HIDE DEF R
    <3> QED BY <2>1, <2>2, <2>3, <3>1, FoldUnique
  <2>5. Pick(S) \in S /\ g[S] = f[Pick(S)] + g[R]
    BY <1>2, <2>1, FoldStep
  <2> QED
    BY <2>1, <2>3, <2>4, <2>5
<1> QED
  BY <1>1, <1>2

LEMMA SumType ==
    ASSUME NEW f, NEW S, IsFiniteSet(S), \A x \in S : f[x] \in Int
    PROVE  \A T \in SUBSET S : SumOn(f, T) \in Int
<1> DEFINE Inductive == {T \in SUBSET S : SumOn(f, T) \in Int}
<1>1. SUFFICES ASSUME NEW T \in SUBSET S, T \notin Inductive,
                      \A U \in SUBSET T : U # T => U \in Inductive
               PROVE  FALSE
  <2>1. SUBSET S \subseteq Inductive
    <3> HIDE DEF Inductive
    <3> QED
      BY <1>1, SetInduction
  <2> QED
    BY <2>1
<1>2. IsFiniteSet(T)
  BY FS_Subset
<1>3. T # {}
  <2>1. SumOn(f, {}) = 0
    BY <1>2, SumStep
  <2>2. SumOn(f, {}) \in Int
    BY <2>1
  <2>3. SumOn(f, T) \notin Int
    BY <1>1
  <2> QED
    BY <2>2, <2>3
<1>4. Pick(T) \in T /\ SumOn(f, T) = f[Pick(T)] + SumOn(f, T \ {Pick(T)})
  BY <1>2, <1>3, SumStep
<1>5. SumOn(f, T \ {Pick(T)}) \in Int
  BY <1>1, <1>4
<1> QED
  BY <1>1, <1>4, <1>5

\* The order of the fold does not matter: any element can be taken out first.
LEMMA SumRemove ==
    ASSUME NEW f, NEW S, IsFiniteSet(S), \A x \in S : f[x] \in Int
    PROVE  \A T \in SUBSET S : \A x \in T : SumOn(f, T) = f[x] + SumOn(f, T \ {x})
<1> DEFINE Inductive == {T \in SUBSET S : \A x \in T : SumOn(f, T) = f[x] + SumOn(f, T \ {x})}
<1>1. SUFFICES ASSUME NEW T \in SUBSET S, T \notin Inductive,
                      \A U \in SUBSET T : U # T => U \in Inductive
               PROVE  FALSE
  <2>1. SUBSET S \subseteq Inductive
    <3> HIDE DEF Inductive
    <3> QED
      BY <1>1, SetInduction
  <2> QED
    BY <2>1
<1>2. PICK x \in T : SumOn(f, T) # f[x] + SumOn(f, T \ {x})
  BY <1>1
<1> DEFINE p == Pick(T)
<1>3. IsFiniteSet(T) /\ IsFiniteSet(T \ {x})
  BY FS_Subset
<1>4. p \in T /\ SumOn(f, T) = f[p] + SumOn(f, T \ {p})
  BY <1>3, SumStep
<1>5. p # x
  BY <1>2, <1>4
<1>6. SumOn(f, T \ {p}) = f[x] + SumOn(f, (T \ {p}) \ {x})
  BY <1>1, <1>4, <1>5
<1>7. SumOn(f, T \ {x}) = f[p] + SumOn(f, (T \ {x}) \ {p})
  BY <1>1, <1>4, <1>5
<1>8. (T \ {p}) \ {x} = (T \ {x}) \ {p}
  OBVIOUS
<1>9. SumOn(f, (T \ {p}) \ {x}) \in Int /\ f[p] \in Int /\ f[x] \in Int
  BY <1>4, SumType
<1> DEFINE a == SumOn(f, (T \ {p}) \ {x})
           b == SumOn(f, T \ {x})
<1>10. SumOn(f, T) = f[p] + (f[x] + a) /\ b = f[p] + a
  BY <1>4, <1>6, <1>7, <1>8
<1>11. a \in Int /\ f[p] \in Int /\ f[x] \in Int /\ SumOn(f, T) # f[x] + b
  BY <1>9, <1>2
<1> HIDE DEF p, a, b, Inductive
<1> QED
  BY <1>1, <1>10, <1>11

LEMMA SumCongruence ==
    ASSUME NEW f, NEW g, NEW S, IsFiniteSet(S), \A x \in S : f[x] = g[x]
    PROVE  SumOn(f, S) = SumOn(g, S)
<1> DEFINE Inductive == {T \in SUBSET S : SumOn(f, T) = SumOn(g, T)}
<1>1. SUFFICES ASSUME NEW T \in SUBSET S, T \notin Inductive,
                      \A U \in SUBSET T : U # T => U \in Inductive
               PROVE  FALSE
  <2>1. SUBSET S \subseteq Inductive
    <3> HIDE DEF Inductive
    <3> QED
      BY <1>1, SetInduction
  <2> QED
    BY <2>1
<1>2. IsFiniteSet(T)
  BY FS_Subset
<1>3. T # {}
  <2>1. SumOn(f, {}) = 0 /\ SumOn(g, {}) = 0
    BY <1>2, SumStep
  <2> QED
    BY <1>1, <2>1
<1>4. /\ Pick(T) \in T
      /\ SumOn(f, T) = f[Pick(T)] + SumOn(f, T \ {Pick(T)})
      /\ SumOn(g, T) = g[Pick(T)] + SumOn(g, T \ {Pick(T)})
  BY <1>2, <1>3, SumStep
<1>5. SumOn(f, T \ {Pick(T)}) = SumOn(g, T \ {Pick(T)})
  BY <1>1, <1>4
<1> QED
  BY <1>1, <1>4, <1>5

\* A sum of natural numbers is one.
LEMMA SumNat ==
    ASSUME NEW f, NEW S, IsFiniteSet(S), \A x \in S : f[x] \in Nat
    PROVE  SumOn(f, S) \in Nat
<1> DEFINE Inductive == {T \in SUBSET S : SumOn(f, T) \in Nat}
<1>1. SUFFICES ASSUME NEW T \in SUBSET S, T \notin Inductive,
                      \A U \in SUBSET T : U # T => U \in Inductive
               PROVE  FALSE
  <2>1. SUBSET S \subseteq Inductive
    <3> HIDE DEF Inductive
    <3> QED
      BY <1>1, SetInduction
  <2> QED
    BY <2>1
<1>2. IsFiniteSet(T)
  BY FS_Subset
<1>3. T # {}
  <2>1. SumOn(f, {}) = 0
    BY <1>2, SumStep
  <2>2. SumOn(f, {}) \in Nat
    BY <2>1
  <2>3. SumOn(f, T) \notin Nat
    BY <1>1
  <2> QED
    BY <2>2, <2>3
<1>4. Pick(T) \in T /\ SumOn(f, T) = f[Pick(T)] + SumOn(f, T \ {Pick(T)})
  BY <1>2, <1>3, SumStep
<1>5. SumOn(f, T \ {Pick(T)}) \in Nat
  BY <1>1, <1>4
<1> QED
  BY <1>1, <1>4, <1>5

LEMMA SumZero ==
    ASSUME NEW f, NEW S, IsFiniteSet(S), \A x \in S : f[x] = 0
    PROVE  SumOn(f, S) = 0
<1> DEFINE Inductive == {T \in SUBSET S : SumOn(f, T) = 0}
<1>1. SUFFICES ASSUME NEW T \in SUBSET S, T \notin Inductive,
                      \A U \in SUBSET T : U # T => U \in Inductive
               PROVE  FALSE
  <2>1. SUBSET S \subseteq Inductive
    <3> HIDE DEF Inductive
    <3> QED
      BY <1>1, SetInduction
  <2> QED
    BY <2>1
<1>2. IsFiniteSet(T)
  BY FS_Subset
<1>3. T # {}
  BY <1>1, <1>2, SumStep
<1>4. Pick(T) \in T /\ SumOn(f, T) = f[Pick(T)] + SumOn(f, T \ {Pick(T)})
  BY <1>2, <1>3, SumStep
<1>5. SumOn(f, T \ {Pick(T)}) = 0 /\ f[Pick(T)] = 0
  BY <1>1, <1>4
<1> QED
  BY <1>1, <1>4, <1>5

\* One changed value changes the sum by the change.
LEMMA SumChange ==
    ASSUME NEW f, NEW g, NEW S, IsFiniteSet(S), NEW x \in S,
           \A y \in S : f[y] \in Int /\ g[y] \in Int,
           \A y \in S : y # x => f[y] = g[y]
    PROVE  SumOn(g, S) = SumOn(f, S) + (g[x] - f[x])
<1> DEFINE R == S \ {x}
<1>1. IsFiniteSet(R)
  BY FS_Subset
<1>2. SumOn(f, R) = SumOn(g, R)
  <2>1. \A y \in R : f[y] = g[y]
    OBVIOUS
  <2> HIDE DEF R
  <2> QED BY <1>1, <2>1, SumCongruence
<1>3. SumOn(f, S) = f[x] + SumOn(f, R)
  BY SumRemove
<1>4. SumOn(g, S) = g[x] + SumOn(g, R)
  BY SumRemove
<1>5. SumOn(f, R) \in Int
  BY SumType
<1> HIDE DEF R
<1> QED
  BY <1>2, <1>3, <1>4, <1>5

\* A part is at most the whole.
LEMMA SumPart ==
    ASSUME NEW f, NEW S, NEW P, IsFiniteSet(S), P \subseteq S, \A x \in S : f[x] \in Nat
    PROVE  SumOn(f, P) <= SumOn(f, S)
<1> DEFINE Inductive == {T \in SUBSET S : P \subseteq T => SumOn(f, P) <= SumOn(f, T)}
<1>1. SUFFICES ASSUME NEW T \in SUBSET S, T \notin Inductive,
                      \A U \in SUBSET T : U # T => U \in Inductive
               PROVE  FALSE
  <2>1. SUBSET S \subseteq Inductive
    <3> HIDE DEF Inductive
    <3> QED
      BY <1>1, SetInduction
  <2> QED
    BY <2>1
<1>2. SumOn(f, P) \in Int
  BY SumType
<1>3. PICK x \in T : x \notin P
  <2>1. T # P /\ P \subseteq T
    BY <1>1, <1>2
  <2> QED
    BY <2>1
<1>4. SumOn(f, P) <= SumOn(f, T \ {x})
  BY <1>1, <1>3
<1>5. SumOn(f, T) = f[x] + SumOn(f, T \ {x}) /\ SumOn(f, T \ {x}) \in Int /\ f[x] \in Nat
  BY SumRemove, SumType
<1> DEFINE a == SumOn(f, T \ {x})
<1>6. SumOn(f, P) <= a /\ SumOn(f, T) = f[x] + a /\ a \in Int /\ f[x] \in Nat
  BY <1>4, <1>5
<1>7. ~ (SumOn(f, P) <= SumOn(f, T))
  BY <1>1
<1> HIDE DEF a, Inductive
<1> QED
  BY <1>1, <1>2, <1>6, <1>7

\* What a sequence's first members come to: at most the whole, and one more adds its own.
LEMMA PartialSums ==
    ASSUME NEW s \in Seq(Nat), NEW k \in Nat, k <= Len(s)
    PROVE  /\ SumOn(s, 1..k) \in Nat /\ SumOn(s, 1..k) <= SumOn(s, 1..Len(s))
           /\ SumOn(s, 1..0) = 0
           /\ k < Len(s) => /\ s[k + 1] \in Nat
                            /\ SumOn(s, 1..(k + 1)) = SumOn(s, 1..k) + s[k + 1]
<1> DEFINE n == Len(s)
<1>1. n \in Nat /\ k <= n /\ \A i \in 1..n : s[i] \in Nat /\ s[i] \in Int
  OBVIOUS
<1> HIDE DEF n
<1>2. IsFiniteSet(1..n) /\ IsFiniteSet(1..k) /\ IsFiniteSet(1..(k + 1))
  <2>1. 1 \in Int /\ n \in Int /\ k \in Int /\ k + 1 \in Int
    BY <1>1
  <2> QED BY <2>1, FS_Interval
<1>3. 1..k \subseteq 1..n /\ \A i \in 1..k : s[i] \in Nat
  BY <1>1
<1>4. SumOn(s, 1..k) \in Nat
  BY <1>2, <1>3, SumNat
<1>5. SumOn(s, 1..k) <= SumOn(s, 1..n)
  BY <1>1, <1>2, <1>3, SumPart
<1>6. SumOn(s, 1..0) = 0
  <2>1. 1..0 = {} /\ IsFiniteSet({})
    BY FS_EmptySet
  <2> QED BY <2>1, SumStep
<1>7. ASSUME k < n
      PROVE  /\ s[k + 1] \in Nat
             /\ SumOn(s, 1..(k + 1)) = SumOn(s, 1..k) + s[k + 1]
  <2> DEFINE m == k + 1
             P == 1..m
  <2>1. m \in 1..n /\ P \subseteq 1..n /\ m \in P
    BY <1>1, <1>7
  <2>2. P \ {m} = 1..k
    BY <1>1
  <2>3. s[m] \in Nat
    BY <1>1, <2>1
  <2> HIDE DEF m, P
  <2> DEFINE R == 1..n
             a == SumOn(s, 1..k)
             b == SumOn(s, P)
  <2>4. P \subseteq R /\ IsFiniteSet(R) /\ \A i \in R : s[i] \in Int
    BY <1>1, <1>2, <2>1
  <2> HIDE DEF R
  <2>5. SumOn(s, P) = s[m] + SumOn(s, P \ {m})
    <3>1. \A T \in SUBSET R : \A x \in T : SumOn(s, T) = s[x] + SumOn(s, T \ {x})
      BY <2>4, SumRemove
    <3> QED BY <2>1, <2>4, <3>1
  <2>6. a \in Nat /\ b = s[m] + a
    BY <1>4, <2>2, <2>5
  <2> HIDE DEF a, b
  <2>7. b = a + s[m]
    BY <2>3, <2>6
  <2> QED BY <2>3, <2>7 DEF m, P, a, b
<1> QED BY <1>4, <1>5, <1>6, <1>7 DEF n

\* Two sums together are at most two others, when they are so value by value.
LEMMA SumPairs ==
    ASSUME NEW f, NEW g, NEW h, NEW i, NEW S, IsFiniteSet(S),
           \A x \in S : f[x] \in Int /\ g[x] \in Int /\ h[x] \in Int /\ i[x] \in Int,
           \A x \in S : f[x] + g[x] <= h[x] + i[x]
    PROVE  SumOn(f, S) + SumOn(g, S) <= SumOn(h, S) + SumOn(i, S)
<1> DEFINE Inductive == {T \in SUBSET S : SumOn(f, T) + SumOn(g, T) <= SumOn(h, T) + SumOn(i, T)}
<1>1. SUFFICES ASSUME NEW T \in SUBSET S, T \notin Inductive,
                      \A U \in SUBSET T : U # T => U \in Inductive
               PROVE  FALSE
  <2>1. SUBSET S \subseteq Inductive
    <3> HIDE DEF Inductive
    <3> QED
      BY <1>1, SetInduction
  <2> QED
    BY <2>1
<1>2. SumOn(f, {}) = 0 /\ SumOn(g, {}) = 0 /\ SumOn(h, {}) = 0 /\ SumOn(i, {}) = 0
  BY SumStep
<1>3. PICK x \in T : TRUE
  <2>1. CASE T = {}
    BY <1>1, <1>2, <2>1
  <2> QED BY <2>1
<1>4. SumOn(f, T \ {x}) + SumOn(g, T \ {x}) <= SumOn(h, T \ {x}) + SumOn(i, T \ {x})
  BY <1>1, <1>3
<1>5. /\ SumOn(f, T) = f[x] + SumOn(f, T \ {x}) /\ SumOn(f, T \ {x}) \in Int
      /\ SumOn(g, T) = g[x] + SumOn(g, T \ {x}) /\ SumOn(g, T \ {x}) \in Int
      /\ SumOn(h, T) = h[x] + SumOn(h, T \ {x}) /\ SumOn(h, T \ {x}) \in Int
      /\ SumOn(i, T) = i[x] + SumOn(i, T \ {x}) /\ SumOn(i, T \ {x}) \in Int
  <2>1. T \ {x} \in SUBSET S /\ x \in T /\ T \in SUBSET S
    BY <1>3
  <2>2. SumOn(f, T) = f[x] + SumOn(f, T \ {x}) /\ SumOn(f, T \ {x}) \in Int
    BY <2>1, SumRemove, SumType
  <2>3. SumOn(g, T) = g[x] + SumOn(g, T \ {x}) /\ SumOn(g, T \ {x}) \in Int
    BY <2>1, SumRemove, SumType
  <2>4. SumOn(h, T) = h[x] + SumOn(h, T \ {x}) /\ SumOn(h, T \ {x}) \in Int
    BY <2>1, SumRemove, SumType
  <2>5. SumOn(i, T) = i[x] + SumOn(i, T \ {x}) /\ SumOn(i, T \ {x}) \in Int
    BY <2>1, SumRemove, SumType
  <2> QED BY <2>2, <2>3, <2>4, <2>5
<1>6. f[x] + g[x] <= h[x] + i[x] /\ f[x] \in Int /\ g[x] \in Int /\ h[x] \in Int /\ i[x] \in Int
  BY <1>3
<1>7. ~ (SumOn(f, T) + SumOn(g, T) <= SumOn(h, T) + SumOn(i, T))
  BY <1>1
<1> DEFINE a == SumOn(f, T \ {x})
           b == SumOn(g, T \ {x})
           c == SumOn(h, T \ {x})
           d == SumOn(i, T \ {x})
<1>8. /\ a \in Int /\ b \in Int /\ c \in Int /\ d \in Int /\ a + b <= c + d
      /\ SumOn(f, T) = f[x] + a /\ SumOn(g, T) = g[x] + b /\ SumOn(h, T) = h[x] + c /\ SumOn(i, T) = i[x] + d
  BY <1>4, <1>5
<1> HIDE DEF a, b, c, d, Inductive
<1>9. ~ ((f[x] + a) + (g[x] + b) <= (h[x] + c) + (i[x] + d))
  BY <1>7, <1>8
<1> QED BY <1>6, <1>8, <1>9

\* A sum of values none of which is more is no more.
LEMMA SumMonotone ==
    ASSUME NEW f, NEW h, NEW S, IsFiniteSet(S),
           \A x \in S : f[x] \in Int /\ h[x] \in Int,
           \A x \in S : f[x] <= h[x]
    PROVE  SumOn(f, S) <= SumOn(h, S)
<1>1. \A x \in S : f[x] + f[x] <= h[x] + f[x]
  OBVIOUS
<1>2. SumOn(f, S) + SumOn(f, S) <= SumOn(h, S) + SumOn(f, S)
  BY <1>1, SumPairs
<1>3. SumOn(f, S) \in Int /\ SumOn(h, S) \in Int
  <2>1. S \in SUBSET S
    OBVIOUS
  <2> QED BY <2>1, SumType
<1> QED BY <1>2, <1>3

\* Where a part of the set drops by c each and the rest stays, the sum drops by c for each of them.
LEMMA SumDrop ==
    ASSUME NEW f, NEW g, NEW S, IsFiniteSet(S), NEW B \in SUBSET S, NEW c \in Int,
           \A x \in S : f[x] \in Int /\ g[x] \in Int,
           \A x \in S : IF x \in B THEN f[x] = g[x] + c ELSE f[x] = g[x]
    PROVE  SumOn(f, S) = SumOn(g, S) + c * Cardinality(B)
<1> DEFINE Inductive == {T \in SUBSET S : SumOn(f, T) = SumOn(g, T) + c * Cardinality(T \cap B)}
<1>1. SUFFICES SUBSET S \subseteq Inductive
  <2>1. S \cap B = B
    OBVIOUS
  <2>2. S \in Inductive
    BY <1>1
  <2> QED BY <2>1, <2>2
<1>2. SUFFICES ASSUME NEW T \in SUBSET S, T \notin Inductive,
                      \A U \in SUBSET T : U # T => U \in Inductive
               PROVE  FALSE
  <2>1. SUBSET S \subseteq Inductive
    <3> HIDE DEF Inductive
    <3> QED
      BY <1>2, SetInduction
  <2> QED
    BY <2>1
<1>3. CASE T = {}
  <2>1. SumOn(f, T) = 0 /\ SumOn(g, T) = 0
    BY <1>3, SumStep
  <2>2. T \cap B = {} /\ c * 0 = 0
    BY <1>3
  <2>3. Cardinality(T \cap B) = 0
    BY <2>2, FS_EmptySet
  <2>4. SumOn(f, T) = SumOn(g, T) + c * Cardinality(T \cap B)
    BY <2>1, <2>2, <2>3
  <2> QED BY <1>2, <2>4
<1>4. CASE T # {}
  <2>1. PICK x \in T : TRUE
    BY <1>4
  <2> DEFINE U == T \ {x}
             P == T \cap B
  <2>2. U \in SUBSET T /\ U # T /\ U \in SUBSET S
    BY <2>1
  <2>3. SumOn(f, U) = SumOn(g, U) + c * Cardinality(U \cap B)
    BY <1>2, <2>2
  <2>4. SumOn(f, T) = f[x] + SumOn(f, U) /\ SumOn(g, T) = g[x] + SumOn(g, U)
    BY <2>1, SumRemove
  <2>5. SumOn(f, U) \in Int /\ SumOn(g, U) \in Int
    BY <2>2, SumType
  <2>6. IsFiniteSet(P) /\ Cardinality(P) \in Nat
    <3>1. IsFiniteSet(T)
      BY FS_Subset
    <3> QED BY <3>1, FS_Intersection, FS_CardinalityType
  <2>7. U \cap B = P \ {x} /\ (x \in P <=> x \in B)
    BY <2>1
  <2>8. Cardinality(U \cap B) = IF x \in B THEN Cardinality(P) - 1 ELSE Cardinality(P)
    <3> HIDE DEF P, U
    <3> QED BY <2>6, <2>7, FS_RemoveElement
  <2>9. f[x] \in Int /\ g[x] \in Int /\ (IF x \in B THEN f[x] = g[x] + c ELSE f[x] = g[x])
    BY <2>1
  <2>10. SumOn(f, T) # SumOn(g, T) + c * Cardinality(P)
    BY <1>2
  <2> DEFINE n == Cardinality(P)
             m == Cardinality(U \cap B)
             p == c * n
             q == c * m
  <2>11. n \in Nat /\ m = (IF x \in B THEN n - 1 ELSE n)
    BY <2>6, <2>8
  <2>12. SumOn(f, U) = SumOn(g, U) + q /\ SumOn(f, T) # SumOn(g, T) + p
    BY <2>3, <2>10
  <2> HIDE DEF n, m, U, P
  <2>13. p \in Int /\ q \in Int /\ p = (IF x \in B THEN q + c ELSE q)
    BY <2>11
  <2> HIDE DEF p, q
  <2> QED BY <2>4, <2>5, <2>9, <2>12, <2>13
<1> QED BY <1>3, <1>4

-----------------------------------------------------------------------------
(***************************************************************************)
(* What a share of an amount, or a part of a price, is worth.              *)
(***************************************************************************)
LEMMA QuotientBounds ==
    ASSUME NEW p \in Nat, NEW b \in Nat, b > 0
    PROVE  p \div b \in Nat /\ b * (p \div b) <= p /\ p < b * (p \div b) + b
OBVIOUS

LEMMA NextMultiple ==
    ASSUME NEW x \in Nat, NEW y \in Nat, NEW b \in Nat, b > 0, x > y
    PROVE  b * x >= b * y + b
<1>1. x >= y + 1
  OBVIOUS
<1>2. b * x >= b * (y + 1)
  BY <1>1
<1>3. b * (y + 1) = b * y + b
  OBVIOUS
<1>4. b * x \in Int /\ b * y \in Int /\ b * (y + 1) \in Int
  OBVIOUS
<1> QED BY <1>2, <1>3, <1>4

LEMMA QuotientMonotone ==
    ASSUME NEW p \in Nat, NEW q \in Nat, NEW b \in Nat, b > 0, p <= q
    PROVE  p \div b <= q \div b
<1> DEFINE x == p \div b
           y == q \div b
<1>1. x \in Nat /\ y \in Nat /\ b * x <= p /\ q < b * y + b
  BY QuotientBounds
<1> HIDE DEF x, y
<1>2. ASSUME x > y PROVE FALSE
  <2>1. b * x >= b * y + b
    BY <1>1, <1>2, NextMultiple
  <2>2. b * x \in Int /\ b * y \in Int
    BY <1>1
  <2> QED BY <1>1, <2>1, <2>2
<1>3. x <= y
  BY <1>1, <1>2
<1> QED BY <1>3 DEF x, y

====
