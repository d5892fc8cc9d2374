------------------------------ MODULE FoldProofs ------------------------------
(***************************************************************************)
(* What the folds of the community modules compute, for the two uses the    *)
(* models make of them: the sum of a function over a finite set, and the    *)
(* left fold of a sequence.  Both are MapThenFoldSet, a recursive function  *)
(* on the subsets of a finite set that takes away one picked element at a   *)
(* time; that such a function exists and is unique follows here from the    *)
(* well-foundedness of strict inclusion.                                    *)
(***************************************************************************)
EXTENDS SequencesExt, Functions, FiniteSetTheorems, TLAPS

Picks(pick, S) == \A s \in SUBSET S : s # {} => pick[s] \in s

Rest(pick, s) == s \ {pick[s]}

\* Among subsets of a finite set there is one that contains no other.
LEMMA SmallestSubset ==
  ASSUME NEW S, IsFiniteSet(S), NEW Family \in SUBSET (SUBSET S), Family # {}
  PROVE  \E s \in Family : \A t \in Family : t \subseteq s => t = s
<1>1. IsWellFoundedOn(StrictSubsetOrdering(S), SUBSET S)
  BY FS_StrictSubsetOrderingWellFounded, FS_FiniteSubsetsOfFinite
<1>2. PICK s \in Family : \A t \in Family : ~(<<t, s>> \in StrictSubsetOrdering(S))
  BY <1>1, WFMin
<1>3. ASSUME NEW t \in Family, t \subseteq s, t # s PROVE FALSE
  <2>1. <<t, s>> \in (SUBSET S) \X (SUBSET S)
    OBVIOUS
  <2>2. <<t, s>> \in StrictSubsetOrdering(S)
    BY <1>3, <2>1 DEF StrictSubsetOrdering
  <2> QED BY <1>2, <2>2
<1> QED BY <1>3

\* Two functions that agree on a set once they agree on the rest of it agree
\* on all subsets.
LEMMA SubsetsAgree ==
  ASSUME NEW S, IsFiniteSet(S), NEW pick, Picks(pick, S), NEW g, NEW h,
         g[{}] = h[{}],
         \A s \in SUBSET S :
            s # {} /\ g[Rest(pick, s)] = h[Rest(pick, s)] => g[s] = h[s]
  PROVE  \A s \in SUBSET S : g[s] = h[s]
<1> DEFINE Differ == {s \in SUBSET S : g[s] # h[s]}
<1> SUFFICES ASSUME Differ # {} PROVE FALSE
  OBVIOUS
<1>1. PICK s \in Differ : \A t \in Differ : t \subseteq s => t = s
  <2>1. Differ \in SUBSET (SUBSET S)
    OBVIOUS
  <2> HIDE DEF Differ
  <2> QED BY <2>1, SmallestSubset
<1>2. s \in SUBSET S /\ s # {} /\ pick[s] \in s
  BY DEF Picks
<1>3. Rest(pick, s) \in SUBSET S /\ Rest(pick, s) \subseteq s /\ Rest(pick, s) # s
  BY <1>2 DEF Rest
<1>4. g[Rest(pick, s)] = h[Rest(pick, s)]
  BY <1>1, <1>3
<1> QED BY <1>2, <1>4

\* it folds op over the subsets of S.
Folds(it, S, base, op, pick) ==
    /\ it[{}] = base
    /\ \A s \in SUBSET S : s # {} => it[s] = op[<<pick[s], it[Rest(pick, s)]>>]

\* A fold over a finite set exists.
LEMMA FoldExists ==
  ASSUME NEW S, IsFiniteSet(S), NEW pick, Picks(pick, S),
         NEW V, NEW base \in V, NEW op \in [S \X V -> V]
  PROVE  \E it \in [SUBSET S -> V] : Folds(it, S, base, op, pick)
<1> DEFINE IsFold(it, T) == it \in [SUBSET T -> V] /\ Folds(it, T, base, op, pick)
           A(T) == CHOOSE it : IsFold(it, T)
           Without == {T \in SUBSET S : ~\E it : IsFold(it, T)}
<1>1. ASSUME NEW T \in SUBSET S, NEW U \in SUBSET T, NEW g, IsFold(g, T), NEW h, IsFold(h, U)
      PROVE  g[U] = h[U]
  <2>1. IsFiniteSet(U) /\ Picks(pick, U)
    BY <1>1, FS_Subset DEF Picks
  <2>2. g[{}] = h[{}]
    BY <1>1 DEF Folds
  <2>3. \A s \in SUBSET U :
          s # {} /\ g[Rest(pick, s)] = h[Rest(pick, s)] => g[s] = h[s]
    BY <1>1 DEF Folds
  <2> QED BY <2>1, <2>2, <2>3, SubsetsAgree
<1>2. ASSUME NEW T \in SUBSET S, \A U \in SUBSET T : U # T => \E it : IsFold(it, U)
      PROVE  \E it : IsFold(it, T)
  <2> DEFINE it == [s \in SUBSET T |->
                      IF s = {} THEN base
                      ELSE op[<<pick[s], A(Rest(pick, s))[Rest(pick, s)]>>]]
  <2>1. ASSUME NEW s \in SUBSET T, s # {}
        PROVE  /\ pick[s] \in S /\ Rest(pick, s) \in SUBSET T /\ Rest(pick, s) # T
               /\ IsFold(A(Rest(pick, s)), Rest(pick, s))
               /\ A(Rest(pick, s))[Rest(pick, s)] \in V
    <3>1. pick[s] \in s /\ s \in SUBSET S
      BY <2>1 DEF Picks
    <3>2. Rest(pick, s) \in SUBSET T /\ Rest(pick, s) # T
      BY <2>1, <3>1 DEF Rest
    <3>3. \E f : IsFold(f, Rest(pick, s))
      BY <1>2, <3>2
    <3>4. IsFold(A(Rest(pick, s)), Rest(pick, s))
      BY <3>3
    <3> QED BY <3>1, <3>2, <3>4
  <2>2. it \in [SUBSET T -> V]
    BY <2>1
  <2>3. ASSUME NEW s \in SUBSET T, s # {}
        PROVE  it[Rest(pick, s)] = A(Rest(pick, s))[Rest(pick, s)]
    <3> DEFINE u == Rest(pick, s)
    <3>1. u \in SUBSET T /\ IsFold(A(u), u)
      BY <2>1, <2>3
    <3> HIDE DEF A, u
    <3>2. CASE u = {}
      <4>1. A(u)[u] = base
        BY <3>1, <3>2 DEF Folds
      <4>2. it[u] = base
        BY <3>1, <3>2
      <4> QED BY <4>1, <4>2 DEF u
    <3>3. CASE u # {}
      <4> DEFINE v == Rest(pick, u)
      <4>1. v \in SUBSET u /\ IsFold(A(v), v)
        BY <2>1, <3>1, <3>3 DEF Rest, A
      <4> HIDE DEF v
      <4>2. A(u)[v] = A(v)[v]
        <5>1. u \in SUBSET S
          BY <3>1
        <5> HIDE DEF IsFold
        <5> QED BY <1>1, <3>1, <4>1, <5>1
      <4>3. A(u)[u] = op[<<pick[u], A(u)[v]>>]
        BY <3>1, <3>3 DEF Folds, v
      <4>4. it[u] = op[<<pick[u], A(v)[v]>>]
        BY <3>1, <3>3 DEF v
      <4> QED BY <4>2, <4>3, <4>4 DEF u
    <3> QED BY <3>2, <3>3 DEF u
  <2>4. it[{}] = base
    OBVIOUS
  <2>5. \A s \in SUBSET T : s # {} => it[s] = op[<<pick[s], it[Rest(pick, s)]>>]
    BY <2>3
  <2> HIDE DEF it
  <2> QED BY <2>2, <2>4, <2>5 DEF Folds
<1>3. Without = {}
  <2> SUFFICES ASSUME Without # {} PROVE FALSE
    OBVIOUS
  <2>1. PICK T \in Without : \A U \in Without : U \subseteq T => U = T
    <3>1. Without \in SUBSET (SUBSET S)
      OBVIOUS
    <3> HIDE DEF Without
    <3> QED BY <3>1, SmallestSubset
  <2>2. T \in SUBSET S /\ \A U \in SUBSET T : U # T => \E it : IsFold(it, U)
    BY <2>1
  <2> QED BY <1>2, <2>1, <2>2
<1>4. \E it : IsFold(it, S)
  BY <1>3
<1> QED BY <1>4
-----------------------------------------------------------------------------
(* Sums.                                                                    *)

First(D) == [s \in SUBSET D |-> CHOOSE x \in s : TRUE]

\* it adds up f over the subsets of D.
Adds(it, f, D) ==
    /\ it[{}] = 0
    /\ \A s \in SUBSET D : s # {} => it[s] = f[First(D)[s]] + it[Rest(First(D), s)]

\* First picks elements, and what it picks is taken away.
LEMMA FirstPicks ==
  ASSUME NEW D
  PROVE  /\ Picks(First(D), D)
         /\ \A s \in SUBSET D : s # {} =>
               /\ First(D)[s] \in s /\ Rest(First(D), s) \in SUBSET D
               /\ First(D)[s] \notin Rest(First(D), s)
BY DEF Picks, First, Rest

\* The definition of the sum, without its operators.
LEMMA SumUnfold ==
  ASSUME NEW D, NEW f \in [D -> Int]
  PROVE  SumFunction(f) =
           (CHOOSE it : it = [s \in SUBSET D |->
              IF s = {} THEN 0
              ELSE f[CHOOSE x \in s : TRUE] + it[s \ {CHOOSE x \in s : TRUE}]])[D]
<1>1. DOMAIN f = D
  OBVIOUS
<1> QED BY <1>1, Zenon DEF SumFunction, SumFunctionOnSet, FoldFunctionOnSet, MapThenFoldSet

\* A sum over a finite set adds up the elements, each once.
LEMMA SumIs ==
  ASSUME NEW D, IsFiniteSet(D), NEW f \in [D -> Int]
  PROVE  \E it \in [SUBSET D -> Int] : Adds(it, f, D) /\ SumFunction(f) = it[D]
<1> DEFINE op == [z \in D \X Int |-> f[z[1]] + z[2]]
           Raw(it) == it = [s \in SUBSET D |->
                              IF s = {} THEN 0
                              ELSE f[CHOOSE x \in s : TRUE] + it[s \ {CHOOSE x \in s : TRUE}]]
           c == CHOOSE it : Raw(it)
<1>1. PICK it \in [SUBSET D -> Int] : Folds(it, D, 0, op, First(D))
  <2>1. op \in [D \X Int -> Int]
    OBVIOUS
  <2>2. Picks(First(D), D) /\ 0 \in Int
    BY FirstPicks
  <2> HIDE DEF op
  <2> QED BY <2>1, <2>2, FoldExists
<1>2. Adds(it, f, D)
  <2>1. it[{}] = 0
    BY <1>1 DEF Folds
  <2>2. ASSUME NEW s \in SUBSET D, s # {}
        PROVE  it[s] = f[First(D)[s]] + it[Rest(First(D), s)]
    <3>1. First(D)[s] \in D /\ it[Rest(First(D), s)] \in Int
      BY <2>2, FirstPicks
    <3>2. it[s] = op[<<First(D)[s], it[Rest(First(D), s)]>>]
      BY <1>1, <2>2 DEF Folds
    <3> QED BY <3>1, <3>2
  <2> QED BY <2>1, <2>2 DEF Adds
<1>3. \A s \in SUBSET D :
        First(D)[s] = (CHOOSE x \in s : TRUE) /\ Rest(First(D), s) = s \ {CHOOSE x \in s : TRUE}
  BY DEF First, Rest
<1>4. Raw(it)
  <2>1. it = [s \in SUBSET D |-> it[s]]
    OBVIOUS
  <2>2. ASSUME NEW s \in SUBSET D
        PROVE  it[s] = IF s = {} THEN 0
                       ELSE f[CHOOSE x \in s : TRUE] + it[s \ {CHOOSE x \in s : TRUE}]
    BY <1>2, <1>3 DEF Adds
  <2> QED BY <2>1, <2>2, Zenon
<1>5. Raw(c)
  <2> HIDE DEF Raw
  <2> QED BY <1>4
<1> HIDE DEF c
<1>6. Adds(c, f, D)
  BY <1>3, <1>5 DEF Adds
<1>7. it[D] = c[D]
  BY <1>2, <1>6, SubsetsAgree, FirstPicks DEF Adds
<1>8. SumFunction(f) = c[D]
  BY SumUnfold DEF c
<1> QED BY <1>2, <1>7, <1>8

\* A sum of integers is one.
LEMMA SumTyped ==
  ASSUME NEW D, IsFiniteSet(D), NEW f \in [D -> Int]
  PROVE  SumFunction(f) \in Int
<1>1. PICK it \in [SUBSET D -> Int] : SumFunction(f) = it[D]
  BY SumIs
<1> QED BY <1>1

\* The sum of zeros is zero.
LEMMA SumOfZeros ==
  ASSUME NEW D, IsFiniteSet(D), NEW f \in [D -> Int], \A x \in D : f[x] = 0
  PROVE  SumFunction(f) = 0
<1>1. PICK it \in [SUBSET D -> Int] : Adds(it, f, D) /\ SumFunction(f) = it[D]
  BY SumIs
<1> DEFINE h == [s \in SUBSET D |-> 0]
<1>2. it[{}] = h[{}]
  BY <1>1 DEF Adds
<1>3. ASSUME NEW s \in SUBSET D, s # {}, it[Rest(First(D), s)] = h[Rest(First(D), s)]
      PROVE  it[s] = h[s]
  BY <1>1, <1>3, FirstPicks DEF Adds
<1>4. it[D] = h[D]
  <2> HIDE DEF h
  <2> QED BY <1>2, <1>3, SubsetsAgree, FirstPicks
<1> QED BY <1>1, <1>4

\* One summand more by n is the sum more by n.
LEMMA SumIncreased ==
  ASSUME NEW D, IsFiniteSet(D), NEW f \in [D -> Int], NEW e \in D, NEW n \in Int,
         NEW g \in [D -> Int], g[e] = f[e] + n, \A x \in D \ {e} : g[x] = f[x]
  PROVE  SumFunction(g) = SumFunction(f) + n
<1>1. PICK it \in [SUBSET D -> Int] : Adds(it, f, D) /\ SumFunction(f) = it[D]
  BY SumIs
<1>2. PICK iu \in [SUBSET D -> Int] : Adds(iu, g, D) /\ SumFunction(g) = iu[D]
  BY SumIs
<1> DEFINE h == [s \in SUBSET D |-> it[s] + IF e \in s THEN n ELSE 0]
<1>3. iu[{}] = h[{}]
  BY <1>1, <1>2 DEF Adds
<1>4. ASSUME NEW s \in SUBSET D, s # {}, iu[Rest(First(D), s)] = h[Rest(First(D), s)]
      PROVE  iu[s] = h[s]
  <2> DEFINE x == First(D)[s]
             r == Rest(First(D), s)
  <2>1. x \in s /\ x \in D /\ r \in SUBSET D /\ x \notin r
    BY <1>4, FirstPicks
  <2>2. e \in s <=> e = x \/ e \in r
    BY <2>1 DEF Rest
  <2>3. iu[s] = g[x] + iu[r] /\ it[s] = f[x] + it[r]
    BY <1>1, <1>2, <1>4 DEF Adds
  <2> HIDE DEF x, r
  <2>4. iu[r] = it[r] + IF e \in r THEN n ELSE 0
    BY <1>4, <2>1 DEF r
  <2>5. it[r] \in Int /\ it[s] \in Int /\ f[x] \in Int
    BY <2>1
  <2>6. CASE e = x
    BY <2>1, <2>2, <2>3, <2>4, <2>5, <2>6
  <2>7. CASE e # x
    BY <2>1, <2>2, <2>3, <2>4, <2>5, <2>7
  <2> QED BY <2>6, <2>7
<1>5. iu[D] = h[D]
  <2> HIDE DEF h
  <2> QED BY <1>3, <1>4, SubsetsAgree, FirstPicks
<1> QED BY <1>1, <1>2, <1>5
-----------------------------------------------------------------------------
(* Counting up, and left folds.                                             *)

\* What holds of 0 and passes from each number to the next holds up to N.
LEMMA CountingUp ==
  ASSUME NEW N \in Nat, NEW Good \in SUBSET (0..N), 0 \in Good,
         \A n \in 0..N : n < N /\ n \in Good => n + 1 \in Good
  PROVE  Good = 0..N
<1> DEFINE Bad == (0..N) \ Good
           Below == {0..n : n \in Bad}
<1> SUFFICES ASSUME Bad # {} PROVE FALSE
  OBVIOUS
<1>1. PICK s \in Below : \A t \in Below : t \subseteq s => t = s
  <2>1. Below \in SUBSET (SUBSET (0..N)) /\ Below # {}
    OBVIOUS
  <2>2. IsFiniteSet(0..N)
    BY FS_Interval
  <2> DEFINE S == 0..N
  <2>3. Below \in SUBSET (SUBSET S) /\ IsFiniteSet(S) /\ Below # {}
    BY <2>1, <2>2
  <2> HIDE DEF Below, S
  <2> QED BY <2>3, SmallestSubset
<1>2. PICK n \in Bad : s = 0..n
  OBVIOUS
<1>3. n \in 1..N /\ n - 1 \in 0..N
  OBVIOUS
<1>4. CASE n - 1 \in Bad
  <2>1. 0..(n - 1) \in Below /\ 0..(n - 1) \subseteq s
    BY <1>2, <1>3, <1>4
  <2>2. n \in s /\ n \notin 0..(n - 1)
    BY <1>2, <1>3
  <2> QED BY <1>1, <2>1, <2>2
<1>5. CASE n - 1 \in Good
  <2>1. n - 1 + 1 \in Good
    BY <1>3, <1>5
  <2> QED BY <1>3, <2>1
<1> QED BY <1>3, <1>4, <1>5

Highest(n) == [s \in SUBSET (1..n) |-> Max(s)]

\* A set of positions that is not empty has a last one.
LEMMA HighestPicks ==
  ASSUME NEW n \in Nat
  PROVE  /\ Picks(Highest(n), 1..n) /\ IsFiniteSet(1..n)
         /\ \A s \in SUBSET (1..n) : s # {} =>
               Max(s) \in s /\ \A y \in s : y <= Max(s)
<1>1. IsFiniteSet(1..n)
  BY FS_Interval
<1>2. ASSUME NEW s \in SUBSET (1..n), s # {}
      PROVE  Max(s) \in s /\ \A y \in s : y <= Max(s)
  <2> DEFINE Above == {k..n : k \in s}
  <2>1. PICK u \in Above : \A t \in Above : t \subseteq u => t = u
    <3> DEFINE S == 1..n
    <3>1. \A k \in s : k..n \in SUBSET (1..n)
      BY <1>2
    <3>2. Above \in SUBSET (SUBSET S) /\ IsFiniteSet(S) /\ Above # {}
      BY <1>1, <1>2, <3>1
    <3> HIDE DEF Above, S
    <3> QED BY <3>2, SmallestSubset
  <2>2. PICK x \in s : u = x..n
    OBVIOUS
  <2>3. ASSUME NEW y \in s, ~(y <= x) PROVE FALSE
    <3>1. y..n \in Above /\ y..n \subseteq u
      BY <2>2, <2>3
    <3>2. x \in u /\ x \notin y..n
      BY <2>2, <2>3
    <3> QED BY <2>1, <3>1, <3>2
  <2>4. \E z \in s : \A y \in s : z >= y
    BY <2>3
  <2>5. Max(s) \in s /\ \A y \in s : Max(s) >= y
    BY <2>4 DEF Max
  <2> QED BY <2>5
<1>3. Picks(Highest(n), 1..n)
  BY <1>2 DEF Picks, Highest
<1> QED BY <1>1, <1>2, <1>3
=============================================================================
