---------------------------- MODULE MarketProofs ----------------------------
(***************************************************************************)
(* Proofs about Indicators, for any candles, any length of the series and  *)
(* any periods: what the averages compute, that they stay within the       *)
(* prices, that momentum reads moves alone, and what warms up when.  And   *)
(* about MarketCache, for any tasks, any age limit, any latency of the     *)
(* requests and however long the clock runs: how old a snapshot can be.    *)
(*                                                                         *)
(* The totals and averages of the indicators are folds over sequences.     *)
(* The first part derives induction on the natural numbers from the        *)
(* well-foundedness of strict inclusion; from it follows that each fold is *)
(* a sequence of steps, one per position, and an induction along those     *)
(* steps proves every fact about totals, powers and averages.              *)
(***************************************************************************)
EXTENDS MarketCache, Indicators, FiniteSetTheorems, SequenceTheorems, TLAPS

-----------------------------------------------------------------------------
(* Induction.                                                              *)

\* A set that holds every subset of S whose strict subsets it holds, holds all
\* of them: the one of those it misses that is smallest cannot exist.
LEMMA SubsetInduction ==
  ASSUME NEW S, IsFiniteSet(S), NEW G,
         \A T \in SUBSET S : (\A U \in SUBSET T : U # T => U \in G) => T \in G
  PROVE  SUBSET S \subseteq G
  <1> DEFINE missed == {T \in SUBSET S : T \notin G}
  <1>1. IsWellFoundedOn(StrictSubsetOrdering(S), SUBSET S)
    BY FS_StrictSubsetOrderingWellFounded, FS_FiniteSubsetsOfFinite
  <1>2. SUFFICES ASSUME missed # {} PROVE FALSE
    OBVIOUS
  <1>3. missed \subseteq SUBSET S
    OBVIOUS
  <1>4. PICK T \in missed : \A U \in missed : <<U, T>> \notin StrictSubsetOrdering(S)
    <2> HIDE DEF missed
    <2> QED
      BY <1>1, <1>2, <1>3, WFMin
  <1>5. \A U \in SUBSET T : U # T => U \in G
    BY <1>4 DEF StrictSubsetOrdering
  <1> QED
    BY <1>4, <1>5

\* Induction on the natural numbers: the least number that is missed would be
\* the length of a smallest interval.
LEMMA NatSetInduction ==
  ASSUME NEW G, 0 \in G, \A n \in Nat : n \in G => n + 1 \in G
  PROVE  Nat \subseteq G
  <1> SUFFICES ASSUME NEW n \in Nat PROVE n \in G
    OBVIOUS
  <1> DEFINE upto == {T \in SUBSET (0 .. n) : \A m \in 0 .. n : T = 0 .. m => m \in G}
  <1>1. ASSUME NEW T \in SUBSET (0 .. n), \A U \in SUBSET T : U # T => U \in upto
        PROVE  T \in upto
    <2> SUFFICES ASSUME NEW m \in 0 .. n, T = 0 .. m PROVE m \in G
      OBVIOUS
    <2>1. CASE m = 0
      BY <2>1
    <2>2. CASE m # 0
      <3>1. /\ m - 1 \in 0 .. n /\ (m - 1) + 1 = m
            /\ 0 .. (m - 1) \subseteq T /\ 0 .. (m - 1) # T
        BY <2>2
      <3>2. 0 .. (m - 1) \in upto
        BY <1>1, <3>1
      <3> QED
        BY <3>1, <3>2
    <2> QED
      BY <2>1, <2>2
  <1> HIDE DEF upto
  <1>2. SUBSET (0 .. n) \subseteq upto
    <2> DEFINE all == 0 .. n
    <2>1. IsFiniteSet(all)
      BY FS_Interval
    <2>2. \A T \in SUBSET all : (\A U \in SUBSET T : U # T => U \in upto) => T \in upto
      BY <1>1
    <2> HIDE DEF all
    <2>3. SUBSET all \subseteq upto
      BY <2>1, <2>2, SubsetInduction
    <2> QED
      BY <2>3 DEF all
  <1>3. 0 .. n \in upto
    BY <1>2
  <1> QED
    BY <1>3 DEF upto

-----------------------------------------------------------------------------
(* Folds.  FoldLeft is a recursion over the subsets of the positions, by    *)
(* their greatest element; along the prefixes it is a sequence of steps.    *)

\* A set of positions has a greatest one.
LEMMA MaxOfPositions ==
  ASSUME NEW n \in Nat, NEW T \in SUBSET (1 .. n), T # {}
  PROVE  Max(T) \in T /\ \A y \in T : y <= Max(T)
  <1> DEFINE bounded == {m \in Nat : \A U \in SUBSET (1 .. m) :
                            U # {} => \E x \in U : \A y \in U : x >= y}
  <1>1. 0 \in bounded
    <2>1. 1 .. 0 = {}
      OBVIOUS
    <2> QED
      BY <2>1
  <1>2. ASSUME NEW m \in Nat, m \in bounded PROVE m + 1 \in bounded
    <2> SUFFICES ASSUME NEW U \in SUBSET (1 .. m + 1), U # {}
                 PROVE  \E x \in U : \A y \in U : x >= y
      OBVIOUS
    <2>1. CASE m + 1 \in U
      BY <2>1
    <2>2. CASE m + 1 \notin U
      <3>1. U \in SUBSET (1 .. m)
        BY <2>2
      <3> QED
        BY <1>2, <3>1
    <2> QED
      BY <2>1, <2>2
  <1> HIDE DEF bounded
  <1>3. n \in bounded
    BY <1>1, <1>2, NatSetInduction
  <1>4. \E x \in T : \A y \in T : x >= y
    BY <1>3 DEF bounded
  <1>5. Max(T) \in T /\ \A y \in T : Max(T) >= y
    BY <1>4 DEF Max
  <1> QED
    BY <1>5

\* The greatest position of a prefix is its last.
LEMMA MaxOfPrefix ==
  ASSUME NEW k \in Nat
  PROVE  /\ Max(1 .. k + 1) = k + 1
         /\ (1 .. k + 1) \ {k + 1} = 1 .. k
         /\ 1 .. k + 1 # {} /\ 1 .. 0 = {}
  <1> DEFINE T == 1 .. k + 1
  <1>1. k + 1 \in Nat /\ T \in SUBSET (1 .. k + 1) /\ T # {} /\ k + 1 \in T
    OBVIOUS
  <1>2. Max(T) \in T /\ \A y \in T : y <= Max(T)
    <2> HIDE DEF T
    <2> QED
      BY <1>1, MaxOfPositions
  <1>3. Max(T) = k + 1
    BY <1>1, <1>2
  <1> QED
    BY <1>3

\* The recursion of a fold whose steps are the function F.
FoldOf(F, base, xs, g, T) ==
  IF T = {} THEN base ELSE F[<<g[T \ {Max(T)}], xs[Max(T)]>>]

\* It has a solution: those on the sets of at most n positions extend to those
\* of at most n + 1.
LEMMA FoldExists ==
  ASSUME NEW F \in [Int \X Int -> Int], NEW base \in Int, NEW xs \in Seq(Int)
  PROVE  \E g \in [SUBSET DOMAIN xs -> Int] :
            g = [T \in SUBSET DOMAIN xs |-> FoldOf(F, base, xs, g, T)]
  <1> DEFINE S == DOMAIN xs
             small(n) == {T \in SUBSET S : Cardinality(T) <= n}
             solved == {n \in Nat : \E g \in [small(n) -> Int] :
                           \A T \in small(n) : g[T] = FoldOf(F, base, xs, g, T)}
  <1>1. Len(xs) \in Nat /\ S = 1 .. Len(xs) /\ IsFiniteSet(S) /\ \A i \in S : xs[i] \in Int
    BY FS_Interval
  <1> HIDE DEF S
  <1>2. \A T \in SUBSET S : IsFiniteSet(T) /\ Cardinality(T) \in Nat
    BY <1>1, FS_Subset, FS_CardinalityType
  <1>3. ASSUME NEW T \in SUBSET S, T # {}
        PROVE  /\ Max(T) \in T /\ xs[Max(T)] \in Int /\ T \ {Max(T)} \in SUBSET S
               /\ Cardinality(T \ {Max(T)}) = Cardinality(T) - 1
    <2>1. Max(T) \in T
      BY <1>1, <1>3, MaxOfPositions
    <2> QED
      BY <1>1, <1>2, <2>1, FS_RemoveElement
  <1>4. 0 \in solved
    <2>1. small(0) = {{}}
      BY <1>2, FS_EmptySet
    <2> DEFINE g == [T \in {{}} |-> base]
    <2>2. g \in [{{}} -> Int] /\ g[{}] = FoldOf(F, base, xs, g, {})
      BY DEF FoldOf
    <2> QED
      BY <2>1, <2>2
  <1>5. ASSUME NEW n \in Nat, n \in solved PROVE n + 1 \in solved
    <2>1. PICK g \in [small(n) -> Int] : \A T \in small(n) : g[T] = FoldOf(F, base, xs, g, T)
      BY <1>5
    <2> DEFINE h == [T \in small(n + 1) |-> FoldOf(F, base, xs, g, T)]
    <2>2. \A T \in small(n) : T \in small(n + 1) /\ h[T] = g[T]
      BY <1>2, <2>1
    <2>3. ASSUME NEW T \in small(n + 1), T # {} PROVE T \ {Max(T)} \in small(n)
      <3>1. T \in SUBSET S /\ Cardinality(T) \in Nat /\ Cardinality(T) <= n + 1
        BY <1>2
      <3>2. /\ T \ {Max(T)} \in SUBSET S
            /\ Cardinality(T \ {Max(T)}) = Cardinality(T) - 1
        BY <1>3, <2>3, <3>1
      <3> QED
        BY <3>1, <3>2
    <2>4. \A T \in small(n + 1) : FoldOf(F, base, xs, g, T) = FoldOf(F, base, xs, h, T)
      <3> HIDE DEF h, small
      <3> QED
        BY <2>2, <2>3 DEF FoldOf
    <2>5. h \in [small(n + 1) -> Int]
      <3> SUFFICES ASSUME NEW T \in small(n + 1) PROVE FoldOf(F, base, xs, g, T) \in Int
        OBVIOUS
      <3>1. CASE T = {}
        BY <3>1 DEF FoldOf
      <3>2. CASE T # {}
        <4>1. g[T \ {Max(T)}] \in Int /\ xs[Max(T)] \in Int
          BY <1>3, <2>1, <2>3, <3>2
        <4> QED
          BY <3>2, <4>1 DEF FoldOf
      <3> QED
        BY <3>1, <3>2
    <2>6. \A T \in small(n + 1) : h[T] = FoldOf(F, base, xs, h, T)
      BY <2>4
    <2>7. \E f \in [small(n + 1) -> Int] :
            \A T \in small(n + 1) : f[T] = FoldOf(F, base, xs, f, T)
      <3> HIDE DEF h
      <3> QED
        BY <2>5, <2>6
    <2> HIDE DEF small
    <2> QED
      BY <2>7
  <1>6. Cardinality(S) \in solved
    <2> HIDE DEF solved
    <2> QED
      BY <1>1, <1>2, <1>4, <1>5, NatSetInduction
  <1>7. small(Cardinality(S)) = SUBSET S
    BY <1>1, FS_Subset
  <1>8. PICK g \in [SUBSET S -> Int] : \A T \in SUBSET S : g[T] = FoldOf(F, base, xs, g, T)
    BY <1>6, <1>7
  <1>9. g = [T \in SUBSET S |-> FoldOf(F, base, xs, g, T)]
    BY <1>8
  <1> QED
    BY <1>9 DEF S

\* A step of an average is a whole number.
LEMMA BlendType ==
  ASSUME NEW e \in Int, NEW x \in Int, NEW old \in Nat, NEW new \in Nat \ {0}
  PROVE  Blend(e, x, old, new) \in Int
  BY DEF Blend

IsSmoothing(g, xs, base, old, new) ==
  g = [T \in SUBSET DOMAIN xs |->
         IF T = {} THEN base ELSE Blend(g[T \ {Max(T)}], xs[Max(T)], old, new)]

IsAverage(h, xs, base, old, new) ==
  /\ h \in [0 .. Len(xs) -> Int] /\ h[0] = base
  /\ Smoothed(xs, base, old, new) = h[Len(xs)]
  /\ \A k \in 0 .. Len(xs) - 1 : h[k + 1] = Blend(h[k], xs[k + 1], old, new)

\* An average, step by step.
LEMMA SmoothedSteps ==
  ASSUME NEW xs \in Seq(Int), NEW base \in Int, NEW old \in Nat, NEW new \in Nat \ {0}
  PROVE  \E h : IsAverage(h, xs, base, old, new)
  <1> DEFINE g == CHOOSE f : IsSmoothing(f, xs, base, old, new)
             n == Len(xs)
  <1>1. IsSmoothing(g, xs, base, old, new)
    <2> DEFINE F == [p \in Int \X Int |-> Blend(p[1], p[2], old, new)]
    <2>1. \A e, x \in Int : F[<<e, x>>] = Blend(e, x, old, new) /\ Blend(e, x, old, new) \in Int
      BY BlendType
    <2>2. F \in [Int \X Int -> Int]
      <3> SUFFICES ASSUME NEW p \in Int \X Int PROVE Blend(p[1], p[2], old, new) \in Int
        OBVIOUS
      <3> QED
        BY <2>1
    <2> HIDE DEF F
    <2>3. PICK f \in [SUBSET DOMAIN xs -> Int] :
            f = [T \in SUBSET DOMAIN xs |-> FoldOf(F, base, xs, f, T)]
      <3>1. base \in Int
        OBVIOUS
      <3> QED
        BY <2>2, <3>1, FoldExists
    <2>4. ASSUME NEW T \in SUBSET DOMAIN xs, T # {}
          PROVE  FoldOf(F, base, xs, f, T) = Blend(f[T \ {Max(T)}], xs[Max(T)], old, new)
      <3>1. Max(T) \in DOMAIN xs /\ xs[Max(T)] \in Int
        <4>1. T \in SUBSET (1 .. Len(xs)) /\ Len(xs) \in Nat
          OBVIOUS
        <4>2. Max(T) \in T
          BY <2>4, <4>1, MaxOfPositions
        <4> QED
          BY <4>1, <4>2
      <3>2. f[T \ {Max(T)}] \in Int
        BY <2>3
      <3> QED
        BY <2>1, <2>4, <3>1, <3>2 DEF FoldOf
    <2>5. \A T \in SUBSET DOMAIN xs :
            FoldOf(F, base, xs, f, T)
              = IF T = {} THEN base ELSE Blend(f[T \ {Max(T)}], xs[Max(T)], old, new)
      BY <2>4 DEF FoldOf
    <2>6. IsSmoothing(f, xs, base, old, new)
      BY <2>3, <2>5 DEF IsSmoothing
    <2> QED
      BY <2>6
  <1>2. Smoothed(xs, base, old, new) = g[DOMAIN xs]
    BY Zenon DEF Smoothed, FoldLeft, MapThenFoldSet, IsSmoothing
  <1> HIDE DEF g
  <1>3. n \in Nat /\ DOMAIN xs = 1 .. n
    OBVIOUS
  <1>4. g[1 .. 0] = base
    <2>1. 1 .. 0 = {} /\ 1 .. 0 \in SUBSET DOMAIN xs
      OBVIOUS
    <2> QED
      BY <1>1, <2>1 DEF IsSmoothing
  <1>5. ASSUME NEW k \in Nat, k + 1 <= n
        PROVE  g[1 .. k + 1] = Blend(g[1 .. k], xs[k + 1], old, new) /\ xs[k + 1] \in Int
    <2>1. 1 .. k + 1 \in SUBSET DOMAIN xs /\ k + 1 \in DOMAIN xs
      BY <1>3, <1>5
    <2>2. /\ Max(1 .. k + 1) = k + 1 /\ 1 .. k + 1 # {}
          /\ (1 .. k + 1) \ {k + 1} = 1 .. k
      BY MaxOfPrefix
    <2>3. xs[k + 1] \in Int
      BY <2>1
    <2> DEFINE T == 1 .. k + 1
    <2>4. g[T] = Blend(g[T \ {Max(T)}], xs[Max(T)], old, new)
      <3>1. T \in SUBSET DOMAIN xs /\ T # {}
        BY <2>1, <2>2
      <3> HIDE DEF T
      <3> QED
        BY <1>1, <3>1 DEF IsSmoothing
    <2> QED
      BY <2>2, <2>3, <2>4
  <1> DEFINE typed == {k \in Nat : k <= n => g[1 .. k] \in Int}
  <1>6. \A k \in Nat : k <= n => g[1 .. k] \in Int
    <2>1. 0 \in typed
      BY <1>4
    <2>2. ASSUME NEW k \in Nat, k \in typed PROVE k + 1 \in typed
      <3> SUFFICES ASSUME k + 1 <= n PROVE g[1 .. k + 1] \in Int
        OBVIOUS
      <3>1. g[1 .. k] \in Int
        BY <1>3, <2>2
      <3> QED
        BY <1>5, <3>1, BlendType
    <2> HIDE DEF typed
    <2>3. Nat \subseteq typed
      BY <2>1, <2>2, NatSetInduction
    <2> QED
      BY <2>3 DEF typed
  <1> DEFINE h == [k \in 0 .. n |-> g[1 .. k]]
  <1>7. h \in [0 .. n -> Int]
    BY <1>6
  <1>8. h[0] = base /\ Smoothed(xs, base, old, new) = h[n]
    BY <1>2, <1>3, <1>4
  <1>9. \A k \in 0 .. n - 1 : h[k + 1] = Blend(h[k], xs[k + 1], old, new)
    BY <1>3, <1>5
  <1> HIDE DEF h
  <1> QED
    BY <1>7, <1>8, <1>9 DEF IsAverage

IsTotal(g, xs) ==
  g = [T \in SUBSET DOMAIN xs |->
         IF T = {} THEN 0 ELSE g[T \ {Max(T)}] + xs[Max(T)]]

\* A total, step by step.
LEMMA TotalSteps ==
  ASSUME NEW xs \in Seq(Int)
  PROVE  \E h \in [0 .. Len(xs) -> Int] :
            /\ h[0] = 0 /\ Total(xs) = h[Len(xs)]
            /\ \A k \in 0 .. Len(xs) - 1 : h[k + 1] = h[k] + xs[k + 1]
  <1> DEFINE g == CHOOSE f : IsTotal(f, xs)
             n == Len(xs)
  <1>1. IsTotal(g, xs)
    <2> DEFINE F == [p \in Int \X Int |-> p[1] + p[2]]
    <2>1. \A e, x \in Int : F[<<e, x>>] = e + x /\ e + x \in Int
      OBVIOUS
    <2>2. F \in [Int \X Int -> Int]
      <3> SUFFICES ASSUME NEW p \in Int \X Int PROVE p[1] + p[2] \in Int
        OBVIOUS
      <3> QED
        BY <2>1
    <2> HIDE DEF F
    <2>3. PICK f \in [SUBSET DOMAIN xs -> Int] :
            f = [T \in SUBSET DOMAIN xs |-> FoldOf(F, 0, xs, f, T)]
      <3>1. 0 \in Int
        OBVIOUS
      <3> QED
        BY <2>2, <3>1, FoldExists
    <2>4. ASSUME NEW T \in SUBSET DOMAIN xs, T # {}
          PROVE  FoldOf(F, 0, xs, f, T) = f[T \ {Max(T)}] + xs[Max(T)]
      <3>1. Max(T) \in DOMAIN xs /\ xs[Max(T)] \in Int
        <4>1. T \in SUBSET (1 .. Len(xs)) /\ Len(xs) \in Nat
          OBVIOUS
        <4>2. Max(T) \in T
          BY <2>4, <4>1, MaxOfPositions
        <4> QED
          BY <4>1, <4>2
      <3>2. f[T \ {Max(T)}] \in Int
        BY <2>3
      <3> QED
        BY <2>1, <2>4, <3>1, <3>2 DEF FoldOf
    <2>5. \A T \in SUBSET DOMAIN xs :
            FoldOf(F, 0, xs, f, T)
              = IF T = {} THEN 0 ELSE f[T \ {Max(T)}] + xs[Max(T)]
      BY <2>4 DEF FoldOf
    <2>6. IsTotal(f, xs)
      BY <2>3, <2>5 DEF IsTotal
    <2> QED
      BY <2>6
  <1>2. Total(xs) = g[DOMAIN xs]
    BY Zenon DEF Total, FoldLeft, MapThenFoldSet, IsTotal
  <1> HIDE DEF g
  <1>3. n \in Nat /\ DOMAIN xs = 1 .. n
    OBVIOUS
  <1>4. g[1 .. 0] = 0
    <2>1. 1 .. 0 = {} /\ 1 .. 0 \in SUBSET DOMAIN xs
      OBVIOUS
    <2> QED
      BY <1>1, <2>1 DEF IsTotal
  <1>5. ASSUME NEW k \in Nat, k + 1 <= n
        PROVE  g[1 .. k + 1] = g[1 .. k] + xs[k + 1] /\ xs[k + 1] \in Int
    <2>1. 1 .. k + 1 \in SUBSET DOMAIN xs /\ k + 1 \in DOMAIN xs
      BY <1>3, <1>5
    <2>2. /\ Max(1 .. k + 1) = k + 1 /\ 1 .. k + 1 # {}
          /\ (1 .. k + 1) \ {k + 1} = 1 .. k
      BY MaxOfPrefix
    <2>3. xs[k + 1] \in Int
      BY <2>1
    <2> DEFINE T == 1 .. k + 1
    <2>4. g[T] = g[T \ {Max(T)}] + xs[Max(T)]
      <3>1. T \in SUBSET DOMAIN xs /\ T # {}
        BY <2>1, <2>2
      <3> HIDE DEF T
      <3> QED
        BY <1>1, <3>1 DEF IsTotal
    <2> QED
      BY <2>2, <2>3, <2>4
  <1> DEFINE typed == {k \in Nat : k <= n => g[1 .. k] \in Int}
  <1>6. \A k \in Nat : k <= n => g[1 .. k] \in Int
    <2>1. 0 \in typed
      BY <1>4
    <2>2. ASSUME NEW k \in Nat, k \in typed PROVE k + 1 \in typed
      <3> SUFFICES ASSUME k + 1 <= n PROVE g[1 .. k + 1] \in Int
        OBVIOUS
      <3>1. g[1 .. k] \in Int
        BY <1>3, <2>2
      <3> QED
        BY <1>5, <3>1
    <2> HIDE DEF typed
    <2>3. Nat \subseteq typed
      BY <2>1, <2>2, NatSetInduction
    <2> QED
      BY <2>3 DEF typed
  <1> DEFINE h == [k \in 0 .. n |-> g[1 .. k]]
  <1>7. h \in [0 .. n -> Int]
    BY <1>6
  <1>8. h[0] = 0 /\ Total(xs) = h[n]
    BY <1>2, <1>3, <1>4
  <1>9. \A k \in 0 .. n - 1 : h[k + 1] = h[k] + xs[k + 1]
    BY <1>3, <1>5
  <1> HIDE DEF h
  <1> QED
    BY <1>7, <1>8, <1>9

IsProduct(g, xs) ==
  g = [T \in SUBSET DOMAIN xs |->
         IF T = {} THEN 1 ELSE g[T \ {Max(T)}] * xs[Max(T)]]

\* A product, step by step.
LEMMA ProductSteps ==
  ASSUME NEW xs \in Seq(Int)
  PROVE  \E h \in [0 .. Len(xs) -> Int] :
            /\ h[0] = 1 /\ Product(xs) = h[Len(xs)]
            /\ \A k \in 0 .. Len(xs) - 1 : h[k + 1] = h[k] * xs[k + 1]
  <1> DEFINE g == CHOOSE f : IsProduct(f, xs)
             n == Len(xs)
  <1>1. IsProduct(g, xs)
    <2> DEFINE F == [p \in Int \X Int |-> p[1] * p[2]]
    <2>1. \A e, x \in Int : F[<<e, x>>] = e * x /\ e * x \in Int
      OBVIOUS
    <2>2. F \in [Int \X Int -> Int]
      <3> SUFFICES ASSUME NEW p \in Int \X Int PROVE p[1] * p[2] \in Int
        OBVIOUS
      <3> QED
        BY <2>1
    <2> HIDE DEF F
    <2>3. PICK f \in [SUBSET DOMAIN xs -> Int] :
            f = [T \in SUBSET DOMAIN xs |-> FoldOf(F, 1, xs, f, T)]
      <3>1. 1 \in Int
        OBVIOUS
      <3> QED
        BY <2>2, <3>1, FoldExists
    <2>4. ASSUME NEW T \in SUBSET DOMAIN xs, T # {}
          PROVE  FoldOf(F, 1, xs, f, T) = f[T \ {Max(T)}] * xs[Max(T)]
      <3>1. Max(T) \in DOMAIN xs /\ xs[Max(T)] \in Int
        <4>1. T \in SUBSET (1 .. Len(xs)) /\ Len(xs) \in Nat
          OBVIOUS
        <4>2. Max(T) \in T
          BY <2>4, <4>1, MaxOfPositions
        <4> QED
          BY <4>1, <4>2
      <3>2. f[T \ {Max(T)}] \in Int
        BY <2>3
      <3> QED
        BY <2>1, <2>4, <3>1, <3>2 DEF FoldOf
    <2>5. \A T \in SUBSET DOMAIN xs :
            FoldOf(F, 1, xs, f, T)
              = IF T = {} THEN 1 ELSE f[T \ {Max(T)}] * xs[Max(T)]
      BY <2>4 DEF FoldOf
    <2>6. IsProduct(f, xs)
      BY <2>3, <2>5 DEF IsProduct
    <2> QED
      BY <2>6
  <1>2. Product(xs) = g[DOMAIN xs]
    BY Zenon DEF Product, FoldLeft, MapThenFoldSet, IsProduct
  <1> HIDE DEF g
  <1>3. n \in Nat /\ DOMAIN xs = 1 .. n
    OBVIOUS
  <1>4. g[1 .. 0] = 1
    <2>1. 1 .. 0 = {} /\ 1 .. 0 \in SUBSET DOMAIN xs
      OBVIOUS
    <2> QED
      BY <1>1, <2>1 DEF IsProduct
  <1>5. ASSUME NEW k \in Nat, k + 1 <= n
        PROVE  g[1 .. k + 1] = g[1 .. k] * xs[k + 1] /\ xs[k + 1] \in Int
    <2>1. 1 .. k + 1 \in SUBSET DOMAIN xs /\ k + 1 \in DOMAIN xs
      BY <1>3, <1>5
    <2>2. /\ Max(1 .. k + 1) = k + 1 /\ 1 .. k + 1 # {}
          /\ (1 .. k + 1) \ {k + 1} = 1 .. k
      BY MaxOfPrefix
    <2>3. xs[k + 1] \in Int
      BY <2>1
    <2> DEFINE T == 1 .. k + 1
    <2>4. g[T] = g[T \ {Max(T)}] * xs[Max(T)]
      <3>1. T \in SUBSET DOMAIN xs /\ T # {}
        BY <2>1, <2>2
      <3> HIDE DEF T
      <3> QED
        BY <1>1, <3>1 DEF IsProduct
    <2> QED
      BY <2>2, <2>3, <2>4
  <1> DEFINE typed == {k \in Nat : k <= n => g[1 .. k] \in Int}
  <1>6. \A k \in Nat : k <= n => g[1 .. k] \in Int
    <2>1. 0 \in typed
      BY <1>4
    <2>2. ASSUME NEW k \in Nat, k \in typed PROVE k + 1 \in typed
      <3> SUFFICES ASSUME k + 1 <= n PROVE g[1 .. k + 1] \in Int
        OBVIOUS
      <3>1. g[1 .. k] \in Int
        BY <1>3, <2>2
      <3> QED
        BY <1>5, <3>1
    <2> HIDE DEF typed
    <2>3. Nat \subseteq typed
      BY <2>1, <2>2, NatSetInduction
    <2> QED
      BY <2>3 DEF typed
  <1> DEFINE h == [k \in 0 .. n |-> g[1 .. k]]
  <1>7. h \in [0 .. n -> Int]
    BY <1>6
  <1>8. h[0] = 1 /\ Product(xs) = h[n]
    BY <1>2, <1>3, <1>4
  <1>9. \A k \in 0 .. n - 1 : h[k + 1] = h[k] * xs[k + 1]
    BY <1>3, <1>5
  <1> HIDE DEF h
  <1> QED
    BY <1>7, <1>8, <1>9

-----------------------------------------------------------------------------
(* Series, totals and powers.                                              *)

\* A function on the positions 1 to n is a series.
LEMMA IsSeries ==
  ASSUME NEW n \in Nat, NEW X, NEW f, f = [i \in 1 .. n |-> f[i]], \A i \in 1 .. n : f[i] \in X
  PROVE  f \in Seq(X) /\ Len(f) = n /\ DOMAIN f = 1 .. n
  <1>1. f \in [1 .. n -> X]
    BY Zenon
  <1>2. f \in Seq(X)
    BY <1>1, IsASeq
  <1> QED
    BY <1>1, <1>2, LenProperties

\* The total of n + 1 numbers is that of the first n and the last.
LEMMA TotalExtended ==
  ASSUME NEW xs \in Seq(Int), NEW ys \in Seq(Int), Len(ys) = Len(xs) + 1,
         \A i \in 1 .. Len(xs) : ys[i] = xs[i]
  PROVE  Total(ys) = Total(xs) + ys[Len(ys)]
  <1> DEFINE n == Len(xs)
  <1>1. n \in Nat /\ \A i \in 1 .. n : xs[i] \in Int
    OBVIOUS
  <1>2. PICK h \in [0 .. n -> Int] :
          /\ h[0] = 0 /\ Total(xs) = h[n]
          /\ \A k \in 0 .. n - 1 : h[k + 1] = h[k] + xs[k + 1]
    BY TotalSteps
  <1>3. PICK g \in [0 .. n + 1 -> Int] :
          /\ g[0] = 0 /\ Total(ys) = g[n + 1]
          /\ \A k \in 0 .. n : g[k + 1] = g[k] + ys[k + 1]
    <2>1. Len(ys) = n + 1 /\ Len(ys) - 1 = n
      BY <1>1
    <2> QED
      BY <2>1, TotalSteps
  <1> DEFINE same == {k \in Nat : k <= n => g[k] = h[k]}
  <1>4. 0 \in same
    BY <1>2, <1>3
  <1>5. ASSUME NEW k \in Nat, k \in same PROVE k + 1 \in same
    <2> SUFFICES ASSUME k + 1 <= n PROVE g[k + 1] = h[k + 1]
      OBVIOUS
    <2>1. k \in 0 .. n - 1 /\ k \in 0 .. n /\ k + 1 \in 1 .. n
      BY <1>1
    <2> QED
      BY <1>2, <1>3, <1>5, <2>1
  <1>6. g[n] = h[n]
    <2> HIDE DEF same
    <2>1. n \in same
      BY <1>1, <1>4, <1>5, NatSetInduction
    <2> QED
      BY <1>1, <2>1 DEF same
  <1>7. g[n + 1] = g[n] + ys[n + 1]
    BY <1>1, <1>3
  <1> QED
    BY <1>1, <1>2, <1>3, <1>6, <1>7

\* The total of no numbers is nothing.
LEMMA TotalEmpty ==
  ASSUME NEW xs \in Seq(Int), Len(xs) = 0
  PROVE  Total(xs) = 0
  BY TotalSteps

\* A total is a number, and of natural numbers a natural number.
LEMMA TotalType ==
  ASSUME NEW xs \in Seq(Int)
  PROVE  /\ Total(xs) \in Int
         /\ (\A i \in DOMAIN xs : xs[i] >= 0) => Total(xs) >= 0
         /\ (\A i \in DOMAIN xs : xs[i] >= 0) /\ (\E i \in DOMAIN xs : xs[i] > 0) => Total(xs) > 0
  <1> DEFINE n == Len(xs)
  <1>1. n \in Nat /\ DOMAIN xs = 1 .. n /\ \A i \in 1 .. n : xs[i] \in Int
    OBVIOUS
  <1>2. PICK h \in [0 .. n -> Int] :
          /\ h[0] = 0 /\ Total(xs) = h[n]
          /\ \A k \in 0 .. n - 1 : h[k + 1] = h[k] + xs[k + 1]
    BY TotalSteps
  <1> HIDE DEF n
  <1>3. ASSUME \A i \in 1 .. n : xs[i] >= 0
        PROVE  /\ h[n] >= 0
               /\ (\E i \in 1 .. n : xs[i] > 0) => h[n] > 0
    <2> DEFINE right == {k \in Nat : k <= n =>
                            /\ h[k] >= 0
                            /\ (\E i \in 1 .. k : xs[i] > 0) => h[k] > 0}
    <2>1. 0 \in right
      BY <1>2
    <2>2. ASSUME NEW k \in Nat, k \in right PROVE k + 1 \in right
      <3> SUFFICES ASSUME k + 1 <= n
                   PROVE  /\ h[k + 1] >= 0
                          /\ (\E i \in 1 .. k + 1 : xs[i] > 0) => h[k + 1] > 0
        OBVIOUS
      <3>1. /\ h[k + 1] = h[k] + xs[k + 1] /\ h[k] \in Int /\ xs[k + 1] \in Int
            /\ xs[k + 1] >= 0
        BY <1>1, <1>2, <1>3
      <3>2. h[k] >= 0 /\ ((\E i \in 1 .. k : xs[i] > 0) => h[k] > 0)
        BY <1>1, <2>2
      <3> QED
        BY <3>1, <3>2
    <2> HIDE DEF right
    <2>3. n \in right
      BY <1>1, <2>1, <2>2, NatSetInduction
    <2> QED
      BY <1>1, <2>3 DEF right
  <1>4. Total(xs) = h[n] /\ h[n] \in Int
    BY <1>1, <1>2
  <1> QED
    BY <1>1, <1>3, <1>4

\* What relates two series number by number relates their totals: a factor, ...
LEMMA TotalScaled ==
  ASSUME NEW xs \in Seq(Int), NEW ys \in Seq(Int), NEW c \in Int, Len(ys) = Len(xs),
         \A i \in 1 .. Len(xs) : ys[i] = c * xs[i]
  PROVE  Total(ys) = c * Total(xs)
  <1> DEFINE n == Len(xs)
  <1>1. n \in Nat /\ \A i \in 1 .. n : xs[i] \in Int
    OBVIOUS
  <1>2. PICK h \in [0 .. n -> Int] :
          /\ h[0] = 0 /\ Total(xs) = h[n]
          /\ \A k \in 0 .. n - 1 : h[k + 1] = h[k] + xs[k + 1]
    BY TotalSteps
  <1>3. PICK g \in [0 .. n -> Int] :
          /\ g[0] = 0 /\ Total(ys) = g[n]
          /\ \A k \in 0 .. n - 1 : g[k + 1] = g[k] + ys[k + 1]
    BY TotalSteps
  <1> DEFINE right == {k \in Nat : k <= n => g[k] = c * h[k]}
  <1>4. 0 \in right
    BY <1>2, <1>3
  <1>5. ASSUME NEW k \in Nat, k \in right PROVE k + 1 \in right
    <2> SUFFICES ASSUME k + 1 <= n PROVE g[k + 1] = c * h[k + 1]
      OBVIOUS
    <2>1. k \in 0 .. n - 1 /\ k \in 0 .. n /\ k + 1 \in 1 .. n /\ k <= n
      BY <1>1
    <2>2. /\ g[k + 1] = c * h[k] + c * xs[k + 1] /\ h[k + 1] = h[k] + xs[k + 1]
          /\ h[k] \in Int /\ xs[k + 1] \in Int
      BY <1>1, <1>2, <1>3, <1>5, <2>1
    <2>3. \A a, b \in Int : c * (a + b) = c * a + c * b
      OBVIOUS
    <2> QED
      BY <2>2, <2>3
  <1> HIDE DEF right
  <1>6. n \in right
    BY <1>1, <1>4, <1>5, NatSetInduction
  <1> QED
    BY <1>1, <1>2, <1>3, <1>6 DEF right

\* ... or an order.
LEMMA TotalMonotone ==
  ASSUME NEW xs \in Seq(Int), NEW ys \in Seq(Int), Len(ys) = Len(xs),
         \A i \in 1 .. Len(xs) : xs[i] <= ys[i]
  PROVE  Total(xs) <= Total(ys)
  <1> DEFINE n == Len(xs)
  <1>1. n \in Nat /\ \A i \in 1 .. n : xs[i] \in Int /\ ys[i] \in Int
    OBVIOUS
  <1>2. PICK h \in [0 .. n -> Int] :
          /\ h[0] = 0 /\ Total(xs) = h[n]
          /\ \A k \in 0 .. n - 1 : h[k + 1] = h[k] + xs[k + 1]
    BY TotalSteps
  <1>3. PICK g \in [0 .. n -> Int] :
          /\ g[0] = 0 /\ Total(ys) = g[n]
          /\ \A k \in 0 .. n - 1 : g[k + 1] = g[k] + ys[k + 1]
    BY TotalSteps
  <1> DEFINE right == {k \in Nat : k <= n => h[k] <= g[k]}
  <1>4. 0 \in right
    BY <1>2, <1>3
  <1>5. ASSUME NEW k \in Nat, k \in right PROVE k + 1 \in right
    <2> SUFFICES ASSUME k + 1 <= n PROVE h[k + 1] <= g[k + 1]
      OBVIOUS
    <2>1. k \in 0 .. n - 1 /\ k \in 0 .. n /\ k + 1 \in 1 .. n /\ k <= n
      BY <1>1
    <2>2. h[k] <= g[k] /\ xs[k + 1] <= ys[k + 1]
      BY <1>5, <2>1
    <2>3. /\ h[k + 1] = h[k] + xs[k + 1] /\ g[k + 1] = g[k] + ys[k + 1]
          /\ h[k] \in Int /\ g[k] \in Int /\ xs[k + 1] \in Int /\ ys[k + 1] \in Int
      BY <1>1, <1>2, <1>3, <2>1
    <2> QED
      BY <2>2, <2>3
  <1> HIDE DEF right
  <1>6. n \in right
    BY <1>1, <1>4, <1>5, NatSetInduction
  <1> QED
    BY <1>1, <1>2, <1>3, <1>6 DEF right

\* Powers.
LEMMA PowerStep ==
  ASSUME NEW b \in Int, NEW n \in Nat
  PROVE  Power(b, 0) = 1 /\ Power(b, n) \in Int /\ Power(b, n + 1) = b * Power(b, n)
  <1> DEFINE row(m) == [i \in 1 .. m |-> b]
  <1>1. \A m \in Nat : /\ row(m) \in Seq(Int) /\ Len(row(m)) = m
                       /\ \A i \in 1 .. m : row(m)[i] = b
    <2> SUFFICES ASSUME NEW m \in Nat
                 PROVE  /\ row(m) \in Seq(Int) /\ Len(row(m)) = m
                        /\ \A i \in 1 .. m : row(m)[i] = b
      OBVIOUS
    <2>1. \A i \in 1 .. m : row(m)[i] = b
      OBVIOUS
    <2>2. row(m) = [i \in 1 .. m |-> row(m)[i]]
      OBVIOUS
    <2> HIDE DEF row
    <2> QED
      BY <2>1, <2>2, IsSeries
  <1>2. \A m \in Nat : Power(b, m) = Product(row(m))
    BY DEF Power
  <1> HIDE DEF row
  <1>3. \A m \in Nat : \E h \in [0 .. m -> Int] :
          /\ h[0] = 1 /\ Power(b, m) = h[m]
          /\ \A k \in 0 .. m - 1 : h[k + 1] = h[k] * b
    <2> SUFFICES ASSUME NEW m \in Nat
                 PROVE  \E h \in [0 .. m -> Int] :
                          /\ h[0] = 1 /\ Power(b, m) = h[m]
                          /\ \A k \in 0 .. m - 1 : h[k + 1] = h[k] * b
      OBVIOUS
    <2> DEFINE xs == row(m)
    <2>0. xs \in Seq(Int) /\ Len(xs) = m
      BY <1>1
    <2> HIDE DEF xs
    <2>1. PICK h \in [0 .. m -> Int] :
            /\ h[0] = 1 /\ Product(xs) = h[m]
            /\ \A k \in 0 .. m - 1 : h[k + 1] = h[k] * xs[k + 1]
      BY <2>0, ProductSteps
    <2>2. \A k \in 0 .. m - 1 : xs[k + 1] = b
      BY <1>1 DEF xs
    <2> QED
      BY <1>2, <2>1, <2>2 DEF xs
  <1>4. PICK h \in [0 .. n -> Int] :
          /\ h[0] = 1 /\ Power(b, n) = h[n]
          /\ \A k \in 0 .. n - 1 : h[k + 1] = h[k] * b
    BY <1>3
  <1>5. PICK g \in [0 .. n + 1 -> Int] :
          /\ g[0] = 1 /\ Power(b, n + 1) = g[n + 1]
          /\ \A k \in 0 .. n : g[k + 1] = g[k] * b
    <2>1. n + 1 \in Nat /\ (n + 1) - 1 = n
      OBVIOUS
    <2> QED
      BY <1>3, <2>1
  <1> DEFINE same == {k \in Nat : k <= n => g[k] = h[k]}
  <1>6. 0 \in same
    BY <1>4, <1>5
  <1>7. ASSUME NEW k \in Nat, k \in same PROVE k + 1 \in same
    <2> SUFFICES ASSUME k + 1 <= n PROVE g[k + 1] = h[k + 1]
      OBVIOUS
    <2>1. k \in 0 .. n - 1 /\ k \in 0 .. n /\ k <= n
      OBVIOUS
    <2> QED
      BY <1>4, <1>5, <1>7, <2>1
  <1>8. g[n] = h[n]
    <2> HIDE DEF same
    <2>1. n \in same
      BY <1>6, <1>7, NatSetInduction
    <2> QED
      BY <2>1 DEF same
  <1>9. g[n + 1] = h[n] * b /\ h[n] \in Int
    BY <1>4, <1>5, <1>8
  <1>10. Power(b, 0) = 1
    <2>1. 0 \in Nat
      OBVIOUS
    <2> QED
      BY <1>3, <2>1
  <1> QED
    BY <1>4, <1>5, <1>9, <1>10

\* Powers of a positive number are positive.
LEMMA PowerPositive ==
  ASSUME NEW b \in Nat \ {0}, NEW n \in Nat
  PROVE  Power(b, n) \in Nat \ {0}
  <1> DEFINE right == {k \in Nat : Power(b, k) \in Nat \ {0}}
  <1>1. 0 \in right
    BY PowerStep
  <1>2. ASSUME NEW k \in Nat, k \in right PROVE k + 1 \in right
    <2>1. Power(b, k + 1) = b * Power(b, k) /\ Power(b, k) \in Nat \ {0}
      BY <1>2, PowerStep
    <2>2. \A x, y \in Nat \ {0} : x * y \in Nat \ {0}
      OBVIOUS
    <2> QED
      BY <2>1, <2>2
  <1> HIDE DEF right
  <1>3. n \in right
    BY <1>1, <1>2, NatSetInduction
  <1> QED
    BY <1>3 DEF right

\* The power of a sum is the product of the powers.
LEMMA PowerSum ==
  ASSUME NEW b \in Int, NEW m \in Nat, NEW n \in Nat
  PROVE  Power(b, m + n) = Power(b, m) * Power(b, n)
  <1> DEFINE right == {k \in Nat : Power(b, m + k) = Power(b, m) * Power(b, k)}
             p == Power(b, m)
  <1>1. p \in Int
    BY PowerStep
  <1> HIDE DEF p
  <1>2. 0 \in right
    <2>1. Power(b, 0) = 1 /\ m + 0 = m
      BY PowerStep
    <2> QED
      BY <1>1, <2>1 DEF p
  <1>3. ASSUME NEW k \in Nat, k \in right PROVE k + 1 \in right
    <2> DEFINE q == Power(b, k)
    <2>1. q \in Int /\ Power(b, k + 1) = b * q
      BY PowerStep
    <2>2. Power(b, (m + k) + 1) = b * Power(b, m + k)
      BY PowerStep
    <2>3. Power(b, m + k) = p * q
      BY <1>3 DEF p
    <2> HIDE DEF q
    <2>4. b * (p * q) = p * (b * q)
      BY <1>1, <2>1
    <2>5. (m + k) + 1 = m + (k + 1)
      OBVIOUS
    <2> QED
      BY <2>1, <2>2, <2>3, <2>4, <2>5 DEF p
  <1> HIDE DEF right
  <1>4. n \in right
    BY <1>2, <1>3, NatSetInduction
  <1> QED
    BY <1>4 DEF right, p

-----------------------------------------------------------------------------
(* Averages.                                                               *)

\* Dividing rounds down, keeps the order, and undoes a multiplication.
LEMMA Division ==
  ASSUME NEW a \in Int, NEW b \in Int, NEW c \in Int, NEW d \in Nat \ {0}
  PROVE  /\ a \div d \in Int
         /\ a <= b => a \div d <= b \div d
         /\ (d * c) \div d = c
         /\ (a + d * c) \div d = a \div d + c
  <1>1. a \div d \in Int
    OBVIOUS
  <1>2. a <= b => a \div d <= b \div d
    OBVIOUS
  <1>3. (d * c) \div d = c
    OBVIOUS
  <1>4. (a + d * c) \div d = a \div d + c
    OBVIOUS
  <1> QED
    BY <1>1, <1>2, <1>3, <1>4

\* A step of an average keeps the order, ...
LEMMA BlendMonotone ==
  ASSUME NEW e \in Int, NEW x \in Int, NEW f \in Int, NEW y \in Int, e <= f, x <= y,
         NEW old \in Nat, NEW new \in Nat \ {0}
  PROVE  Blend(e, x, old, new) <= Blend(f, y, old, new)
  <1> DEFINE d == old + new
             p == old * e + new * x
             q == old * f + new * y
  <1>1. d \in Nat \ {0} /\ p \in Int /\ q \in Int
    OBVIOUS
  <1>2. p <= q
    <2>1. old * e <= old * f /\ new * x <= new * y
      OBVIOUS
    <2> QED
      BY <2>1
  <1>3. Blend(e, x, old, new) = p \div d /\ Blend(f, y, old, new) = q \div d
    BY DEF Blend
  <1> HIDE DEF d, p, q
  <1> QED
    BY <1>1, <1>2, <1>3, Division

\* Two numbers a distance apart, as a fact of its own.
Apart(x, y, by) == y = x + by

\* ... moves with the prices, ...
LEMMA BlendShifted ==
  ASSUME NEW e \in Int, NEW x \in Int, NEW f \in Int, NEW y \in Int, NEW c \in Int,
         NEW old \in Nat, NEW new \in Nat \ {0}, Apart(e, f, c), Apart(x, y, c)
  PROVE  Blend(f, y, old, new) = Blend(e, x, old, new) + c
  <1> DEFINE d == old + new
             p == old * e + new * x
  <1>1. d \in Nat \ {0} /\ p \in Int /\ f = e + c /\ y = x + c
    BY DEF Apart
  <1>2. old * (e + c) + new * (x + c) = p + d * c
    OBVIOUS
  <1>3. Blend(e, x, old, new) = p \div d /\ Blend(f, y, old, new) = (p + d * c) \div d
    BY <1>1, <1>2 DEF Blend
  <1> HIDE DEF d, p
  <1> QED
    BY <1>1, <1>3, Division

\* ... and stays where average and value agree.
LEMMA BlendConstant ==
  ASSUME NEW c \in Int, NEW old \in Nat, NEW new \in Nat \ {0}
  PROVE  Blend(c, c, old, new) = c
  <1> DEFINE d == old + new
  <1>1. d \in Nat \ {0} /\ old * c + new * c = d * c
    OBVIOUS
  <1>2. Blend(c, c, old, new) = (d * c) \div d
    BY <1>1 DEF Blend
  <1> HIDE DEF d
  <1> QED
    BY <1>1, <1>2, Division

\* An average is a whole number.
LEMMA SmoothedType ==
  ASSUME NEW xs \in Seq(Int), NEW base \in Int, NEW old \in Nat, NEW new \in Nat \ {0}
  PROVE  Smoothed(xs, base, old, new) \in Int
  <1>1. PICK h : IsAverage(h, xs, base, old, new)
    BY SmoothedSteps
  <1> QED
    BY <1>1 DEF IsAverage

\* Averages are in the order of their values.
LEMMA SmoothedMonotone ==
  ASSUME NEW xs \in Seq(Int), NEW ys \in Seq(Int), NEW base \in Int, NEW start \in Int,
         NEW old \in Nat, NEW new \in Nat \ {0}, Len(ys) = Len(xs), base <= start,
         \A i \in 1 .. Len(xs) : xs[i] <= ys[i]
  PROVE  Smoothed(xs, base, old, new) <= Smoothed(ys, start, old, new)
  <1> DEFINE n == Len(xs)
  <1>1. n \in Nat /\ \A i \in 1 .. n : xs[i] \in Int /\ ys[i] \in Int
    OBVIOUS
  <1>2. PICK h \in [0 .. n -> Int] :
          /\ h[0] = base /\ Smoothed(xs, base, old, new) = h[n]
          /\ \A k \in 0 .. n - 1 : h[k + 1] = Blend(h[k], xs[k + 1], old, new)
    <2>1. PICK f : IsAverage(f, xs, base, old, new)
      BY <1>1, SmoothedSteps
    <2> QED
      BY <2>1 DEF IsAverage
  <1>3. PICK g \in [0 .. n -> Int] :
          /\ g[0] = start /\ Smoothed(ys, start, old, new) = g[n]
          /\ \A k \in 0 .. n - 1 : g[k + 1] = Blend(g[k], ys[k + 1], old, new)
    <2>1. PICK f : IsAverage(f, ys, start, old, new)
      BY <1>1, SmoothedSteps
    <2> QED
      BY <2>1 DEF IsAverage
  <1> DEFINE right == {k \in Nat : k <= n => h[k] <= g[k]}
  <1>4. 0 \in right
    BY <1>2, <1>3
  <1>5. ASSUME NEW k \in Nat, k \in right PROVE k + 1 \in right
    <2> SUFFICES ASSUME k + 1 <= n PROVE h[k + 1] <= g[k + 1]
      OBVIOUS
    <2>1. k \in 0 .. n - 1 /\ k \in 0 .. n /\ k + 1 \in 1 .. n /\ k <= n
      BY <1>1
    <2>2. h[k] <= g[k] /\ xs[k + 1] <= ys[k + 1]
      BY <1>5, <2>1
    <2>3. h[k] \in Int /\ g[k] \in Int /\ xs[k + 1] \in Int /\ ys[k + 1] \in Int
      BY <1>1, <1>2, <1>3, <2>1
    <2>4. Blend(h[k], xs[k + 1], old, new) <= Blend(g[k], ys[k + 1], old, new)
      BY <2>2, <2>3, BlendMonotone
    <2> QED
      BY <1>2, <1>3, <2>1, <2>4
  <1> HIDE DEF right
  <1>6. n \in right
    BY <1>1, <1>4, <1>5, NatSetInduction
  <1> QED
    BY <1>1, <1>2, <1>3, <1>6 DEF right

\* An average moves with its values.
LEMMA SmoothedShifted ==
  ASSUME NEW xs \in Seq(Int), NEW ys \in Seq(Int), NEW base \in Int, NEW start \in Int,
         NEW c \in Int, NEW old \in Nat, NEW new \in Nat \ {0}, Apart(base, start, c),
         Len(ys) = Len(xs), \A i \in 1 .. Len(xs) : ys[i] = xs[i] + c
  PROVE  Smoothed(ys, start, old, new) = Smoothed(xs, base, old, new) + c
  <1> DEFINE n == Len(xs)
  <1>1. /\ n \in Nat /\ start = base + c
        /\ \A i \in 1 .. n : xs[i] \in Int /\ ys[i] \in Int
    BY DEF Apart
  <1>2. PICK h \in [0 .. n -> Int] :
          /\ h[0] = base /\ Smoothed(xs, base, old, new) = h[n]
          /\ \A k \in 0 .. n - 1 : h[k + 1] = Blend(h[k], xs[k + 1], old, new)
    <2>1. PICK f : IsAverage(f, xs, base, old, new)
      BY <1>1, SmoothedSteps
    <2> QED
      BY <2>1 DEF IsAverage
  <1>3. PICK g \in [0 .. n -> Int] :
          /\ g[0] = start /\ Smoothed(ys, start, old, new) = g[n]
          /\ \A k \in 0 .. n - 1 : g[k + 1] = Blend(g[k], ys[k + 1], old, new)
    <2>1. PICK f : IsAverage(f, ys, start, old, new)
      BY <1>1, SmoothedSteps
    <2> QED
      BY <2>1 DEF IsAverage
  <1> DEFINE right == {k \in Nat : k <= n => g[k] = h[k] + c}
  <1>4. 0 \in right
    BY <1>1, <1>2, <1>3
  <1>5. ASSUME NEW k \in Nat, k \in right PROVE k + 1 \in right
    <2> SUFFICES ASSUME k + 1 <= n PROVE g[k + 1] = h[k + 1] + c
      OBVIOUS
    <2>1. k \in 0 .. n - 1 /\ k \in 0 .. n /\ k + 1 \in 1 .. n /\ k <= n
      BY <1>1
    <2>2. g[k] = h[k] + c /\ ys[k + 1] = xs[k + 1] + c
      BY <1>5, <2>1
    <2>3. h[k] \in Int /\ xs[k + 1] \in Int /\ g[k] \in Int /\ ys[k + 1] \in Int
      BY <1>1, <1>2, <1>3, <2>1
    <2>4. Blend(g[k], ys[k + 1], old, new) = Blend(h[k], xs[k + 1], old, new) + c
      <3>1. Apart(h[k], g[k], c) /\ Apart(xs[k + 1], ys[k + 1], c)
        BY <2>2 DEF Apart
      <3> QED
        BY <2>3, <3>1, BlendShifted
    <2> QED
      BY <1>2, <1>3, <2>1, <2>4
  <1> HIDE DEF right
  <1>6. n \in right
    BY <1>1, <1>4, <1>5, NatSetInduction
  <1> QED
    BY <1>1, <1>2, <1>3, <1>6 DEF right

\* An average of equal values is that value.
LEMMA SmoothedConstant ==
  ASSUME NEW xs \in Seq(Int), NEW c \in Int, NEW old \in Nat, NEW new \in Nat \ {0},
         \A i \in 1 .. Len(xs) : xs[i] = c
  PROVE  Smoothed(xs, c, old, new) = c
  <1> DEFINE n == Len(xs)
  <1>1. n \in Nat
    OBVIOUS
  <1>2. PICK h \in [0 .. n -> Int] :
          /\ h[0] = c /\ Smoothed(xs, c, old, new) = h[n]
          /\ \A k \in 0 .. n - 1 : h[k + 1] = Blend(h[k], xs[k + 1], old, new)
    <2>1. PICK f : IsAverage(f, xs, c, old, new)
      BY <1>1, SmoothedSteps
    <2> QED
      BY <2>1 DEF IsAverage
  <1> DEFINE right == {k \in Nat : k <= n => h[k] = c}
  <1>3. 0 \in right
    BY <1>2
  <1>4. ASSUME NEW k \in Nat, k \in right PROVE k + 1 \in right
    <2> SUFFICES ASSUME k + 1 <= n PROVE h[k + 1] = c
      OBVIOUS
    <2>1. k \in 0 .. n - 1 /\ k + 1 \in 1 .. n /\ k <= n
      BY <1>1
    <2>2. h[k] = c /\ xs[k + 1] = c
      BY <1>4, <2>1
    <2>3. Blend(c, c, old, new) = c
      BY BlendConstant
    <2> QED
      BY <1>2, <2>1, <2>2, <2>3
  <1> HIDE DEF right
  <1>5. n \in right
    BY <1>1, <1>3, <1>4, NatSetInduction
  <1> QED
    BY <1>1, <1>2, <1>5 DEF right

\* One value more: the older ones count old times, the new one new times.
LEMMA WeightedExtended ==
  ASSUME NEW xs \in Seq(Int), NEW ys \in Seq(Int), NEW base \in Int,
         NEW old \in Nat, NEW new \in Nat \ {0}, Len(ys) = Len(xs) + 1,
         \A i \in 1 .. Len(xs) : ys[i] = xs[i]
  PROVE  /\ Weighted(xs, base, old, new) \in Int
         /\ Weighted(ys, base, old, new)
              = old * Weighted(xs, base, old, new)
                  + new * Power(old + new, Len(xs)) * ys[Len(ys)]
  <1> DEFINE n == Len(xs)
             d == old + new
             term(zs, k, i) == Power(old, k - i) * new * Power(d, i - 1) * zs[i]
             us == [i \in 1 .. n |-> term(xs, n, i)]
             vs == [i \in 1 .. n + 1 |-> term(ys, n + 1, i)]
             ws == [i \in 1 .. n |-> old * us[i]]
  <1>1. /\ n \in Nat /\ n + 1 \in Nat /\ d \in Int /\ Len(ys) = n + 1
        /\ DOMAIN xs = 1 .. n /\ DOMAIN ys = 1 .. n + 1
        /\ \A i \in 1 .. n : xs[i] \in Int
        /\ \A i \in 1 .. n + 1 : ys[i] \in Int
    OBVIOUS
  <1>2. ASSUME NEW k \in Nat, NEW zs \in Seq(Int), NEW i \in 1 .. k, zs[i] \in Int
        PROVE  term(zs, k, i) \in Int
    <2>1. Power(old, k - i) \in Int /\ Power(d, i - 1) \in Int
      <3>1. k - i \in Nat /\ i - 1 \in Nat /\ old \in Int
        BY <1>2
      <3> QED
        BY <1>1, <3>1, PowerStep
    <2>2. \A a, b, c : a \in Int /\ b \in Int /\ c \in Int => a * new * b * c \in Int
      OBVIOUS
    <2> QED
      BY <1>2, <2>1, <2>2
  <1>3. Weighted(xs, base, old, new) = Power(old, n) * base + Total(us)
    BY <1>1 DEF Weighted
  <1>4. Weighted(ys, base, old, new) = Power(old, n + 1) * base + Total(vs)
    BY <1>1 DEF Weighted
  <1>5. \A i \in 1 .. n : us[i] = term(xs, n, i) /\ us[i] \in Int
    BY <1>1, <1>2
  <1>6. \A i \in 1 .. n + 1 : vs[i] = term(ys, n + 1, i) /\ vs[i] \in Int
    BY <1>1, <1>2
  <1>7. \A i \in 1 .. n : ws[i] = old * us[i] /\ ws[i] \in Int
    BY <1>5
  <1>8. us \in Seq(Int) /\ Len(us) = n
    <2>1. us = [i \in 1 .. n |-> us[i]]
      OBVIOUS
    <2> HIDE DEF us
    <2> QED
      BY <1>1, <1>5, <2>1, IsSeries
  <1>9. vs \in Seq(Int) /\ Len(vs) = n + 1
    <2>1. vs = [i \in 1 .. n + 1 |-> vs[i]]
      OBVIOUS
    <2> HIDE DEF vs
    <2> QED
      BY <1>1, <1>6, <2>1, IsSeries
  <1>10. ws \in Seq(Int) /\ Len(ws) = n
    <2>1. ws = [i \in 1 .. n |-> ws[i]]
      OBVIOUS
    <2> HIDE DEF ws
    <2> QED
      BY <1>1, <1>7, <2>1, IsSeries
  <1> HIDE DEF us, vs, ws
  <1>11. ASSUME NEW i \in 1 .. n PROVE vs[i] = ws[i]
    <2> DEFINE p == Power(old, n - i)
               q == Power(d, i - 1)
               x == xs[i]
    <2>1. p \in Int /\ q \in Int /\ x \in Int /\ Power(old, (n - i) + 1) = old * p
      <3>1. n - i \in Nat /\ i - 1 \in Nat /\ old \in Int
        BY <1>1
      <3> QED
        BY <1>1, <3>1, PowerStep
    <2>2. (n - i) + 1 = (n + 1) - i /\ i \in 1 .. n + 1
      BY <1>1
    <2>3. vs[i] = (old * p) * new * q * x /\ ws[i] = old * (p * new * q * x)
      BY <1>5, <1>6, <1>7, <2>1, <2>2
    <2> HIDE DEF p, q, x
    <2>4. (old * p) * new * q * x = old * (p * new * q * x)
      BY <2>1
    <2> QED
      BY <2>3, <2>4
  <1>12. vs[n + 1] = new * Power(d, n) * ys[n + 1]
    <2>1. vs[n + 1] = Power(old, 0) * new * Power(d, n) * ys[n + 1]
      <3>1. n + 1 \in 1 .. n + 1 /\ (n + 1) - (n + 1) = 0 /\ (n + 1) - 1 = n
        BY <1>1
      <3> QED
        BY <1>6, <3>1
    <2>2. Power(old, 0) = 1
      BY PowerStep
    <2> QED
      BY <2>1, <2>2
  <1>13. Total(us) \in Int /\ Total(ws) = old * Total(us) /\ Total(vs) = Total(ws) + vs[n + 1]
    <2>1. Total(us) \in Int
      BY <1>8, TotalType
    <2>2. Total(ws) = old * Total(us)
      <3>1. /\ us \in Seq(Int) /\ ws \in Seq(Int) /\ old \in Int /\ Len(ws) = Len(us)
            /\ \A i \in 1 .. Len(us) : ws[i] = old * us[i]
        BY <1>7, <1>8, <1>10
      <3> QED
        BY <3>1, TotalScaled
    <2>3. Total(vs) = Total(ws) + vs[n + 1]
      BY <1>9, <1>10, <1>11, TotalExtended
    <2> QED
      BY <2>1, <2>2, <2>3
  <1> DEFINE t == Total(us)
             p == Power(old, n)
             z == new * Power(d, n) * ys[n + 1]
  <1>14. /\ p \in Int /\ t \in Int /\ z \in Int /\ Power(old, n + 1) = old * p
    <2>1. old \in Int
      OBVIOUS
    <2>2. p \in Int /\ Power(old, n + 1) = old * p
      BY <1>1, <2>1, PowerStep
    <2> DEFINE q == Power(d, n)
               y == ys[n + 1]
    <2>3. q \in Int /\ y \in Int
      <3>1. q \in Int
        BY <1>1, PowerStep
      <3>2. n + 1 \in 1 .. n + 1
        BY <1>1
      <3> QED
        BY <1>1, <3>1, <3>2
    <2>4. new * q * y \in Int
      <3> HIDE DEF q, y
      <3> QED
        BY <2>3
    <2> QED
      BY <1>13, <2>2, <2>4
  <1>15. /\ Weighted(xs, base, old, new) = p * base + t
         /\ Weighted(ys, base, old, new) = (old * p) * base + (old * t + z)
    BY <1>3, <1>4, <1>12, <1>13, <1>14
  <1> HIDE DEF t, p, z
  <1>16. (old * p) * base + (old * t + z) = old * (p * base + t) + z /\ p * base + t \in Int
    BY <1>14
  <1> QED
    BY <1>1, <1>15, <1>16 DEF z, n, d

\* A product, and a series times c, as facts of their own.
ProductOf(a, b) == a * b
IsScaled(xs, ys, c) ==
  /\ xs \in Seq(Int) /\ ys \in Seq(Int) /\ Len(xs) = Len(ys)
  /\ \A i \in 1 .. Len(ys) : xs[i] = c * ys[i]

\* Of values scaled by the powers it divides by, the smoothed average is the
\* weighted sum.
LEMMA SmoothedWeighted ==
  ASSUME NEW xs, NEW start, NEW ys, NEW base \in Int, NEW m \in Int,
         NEW old \in Nat, NEW new \in Nat \ {0}, NEW d, d = old + new,
         IsScaled(xs, ys, ProductOf(m, Power(d, Len(ys)))),
         start = ProductOf(ProductOf(m, Power(d, Len(ys))), base)
  PROVE  /\ Smoothed(xs, start, old, new) = ProductOf(m, Weighted(ys, base, old, new))
         /\ Weighted(ys, base, old, new) \in Int
  <1> DEFINE n == Len(ys)
             pre(k) == [i \in 1 .. k |-> ys[i]]
             w(k) == Weighted(pre(k), base, old, new)
  <1>0. /\ xs \in Seq(Int) /\ ys \in Seq(Int) /\ Len(xs) = Len(ys) /\ start \in Int
        /\ start = m * Power(d, n) * base
        /\ \A i \in 1 .. n : xs[i] = m * Power(d, n) * ys[i]
    <2>1. /\ xs \in Seq(Int) /\ ys \in Seq(Int) /\ Len(xs) = Len(ys)
          /\ start = m * Power(d, n) * base
          /\ \A i \in 1 .. n : xs[i] = m * Power(d, n) * ys[i]
      BY DEF IsScaled, ProductOf
    <2>2. n \in Nat /\ d \in Int
      BY <2>1
    <2>3. Power(d, n) \in Int
      <3> HIDE DEF n
      <3> QED
        BY <2>2, PowerStep
    <2> QED
      BY <2>1, <2>3
  <1>1. n \in Nat /\ d \in Nat \ {0} /\ d \in Int /\ \A i \in 1 .. n : ys[i] \in Int
    BY <1>0
  <1>2. PICK h \in [0 .. n -> Int] :
          /\ h[0] = start /\ Smoothed(xs, start, old, new) = h[n]
          /\ \A k \in 0 .. n - 1 : h[k + 1] = Blend(h[k], xs[k + 1], old, new)
    <2>1. PICK f : IsAverage(f, xs, start, old, new)
      BY <1>0, SmoothedSteps
    <2> QED
      BY <1>0, <2>1 DEF IsAverage
  <1>3. ASSUME NEW k \in 0 .. n
        PROVE  pre(k) \in Seq(Int) /\ Len(pre(k)) = k /\ \A i \in 1 .. k : pre(k)[i] = ys[i]
    <2>1. \A i \in 1 .. k : pre(k)[i] = ys[i] /\ pre(k)[i] \in Int
      BY <1>1
    <2>2. pre(k) = [i \in 1 .. k |-> pre(k)[i]] /\ k \in Nat
      BY <1>1
    <2> HIDE DEF pre
    <2> QED
      BY <2>1, <2>2, IsSeries
  <1>4. pre(n) = ys
    BY <1>0
  <1> HIDE DEF pre
  <1>5. w(0) = base
    <2>1. pre(0) \in Seq(Int) /\ Len(pre(0)) = 0
      BY <1>1, <1>3
    <2> DEFINE row == [i \in DOMAIN pre(0) |->
                         Power(old, Len(pre(0)) - i) * new * Power(d, i - 1) * pre(0)[i]]
    <2>2. row \in Seq(Int) /\ Len(row) = 0
      <3>1. row = [i \in 1 .. 0 |-> row[i]] /\ \A i \in 1 .. 0 : row[i] \in Int
        BY <2>1
      <3> HIDE DEF row
      <3> QED
        BY <3>1, IsSeries
    <2>3. w(0) = Power(old, 0) * base + Total(row)
      BY <2>1 DEF Weighted
    <2> HIDE DEF row, w
    <2>4. Total(row) = 0
      BY <2>2, TotalEmpty
    <2>5. Power(old, 0) = 1
      <3>1. old \in Int /\ 0 \in Nat
        OBVIOUS
      <3> QED
        BY <3>1, PowerStep
    <2> QED
      BY <2>3, <2>4, <2>5
  <1>6. ASSUME NEW k \in 0 .. n - 1
        PROVE  w(k) \in Int /\ w(k + 1) = old * w(k) + new * Power(d, k) * ys[k + 1]
    <2> DEFINE us == pre(k)
               vs == pre(k + 1)
    <2>1. k \in 0 .. n /\ k + 1 \in 0 .. n /\ k + 1 \in 1 .. k + 1
      BY <1>1
    <2>2. /\ us \in Seq(Int) /\ Len(us) = k /\ \A i \in 1 .. k : us[i] = ys[i]
          /\ vs \in Seq(Int) /\ Len(vs) = k + 1 /\ \A i \in 1 .. k + 1 : vs[i] = ys[i]
      BY <1>3, <2>1
    <2>3. \A i \in 1 .. k : i \in 1 .. k + 1
      BY <2>1
    <2>4. vs[k + 1] = ys[k + 1]
      BY <2>1, <2>2
    <2> HIDE DEF us, vs
    <2>5. Len(vs) = Len(us) + 1 /\ \A i \in 1 .. Len(us) : vs[i] = us[i]
      BY <2>2, <2>3
    <2>6. /\ Weighted(us, base, old, new) \in Int
          /\ Weighted(vs, base, old, new)
               = old * Weighted(us, base, old, new) + new * Power(d, Len(us)) * vs[Len(vs)]
      BY <2>2, <2>5, WeightedExtended
    <2> QED
      BY <2>2, <2>4, <2>6 DEF us, vs
  <1>7. w(n) \in Int
    <2>1. n \in 0 .. n
      BY <1>1
    <2>2. pre(n) \in Seq(Int)
      BY <1>3, <2>1
    <2> DEFINE us == pre(n)
               vs == Append(us, 0)
    <2>3. us \in Seq(Int)
      BY <2>2
    <2> HIDE DEF us
    <2>4. vs \in Seq(Int) /\ Len(vs) = Len(us) + 1 /\ \A i \in 1 .. Len(us) : vs[i] = us[i]
      BY <2>3
    <2> HIDE DEF vs
    <2>5. Weighted(us, base, old, new) \in Int
      BY <2>3, <2>4, WeightedExtended
    <2> QED
      BY <2>5 DEF us
  <1> HIDE DEF w
  <1> DEFINE right == {k \in Nat : k <= n => h[k] = m * Power(d, n - k) * w(k)}
  <1>8. 0 \in right
    <2>1. n - 0 = n
      BY <1>1
    <2> QED
      BY <1>0, <1>2, <1>5, <2>1
  <1>9. ASSUME NEW k \in Nat, k \in right PROVE k + 1 \in right
    <2> SUFFICES ASSUME k + 1 <= n
                 PROVE  h[k + 1] = m * Power(d, n - (k + 1)) * w(k + 1)
      OBVIOUS
    <2> DEFINE p == Power(d, n - (k + 1))
               q == Power(d, k)
               r == m * p
               v == w(k)
               y == ys[k + 1]
    <2>1. k \in 0 .. n - 1 /\ k + 1 \in 1 .. n /\ k <= n /\ n - (k + 1) \in Nat
      BY <1>1
    <2>2. h[k] = m * Power(d, n - k) * v
      BY <1>9, <2>1
    <2>3. p \in Int /\ q \in Int /\ v \in Int /\ y \in Int
      BY <1>1, <1>6, <2>1, PowerStep
    <2>4. Power(d, n - k) = d * p
      <3>1. (n - (k + 1)) + 1 = n - k
        BY <1>1
      <3> QED
        BY <1>1, <2>1, <3>1, PowerStep
    <2>5. Power(d, n) = (d * p) * q
      <3>1. (n - k) + k = n /\ n - k \in Nat
        BY <1>1, <2>1
      <3>2. Power(d, (n - k) + k) = Power(d, n - k) * Power(d, k)
        BY <1>1, <3>1, PowerSum
      <3> QED
        BY <2>4, <3>1, <3>2
    <2>6. w(k + 1) = old * v + new * q * y
      BY <1>6, <2>1
    <2>7. h[k + 1] = Blend(h[k], xs[k + 1], old, new)
      BY <1>2, <2>1
    <2>8. xs[k + 1] = m * ((d * p) * q) * y
      BY <1>0, <2>1, <2>5
    <2> HIDE DEF p, q, v, y
    <2>9. h[k] = d * r * v /\ xs[k + 1] = d * r * q * y /\ r \in Int
      <3>1. m * (d * p) * v = d * (m * p) * v
        BY <1>1, <2>3
      <3>2. m * ((d * p) * q) * y = d * (m * p) * q * y
        BY <1>1, <2>3
      <3> QED
        BY <2>2, <2>3, <2>4, <2>8, <3>1, <3>2
    <2> HIDE DEF r
    <2>10. Blend(h[k], xs[k + 1], old, new) = r * (old * v + new * q * y)
      <3> DEFINE c == r * (old * v + new * q * y)
      <3>1. c \in Int
        BY <2>3, <2>9
      <3>2. old * (d * r * v) + new * (d * r * q * y) = d * c
        BY <1>1, <2>3, <2>9
      <3>3. Blend(h[k], xs[k + 1], old, new) = (d * c) \div d
        BY <2>9, <3>2 DEF Blend
      <3> HIDE DEF c
      <3>4. (d * c) \div d = c
        BY <1>1, <3>1, Division
      <3> QED
        BY <3>3, <3>4 DEF c
    <2> QED
      BY <2>6, <2>7, <2>9, <2>10 DEF r, p
  <1>10. h[n] = m * Power(d, 0) * w(n)
    <2> HIDE DEF right
    <2>1. n \in right
      BY <1>1, <1>8, <1>9, NatSetInduction
    <2>2. n - n = 0
      BY <1>1
    <2> QED
      BY <1>1, <2>1, <2>2 DEF right
  <1>11. m * Power(d, 0) * w(n) = m * w(n)
    <2>1. Power(d, 0) = 1
      BY <1>1, PowerStep
    <2> QED
      BY <1>7, <2>1
  <1> QED
    BY <1>2, <1>4, <1>7, <1>10, <1>11 DEF w, ProductOf

-----------------------------------------------------------------------------
(* What the indicators read of a series.                                   *)

\* Scaling keeps the length.
LEMMA ScaledType ==
  ASSUME NEW xs \in Seq(Int), NEW c \in Int
  PROVE  /\ Scaled(xs, c) \in Seq(Int) /\ Len(Scaled(xs, c)) = Len(xs)
         /\ \A i \in 1 .. Len(xs) : Scaled(xs, c)[i] = c * xs[i]
  <1> DEFINE n == Len(xs)
             zs == Scaled(xs, c)
  <1>1. n \in Nat /\ \A i \in 1 .. n : xs[i] \in Int /\ c * xs[i] \in Int
    OBVIOUS
  <1>2. zs = [i \in 1 .. n |-> c * xs[i]]
    BY DEF Scaled, Mapped
  <1>3. zs = [i \in 1 .. n |-> zs[i]] /\ \A i \in 1 .. n : zs[i] = c * xs[i]
    <2> HIDE DEF zs
    <2> QED
      BY <1>2
  <1> HIDE DEF zs
  <1>4. zs \in Seq(Int) /\ Len(zs) = n
    BY <1>1, <1>3, IsSeries
  <1> QED
    BY <1>3, <1>4 DEF zs

\* The first values, the others, and all but the first.
LEMMA Parts ==
  ASSUME NEW xs \in Seq(Int), NEW p \in 0 .. Len(xs)
  PROVE  /\ SubSeq(xs, 1, p) \in Seq(Int) /\ Len(SubSeq(xs, 1, p)) = p
         /\ \A i \in 1 .. p : SubSeq(xs, 1, p)[i] = xs[i]
         /\ SubSeq(xs, p + 1, Len(xs)) \in Seq(Int)
         /\ Len(SubSeq(xs, p + 1, Len(xs))) = Len(xs) - p
         /\ \A i \in 1 .. Len(xs) - p : SubSeq(xs, p + 1, Len(xs))[i] = xs[p + i]
  <1> DEFINE n == Len(xs)
  <1>1. n \in Nat /\ p \in Int /\ 1 \in Int /\ \A i \in 1 .. n : xs[i] \in Int
    OBVIOUS
  <1> HIDE DEF n
  <1>2. \A i \in 1 .. p : xs[i] \in Int
    BY <1>1 DEF n
  <1>3. /\ SubSeq(xs, 1, p) \in Seq(Int)
        /\ Len(SubSeq(xs, 1, p)) = IF 1 <= p THEN p - 1 + 1 ELSE 0
        /\ \A i \in 1 .. p - 1 + 1 : SubSeq(xs, 1, p)[i] = xs[1 + i - 1]
    BY <1>1, <1>2, SubSeqProperties
  <1>4. p + 1 \in Int /\ n \in Int /\ \A i \in p + 1 .. n : xs[i] \in Int
    BY <1>1 DEF n
  <1>5. /\ SubSeq(xs, p + 1, n) \in Seq(Int)
        /\ Len(SubSeq(xs, p + 1, n)) = IF p + 1 <= n THEN n - (p + 1) + 1 ELSE 0
        /\ \A i \in 1 .. n - (p + 1) + 1 : SubSeq(xs, p + 1, n)[i] = xs[(p + 1) + i - 1]
    BY <1>4, SubSeqProperties
  <1>6. /\ Len(SubSeq(xs, 1, p)) = p
        /\ \A i \in 1 .. p : SubSeq(xs, 1, p)[i] = xs[i]
    <2>1. p - 1 + 1 = p /\ p \in Nat /\ \A i \in 1 .. p : 1 + i - 1 = i
      BY <1>1
    <2> QED
      BY <1>3, <2>1
  <1>7. /\ Len(SubSeq(xs, p + 1, n)) = n - p
        /\ \A i \in 1 .. n - p : SubSeq(xs, p + 1, n)[i] = xs[p + i]
    <2>1. n - (p + 1) + 1 = n - p /\ p <= n /\ p \in Nat
          /\ \A i \in 1 .. n - p : (p + 1) + i - 1 = p + i
      BY <1>1 DEF n
    <2> QED
      BY <1>1, <1>5, <2>1
  <1> QED
    BY <1>3, <1>5, <1>6, <1>7 DEF n

\* The first value and the others.
LEMMA HeadAndTail ==
  ASSUME NEW xs \in Seq(Int), Len(xs) > 0
  PROVE  /\ Head(xs) = xs[1] /\ xs[1] \in Int
         /\ Tail(xs) \in Seq(Int) /\ Len(Tail(xs)) = Len(xs) - 1
         /\ \A i \in 1 .. Len(xs) - 1 : Tail(xs)[i] = xs[i + 1]
  BY HeadTailProperties

\* The first step of an average starts with whole numbers, too.
LEMMA AverageTypes ==
  ASSUME NEW xs \in Seq(Int), NEW p \in Nat \ {0}
  PROVE  /\ Len(xs) > 0 => EmaFold(xs, p) \in Int
         /\ Len(xs) >= p => Wilder(xs, p) \in Int
  <1>1. p - 1 \in Nat /\ 1 \in Nat \ {0} /\ 2 \in Nat \ {0}
    OBVIOUS
  <1>2. ASSUME Len(xs) > 0 PROVE EmaFold(xs, p) \in Int
    <2>1. Tail(xs) \in Seq(Int) /\ Head(xs) \in Int
      BY <1>2, HeadAndTail
    <2> QED
      BY <1>1, <2>1, SmoothedType DEF EmaFold
  <1>3. ASSUME Len(xs) >= p PROVE Wilder(xs, p) \in Int
    <2>1. p \in 0 .. Len(xs)
      BY <1>3
    <2>2. SubSeq(xs, 1, p) \in Seq(Int) /\ SubSeq(xs, p + 1, Len(xs)) \in Seq(Int)
      BY <2>1, Parts
    <2>3. Total(SubSeq(xs, 1, p)) \in Int
      BY <2>2, TotalType
    <2>4. Total(SubSeq(xs, 1, p)) \div p \in Int
      BY <2>3, Division
    <2> QED
      BY <1>1, <2>2, <2>4, SmoothedType DEF Wilder
  <1> QED
    BY <1>2, <1>3

\* Of values scaled by the powers it divides by, an exponential average is the
\* weighted sum.
LEMMA EmaWeighted ==
  ASSUME NEW xs \in Seq(Int), NEW zs \in Seq(Int), NEW p \in Nat \ {0}, NEW m \in Int,
         Len(xs) > 0, Len(zs) = Len(xs),
         \A i \in 1 .. Len(xs) : zs[i] = m * Power(p + 1, Len(xs) - 1) * xs[i]
  PROVE  /\ EmaFold(zs, p) = m * Weighted(Tail(xs), Head(xs), p - 1, 2)
         /\ Weighted(Tail(xs), Head(xs), p - 1, 2) \in Int
  <1> DEFINE n == Len(xs)
             o == p - 1
             d == p + 1
             u == Tail(zs)
             v == Tail(xs)
             a == Head(zs)
             b == Head(xs)
  <1>1. /\ n \in Nat /\ o \in Nat /\ 2 \in Nat \ {0} /\ d = o + 2
        /\ 1 \in 1 .. n /\ n - 1 \in Nat
    OBVIOUS
  <1>2. /\ u \in Seq(Int) /\ Len(u) = n - 1 /\ \A i \in 1 .. n - 1 : u[i] = zs[i + 1]
        /\ v \in Seq(Int) /\ Len(v) = n - 1 /\ \A i \in 1 .. n - 1 : v[i] = xs[i + 1]
        /\ a = zs[1] /\ b = xs[1] /\ a \in Int /\ b \in Int
    BY HeadAndTail
  <1> HIDE DEF u, v, a, b
  <1>3. a = ProductOf(ProductOf(m, Power(d, Len(v))), b)
    BY <1>1, <1>2 DEF ProductOf
  <1>4. IsScaled(u, v, ProductOf(m, Power(d, Len(v))))
    <2> SUFFICES ASSUME NEW i \in 1 .. n - 1 PROVE u[i] = m * Power(d, Len(v)) * v[i]
      BY <1>2 DEF IsScaled, ProductOf
    <2>1. i + 1 \in 1 .. n
      BY <1>1
    <2> QED
      BY <1>1, <1>2, <2>1
  <1> HIDE DEF n, o, d
  <1>5. /\ Smoothed(u, a, o, 2) = ProductOf(m, Weighted(v, b, o, 2))
        /\ Weighted(v, b, o, 2) \in Int
    <2>1. b \in Int /\ o \in Nat /\ 2 \in Nat \ {0} /\ d = o + 2
      BY <1>1, <1>2
    <2> QED
      BY <1>3, <1>4, <2>1, SmoothedWeighted
  <1> QED
    BY <1>5 DEF EmaFold, ProductOf, u, v, a, b, o

\* So is the average of RSI and ATR.
LEMMA WilderWeighted ==
  ASSUME NEW xs \in Seq(Int), NEW zs \in Seq(Int), NEW p \in Nat \ {0},
         Len(xs) >= p, Len(zs) = Len(xs),
         \A i \in 1 .. Len(xs) : zs[i] = Power(p, Len(xs) - p + 1) * xs[i]
  PROVE  Wilder(zs, p) = Weighted(Scaled(SubSeq(xs, p + 1, Len(xs)), p),
                                  Total(SubSeq(xs, 1, p)), p - 1, 1)
  <1> DEFINE n == Len(xs)
             o == p - 1
             q == Power(p, n - p)
             f == SubSeq(xs, 1, p)
             g == SubSeq(zs, 1, p)
             r == SubSeq(xs, p + 1, n)
             s == SubSeq(zs, p + 1, n)
             t == Scaled(r, p)
  <1>1. /\ n \in Nat /\ o \in Nat /\ 1 \in Nat \ {0} /\ p = o + 1 /\ p \in Int
        /\ p \in 0 .. n /\ n - p \in Nat /\ (n - p) + 1 = n - p + 1
    OBVIOUS
  <1>2. q \in Int /\ Power(p, n - p + 1) = p * q
    BY <1>1, PowerStep
  <1>3. /\ f \in Seq(Int) /\ Len(f) = p /\ \A i \in 1 .. p : f[i] = xs[i]
        /\ r \in Seq(Int) /\ Len(r) = n - p /\ \A i \in 1 .. n - p : r[i] = xs[p + i]
    BY <1>1, Parts
  <1>4. /\ g \in Seq(Int) /\ Len(g) = p /\ \A i \in 1 .. p : g[i] = zs[i]
        /\ s \in Seq(Int) /\ Len(s) = n - p /\ \A i \in 1 .. n - p : s[i] = zs[p + i]
    BY <1>1, Parts
  <1> HIDE DEF f, g, r, s
  <1>5. t \in Seq(Int) /\ Len(t) = n - p /\ \A i \in 1 .. n - p : t[i] = p * r[i]
    <2>1. t \in Seq(Int) /\ Len(t) = Len(r) /\ \A i \in 1 .. Len(r) : t[i] = p * r[i]
      BY <1>1, <1>3, ScaledType
    <2> QED
      BY <1>3, <2>1
  <1> HIDE DEF t
  <1>6. Total(f) \in Int /\ Total(g) = (p * q) * Total(f)
    <2> DEFINE c == p * q
    <2>1. c \in Int
      BY <1>1, <1>2
    <2>2. \A i \in 1 .. Len(f) : g[i] = c * f[i]
      <3>1. \A i \in 1 .. p : i \in 1 .. n
        BY <1>1
      <3> QED
        BY <1>2, <1>3, <1>4, <3>1
    <2>3. Len(g) = Len(f)
      BY <1>3, <1>4
    <2> HIDE DEF c
    <2>4. Total(f) \in Int
      BY <1>3, TotalType
    <2>5. Total(g) = c * Total(f)
      BY <1>3, <1>4, <2>1, <2>2, <2>3, TotalScaled
    <2> QED
      BY <2>4, <2>5 DEF c
  <1>7. Total(g) \div p = 1 * Power(p, Len(t)) * Total(f)
    <2> DEFINE c == q * Total(f)
    <2>1. c \in Int /\ Total(g) = p * c
      <3> DEFINE y == Total(f)
      <3>1. y \in Int /\ Total(g) = (p * q) * y
        BY <1>6
      <3> HIDE DEF y, q
      <3> QED
        BY <1>1, <1>2, <3>1 DEF y
    <2>2. 1 * Power(p, Len(t)) * Total(f) = c
      BY <1>1, <1>2, <1>5, <1>6
    <2> HIDE DEF c
    <2>3. (p * c) \div p = c
      BY <2>1, Division
    <2> QED
      BY <2>1, <2>2, <2>3
  <1>8. \A i \in 1 .. Len(t) : s[i] = 1 * Power(p, Len(t)) * t[i]
    <2> SUFFICES ASSUME NEW i \in 1 .. n - p PROVE s[i] = 1 * Power(p, n - p) * t[i]
      BY <1>5
    <2> DEFINE x == xs[p + i]
    <2>1. p + i \in 1 .. n /\ x \in Int
      BY <1>1
    <2>2. s[i] = (p * q) * x /\ t[i] = p * x /\ Power(p, n - p) = q
      BY <1>1, <1>2, <1>3, <1>4, <1>5, <2>1
    <2> HIDE DEF x, q
    <2>3. (p * q) * x = 1 * q * (p * x)
      BY <1>1, <1>2, <2>1
    <2> QED
      BY <2>2, <2>3
  <1> DEFINE start == Total(g) \div p
             base == Total(f)
  <1>9. start \in Int /\ base \in Int
    <2>1. Total(g) \in Int
      BY <1>4, TotalType
    <2> QED
      BY <1>6, <2>1, Division
  <1> HIDE DEF n, o, q, start, base
  <1>10. Smoothed(s, start, o, 1) = ProductOf(1, Weighted(t, base, o, 1))
         /\ Weighted(t, base, o, 1) \in Int
    <2>1. IsScaled(s, t, ProductOf(1, Power(p, Len(t))))
      BY <1>4, <1>5, <1>8 DEF IsScaled, ProductOf
    <2>2. start = ProductOf(ProductOf(1, Power(p, Len(t))), base)
      BY <1>7 DEF start, base, ProductOf
    <2> QED
      BY <1>1, <1>9, <2>1, <2>2, SmoothedWeighted
  <1>11. Smoothed(s, start, o, 1) = Weighted(t, base, o, 1)
    BY <1>10 DEF ProductOf
  <1>12. Len(zs) = n
    BY DEF n
  <1> QED
    BY <1>11, <1>12 DEF Wilder, s, start, g, o, t, r, base, f, n

-----------------------------------------------------------------------------
(* The series, and the averages.                                           *)

SeriesTypeOK == candles \in Seq(Candles) /\ Len(candles) <= Limit

\* The exchange answers with at most Limit candles (fetch_ohlcv).
THEOREM SeriesTypeCorrect == SeriesSpec => []SeriesTypeOK
  <1>1. SeriesInit => SeriesTypeOK
    BY IndicatorsAssumption DEF SeriesInit, SeriesTypeOK
  <1>2. SeriesTypeOK /\ [Feed]_candles => SeriesTypeOK'
    <2> SUFFICES ASSUME SeriesTypeOK, Feed PROVE SeriesTypeOK'
      BY DEF SeriesTypeOK
    <2>1. PICK c \in Candles :
            candles' = IF Len(candles) < Limit THEN Append(candles, c) ELSE Append(Tail(candles), c)
      BY DEF Feed
    <2>2. candles \in Seq(Candles) /\ Len(candles) <= Limit /\ Limit \in Nat \ {0}
      BY IndicatorsAssumption DEF SeriesTypeOK
    <2>3. CASE Len(candles) < Limit
      BY <2>1, <2>2, <2>3 DEF SeriesTypeOK
    <2>4. CASE ~(Len(candles) < Limit)
      <3>1. candles # <<>> /\ Len(candles) = Limit
        BY <2>2, <2>4
      <3>2. Tail(candles) \in Seq(Candles) /\ Len(Tail(candles)) = Len(candles) - 1
        BY <2>2, <3>1, HeadTailProperties
      <3> QED
        BY <2>1, <2>2, <2>4, <3>1, <3>2 DEF SeriesTypeOK
    <2> QED
      BY <2>3, <2>4
  <1> QED
    BY <1>1, <1>2, PTL DEF SeriesSpec

\* Closes are natural numbers.
LEMMA ClosesType ==
  ASSUME NEW cs \in Seq(Candles)
  PROVE  LET xs == Mapped(LAMBDA c : c.close, cs)
         IN  /\ xs \in Seq(Int) /\ Len(xs) = Len(cs)
             /\ \A i \in 1 .. Len(cs) : xs[i] = cs[i].close /\ xs[i] \in Nat
  <1> DEFINE n == Len(cs)
             xs == Mapped(LAMBDA c : c.close, cs)
  <1>1. n \in Nat /\ \A i \in 1 .. n : cs[i] \in Candles /\ cs[i].close \in Nat
    BY IndicatorsAssumption
  <1>2. xs = [i \in 1 .. n |-> cs[i].close]
    BY DEF Mapped
  <1>3. \A i \in 1 .. n : xs[i] = cs[i].close /\ xs[i] \in Nat /\ xs[i] \in Int
    BY <1>1, <1>2
  <1>4. xs = [i \in 1 .. n |-> xs[i]]
    <2> HIDE DEF xs
    <2> QED
      BY <1>2, <1>3
  <1> HIDE DEF xs
  <1>5. xs \in Seq(Int) /\ Len(xs) = n
    BY <1>1, <1>3, <1>4, IsSeries
  <1> QED
    BY <1>3, <1>5 DEF xs

\* The exponential average and that of RSI and ATR are the weighted sums they
\* stand for (ema, rsi, atr).
THEOREM AveragesWeighted == SeriesSpec => []AveragesAreWeighted
  <1>1. ASSUME SeriesTypeOK PROVE AveragesAreWeighted
    <2> DEFINE xs == Closes
               n == Len(xs)
    <2>1. xs \in Seq(Int)
      BY <1>1, ClosesType DEF SeriesTypeOK, Closes
    <2> HIDE DEF xs
    <2> SUFFICES ASSUME NEW period \in Periods, n >= period
                 PROVE  /\ Ema(Scaled(xs, Power(period + 1, n - 1)), period)
                             = Weighted(Tail(xs), Head(xs), period - 1, 2)
                        /\ Wilder(Scaled(xs, Power(period, n - period + 1)), period)
                             = Weighted(Scaled(SubSeq(xs, period + 1, n), period),
                                        Total(SubSeq(xs, 1, period)), period - 1, 1)
      BY DEF AveragesAreWeighted, xs
    <2>2. /\ period \in Nat \ {0} /\ period \in Int /\ n \in Nat /\ n > 0 /\ n - 1 \in Nat
          /\ period + 1 \in Int /\ n - period + 1 \in Nat
      BY <2>1, IndicatorsAssumption
    <2> DEFINE us == Scaled(xs, Power(period + 1, n - 1))
               vs == Scaled(xs, Power(period, n - period + 1))
    <2>3. /\ us \in Seq(Int) /\ Len(us) = n
          /\ \A i \in 1 .. n : us[i] = Power(period + 1, n - 1) * xs[i]
      BY <2>1, <2>2, PowerStep, ScaledType
    <2>4. /\ vs \in Seq(Int) /\ Len(vs) = n
          /\ \A i \in 1 .. n : vs[i] = Power(period, n - period + 1) * xs[i]
      BY <2>1, <2>2, PowerStep, ScaledType
    <2> HIDE DEF us, vs
    <2>5. EmaFold(us, period) = Weighted(Tail(xs), Head(xs), period - 1, 2)
      <3>1. \A i \in 1 .. n : us[i] = 1 * Power(period + 1, n - 1) * xs[i]
        <4>1. Power(period + 1, n - 1) \in Int
          BY <2>2, PowerStep
        <4> QED
          BY <2>3, <4>1
      <3>2. /\ EmaFold(us, period) = 1 * Weighted(Tail(xs), Head(xs), period - 1, 2)
            /\ Weighted(Tail(xs), Head(xs), period - 1, 2) \in Int
        <4>1. 1 \in Int
          OBVIOUS
        <4> QED
          BY <2>1, <2>2, <2>3, <3>1, <4>1, EmaWeighted
      <3> QED
        BY <3>2
    <2>6. Ema(us, period) = EmaFold(us, period)
      BY <2>2, <2>3 DEF Ema
    <2>7. Wilder(vs, period) = Weighted(Scaled(SubSeq(xs, period + 1, n), period),
                                        Total(SubSeq(xs, 1, period)), period - 1, 1)
      BY <2>1, <2>2, <2>4, WilderWeighted
    <2> QED
      BY <2>5, <2>6, <2>7 DEF us, vs
  <1> QED
    BY <1>1, SeriesTypeCorrect, PTL

-----------------------------------------------------------------------------
(* What there is to know of a series.                                      *)

\* The greatest of three numbers.
LEMMA MaxOfThree ==
  ASSUME NEW a \in Int, NEW b \in Int, NEW c \in Int
  PROVE  Max({a, b, c}) = IF a >= b /\ a >= c THEN a ELSE IF b >= c THEN b ELSE c
  <1> DEFINE m == IF a >= b /\ a >= c THEN a ELSE IF b >= c THEN b ELSE c
  <1>1. m \in {a, b, c} /\ \A z \in {a, b, c} : m >= z
    OBVIOUS
  <1>2. \A z \in {a, b, c} : (\A w \in {a, b, c} : z >= w) => z = m
    OBVIOUS
  <1> HIDE DEF m
  <1>3. Max({a, b, c}) = m
    BY <1>1, <1>2 DEF Max
  <1> QED
    BY <1>3 DEF m

\* The greater of two numbers, and the distance of one from zero.
LEMMA MaxFacts ==
  ASSUME NEW a \in Int, NEW b \in Int
  PROVE  /\ Max({a, b}) = IF a >= b THEN a ELSE b
         /\ Abs(a) = IF a >= 0 THEN a ELSE -a
  <1>1. ASSUME NEW x \in Int, NEW y \in Int
        PROVE  Max({x, y}) = IF x >= y THEN x ELSE y
    <2> DEFINE m == IF x >= y THEN x ELSE y
    <2>1. m \in {x, y} /\ \A z \in {x, y} : m >= z
      BY <1>1
    <2>2. \A z \in {x, y} : (\A w \in {x, y} : z >= w) => z = m
      BY <1>1
    <2> HIDE DEF m
    <2>3. Max({x, y}) = m
      BY <2>1, <2>2 DEF Max
    <2> QED
      BY <2>3 DEF m
  <1>2. Max({a, b}) = IF a >= b THEN a ELSE b
    BY <1>1
  <1>3. Abs(a) = IF a >= 0 THEN a ELSE -a
    <2>1. -a \in Int
      OBVIOUS
    <2>2. Max({a, -a}) = IF a >= -a THEN a ELSE -a
      BY <1>1, <2>1
    <2> QED
      BY <2>2 DEF Abs
  <1> QED
    BY <1>2, <1>3

\* A series of n closes has n - 1 moves, gains and losses.
LEMMA MovesType ==
  ASSUME NEW xs \in Seq(Int), Len(xs) > 0
  PROVE  /\ Moves(xs) \in Seq(Int) /\ Len(Moves(xs)) = Len(xs) - 1
         /\ \A i \in 1 .. Len(xs) - 1 : Moves(xs)[i] = xs[i + 1] - xs[i] /\ Moves(xs)[i] \in Int
         /\ Gains(xs) \in Seq(Int) /\ Len(Gains(xs)) = Len(xs) - 1
         /\ \A i \in 1 .. Len(xs) - 1 :
               Gains(xs)[i] = IF Moves(xs)[i] >= 0 THEN Moves(xs)[i] ELSE 0
         /\ Losses(xs) \in Seq(Int) /\ Len(Losses(xs)) = Len(xs) - 1
         /\ \A i \in 1 .. Len(xs) - 1 :
               Losses(xs)[i] = IF Moves(xs)[i] >= 0 THEN 0 ELSE -Moves(xs)[i]
  <1> DEFINE n == Len(xs) - 1
             ms == Moves(xs)
             gs == Gains(xs)
             ls == Losses(xs)
  <1>1. n \in Nat /\ \A i \in 1 .. n : xs[i] \in Int /\ xs[i + 1] \in Int
    OBVIOUS
  <1>2. ms = [i \in 1 .. n |-> xs[i + 1] - xs[i]]
    BY DEF Moves
  <1>3. \A i \in 1 .. n : ms[i] = xs[i + 1] - xs[i] /\ ms[i] \in Int
    BY <1>1, <1>2
  <1>4. ms \in Seq(Int) /\ Len(ms) = n /\ DOMAIN ms = 1 .. n
    <2>1. ms = [i \in 1 .. n |-> ms[i]]
      <3> HIDE DEF ms
      <3> QED
        BY <1>2, <1>3
    <2> HIDE DEF ms, n
    <2> QED
      BY <1>1, <1>3, <2>1, IsSeries
  <1>5. gs = [i \in 1 .. n |-> Max({ms[i], 0})] /\ ls = [i \in 1 .. n |-> Max({-ms[i], 0})]
    BY <1>4 DEF Gains, Losses, Mapped
  <1> HIDE DEF ms, gs, ls, n
  <1>6. ASSUME NEW i \in 1 .. n
        PROVE  /\ gs[i] = IF ms[i] >= 0 THEN ms[i] ELSE 0
               /\ ls[i] = IF ms[i] >= 0 THEN 0 ELSE -ms[i]
               /\ gs[i] \in Int /\ ls[i] \in Int
    <2>1. ms[i] \in Int /\ -ms[i] \in Int /\ 0 \in Int
      BY <1>3
    <2>2. /\ Max({ms[i], 0}) = IF ms[i] >= 0 THEN ms[i] ELSE 0
          /\ Max({-ms[i], 0}) = IF -ms[i] >= 0 THEN -ms[i] ELSE 0
      BY <2>1, MaxFacts
    <2> QED
      BY <1>5, <2>1, <2>2
  <1>7. gs \in Seq(Int) /\ Len(gs) = n
    <2>1. gs = [i \in 1 .. n |-> gs[i]]
      BY <1>5
    <2> QED
      BY <1>1, <1>6, <2>1, IsSeries
  <1>8. ls \in Seq(Int) /\ Len(ls) = n
    <2>1. ls = [i \in 1 .. n |-> ls[i]]
      BY <1>5
    <2> QED
      BY <1>1, <1>6, <2>1, IsSeries
  <1> QED
    BY <1>3, <1>4, <1>6, <1>7, <1>8 DEF ms, gs, ls, n

\* RSI is a fraction of whole numbers, from the first close after its period.
LEMMA RsiKnown ==
  ASSUME NEW xs \in Seq(Int), NEW p \in Nat
  PROVE  Rsi(xs, p) # Missing <=> p # 0 /\ Len(xs) > p
  <1>1. CASE p # 0 /\ Len(xs) > p
    <2> DEFINE g == Wilder(Gains(xs), p)
               l == Wilder(Losses(xs), p)
    <2>1. g \in Int /\ l \in Int
      <3>1. /\ Gains(xs) \in Seq(Int) /\ Len(Gains(xs)) = Len(xs) - 1
            /\ Losses(xs) \in Seq(Int) /\ Len(Losses(xs)) = Len(xs) - 1
        BY <1>1, MovesType
      <3>2. p \in Nat \ {0} /\ Len(Gains(xs)) >= p /\ Len(Losses(xs)) >= p
        BY <1>1, <3>1
      <3> QED
        BY <3>1, <3>2, AverageTypes
    <2>2. Rsi(xs, p) = FractionOfGains(g, l)
      BY <1>1 DEF Rsi
    <2> HIDE DEF g, l
    <2>3. FractionOfGains(g, l) \in Int \X Int
      BY <2>1 DEF FractionOfGains
    <2> QED
      BY <1>1, <2>2, <2>3, IndicatorsAssumption
  <1>2. CASE ~(p # 0 /\ Len(xs) > p)
    BY <1>2 DEF Rsi
  <1> QED
    BY <1>1, <1>2

\* The lines of the MACD.
LEMMA MacdLineType ==
  ASSUME NEW xs \in Seq(Int), Len(xs) > 0
  PROVE  /\ MacdLine(xs) \in Seq(Int) /\ Len(MacdLine(xs)) = Len(xs) - 1
         /\ \A i \in 1 .. Len(xs) - 1 :
              MacdLine(xs)[i] = EmaFold(SubSeq(xs, 1, i + 1), Fast)
                                  - EmaFold(SubSeq(xs, 1, i + 1), Slow)
  <1> DEFINE n == Len(xs) - 1
             line == MacdLine(xs)
             diff(i) == EmaFold(SubSeq(xs, 1, i + 1), Fast) - EmaFold(SubSeq(xs, 1, i + 1), Slow)
  <1>1. n \in Nat
    OBVIOUS
  <1>2. ASSUME NEW i \in 1 .. n PROVE diff(i) \in Int
    <2>1. i + 1 \in 0 .. Len(xs) /\ i + 1 > 0 /\ Fast \in Nat \ {0} /\ Slow \in Nat \ {0}
      BY IndicatorsAssumption
    <2>2. SubSeq(xs, 1, i + 1) \in Seq(Int) /\ Len(SubSeq(xs, 1, i + 1)) = i + 1
      BY <2>1, Parts
    <2>3. EmaFold(SubSeq(xs, 1, i + 1), Fast) \in Int /\ EmaFold(SubSeq(xs, 1, i + 1), Slow) \in Int
      BY <2>1, <2>2, AverageTypes
    <2> QED
      BY <2>3
  <1>3. line = [i \in 1 .. n |-> diff(i)]
    BY DEF MacdLine
  <1> HIDE DEF n, diff, line
  <1>4. line = [i \in 1 .. n |-> line[i]] /\ \A i \in 1 .. n : line[i] = diff(i) /\ line[i] \in Int
    BY <1>2, <1>3
  <1>5. line \in Seq(Int) /\ Len(line) = n
    BY <1>1, <1>4, IsSeries
  <1> QED
    BY <1>4, <1>5 DEF line, n, diff

\* The MACD is there once its slow average and its signal are.
LEMMA MacdKnown ==
  ASSUME NEW xs \in Seq(Int)
  PROVE  Macd(xs) # Missing <=> Len(xs) >= Slow + Signal
  <1>1. CASE Len(xs) >= Slow + Signal
    <2> DEFINE line == MacdLine(xs)
               sig == EmaFold(line, Signal)
    <2>1. Len(xs) > 1 /\ Signal \in Nat \ {0}
      BY <1>1, IndicatorsAssumption
    <2>2. line \in Seq(Int) /\ Len(line) = Len(xs) - 1
      BY <2>1, MacdLineType
    <2> HIDE DEF line
    <2>3. Last(line) \in Int /\ sig \in Int
      <3>1. Len(line) > 0 /\ Len(line) \in 1 .. Len(line)
        BY <2>1, <2>2
      <3>2. sig \in Int
        BY <2>1, <2>2, <3>1, AverageTypes
      <3> QED
        BY <2>2, <3>1, <3>2 DEF Last
    <2>4. Macd(xs) = [macd |-> Last(line), signal |-> sig, histogram |-> Last(line) - sig]
      BY <1>1, <2>1, IndicatorsAssumption DEF Macd, line
    <2> HIDE DEF sig
    <2>5. Macd(xs) \in [macd : Int, signal : Int, histogram : Int]
      BY <2>3, <2>4
    <2> QED
      BY <1>1, <2>5, IndicatorsAssumption
  <1>2. CASE ~(Len(xs) >= Slow + Signal)
    <2>1. Len(xs) < Slow + Signal
      BY <1>2, IndicatorsAssumption
    <2> QED
      BY <1>2, <2>1 DEF Macd
  <1> QED
    BY <1>1, <1>2

\* A mean, and an average, are there once the series is as long as the period, ...
LEMMA MeansKnown ==
  ASSUME NEW xs \in Seq(Int), NEW p \in Nat
  PROVE  /\ Sma(xs, p) # Missing <=> p # 0 /\ Len(xs) >= p
         /\ p # 0 /\ Len(xs) >= p => Sma(xs, p) \in Int
         /\ Ema(xs, p) # Missing <=> p # 0 /\ Len(xs) >= p
  <1>1. CASE p # 0 /\ Len(xs) >= p
    <2> DEFINE us == Latest(xs, p)
    <2>1. us \in Seq(Int)
      <3> DEFINE q == Len(xs) - p
      <3>1. q \in 0 .. Len(xs) /\ q + 1 = Len(xs) - p + 1
        BY <1>1
      <3> HIDE DEF q
      <3>2. SubSeq(xs, q + 1, Len(xs)) \in Seq(Int)
        BY <3>1, Parts
      <3> QED
        BY <3>1, <3>2 DEF Latest
    <2> HIDE DEF us
    <2>2. Total(us) \div p \in Int
      <3>1. Total(us) \in Int
        BY <2>1, TotalType
      <3> QED
        BY <1>1, <3>1, Division
    <2>3. Sma(xs, p) = Total(us) \div p
      BY <1>1 DEF Sma, us
    <2>4. EmaFold(xs, p) \in Int /\ Ema(xs, p) = EmaFold(xs, p)
      <3>1. p \in Nat \ {0} /\ Len(xs) > 0
        BY <1>1
      <3>2. EmaFold(xs, p) \in Int
        BY <3>1, AverageTypes
      <3> QED
        BY <1>1, <3>2 DEF Ema
    <2> QED
      BY <1>1, <2>2, <2>3, <2>4, IndicatorsAssumption
  <1>2. CASE ~(p # 0 /\ Len(xs) >= p)
    BY <1>2 DEF Sma, Ema
  <1> QED
    BY <1>1, <1>2

\* ... and so are the bands.
LEMMA BandsKnown ==
  ASSUME NEW xs \in Seq(Int), NEW p \in Nat
  PROVE  BandsSquared(xs, p) # Missing <=> p > 1 /\ Len(xs) >= p
  <1>1. CASE p > 1 /\ Len(xs) >= p
    <2> DEFINE us == Latest(xs, p)
               mean == Sma(xs, p)
               vs == Mapped(LAMBDA x : (x - mean) * (x - mean), us)
    <2>1. us \in Seq(Int)
      <3> DEFINE q == Len(xs) - p
      <3>1. q \in 0 .. Len(xs) /\ q + 1 = Len(xs) - p + 1
        BY <1>1
      <3> HIDE DEF q
      <3>2. SubSeq(xs, q + 1, Len(xs)) \in Seq(Int)
        BY <3>1, Parts
      <3> QED
        BY <3>1, <3>2 DEF Latest
    <2>2. mean \in Int
      BY <1>1, MeansKnown
    <2> HIDE DEF us, mean
    <2>3. vs \in Seq(Int)
      <3> DEFINE n == Len(us)
      <3>1. n \in Nat /\ \A i \in 1 .. n : us[i] - mean \in Int
        BY <2>1, <2>2
      <3>2. vs = [i \in 1 .. n |-> (us[i] - mean) * (us[i] - mean)]
        BY <2>1 DEF Mapped
      <3>3. \A d \in Int : d * d \in Int
        OBVIOUS
      <3>4. \A i \in 1 .. n : (us[i] - mean) * (us[i] - mean) \in Int
        BY <3>1, <3>3
      <3> HIDE DEF vs, n
      <3>5. vs = [i \in 1 .. n |-> vs[i]] /\ \A i \in 1 .. n : vs[i] \in Int
        BY <3>2, <3>4
      <3> QED
        BY <3>1, <3>5, IsSeries
    <2>4. (4 * Total(vs)) \div p \in Int
      <3> HIDE DEF vs
      <3>1. Total(vs) \in Int
        BY <2>3, TotalType
      <3>2. 4 * Total(vs) \in Int /\ p \in Nat \ {0}
        BY <1>1, <3>1
      <3> QED
        BY <3>2, Division
    <2>5. BandsSquared(xs, p) = (4 * Total(vs)) \div p
      BY <1>1 DEF BandsSquared, Mapped, us, mean
    <2> QED
      BY <1>1, <2>4, <2>5, IndicatorsAssumption
  <1>2. CASE ~(p > 1 /\ Len(xs) >= p)
    BY <1>2 DEF BandsSquared, Mapped
  <1> QED
    BY <1>1, <1>2

\* A true range is no smaller than the move from close to close, and no larger
\* than any spread both candles are within.
LEMMA TrueRangeFacts ==
  ASSUME NEW c \in [high : Int, low : Int, close : Int, volume : Nat],
         NEW b \in [high : Int, low : Int, close : Int, volume : Nat],
         c.low <= c.close, c.close <= c.high
  PROVE  /\ TrueRange(c, b) \in Int
         /\ Abs(c.close - b.close) \in Int /\ Abs(c.close - b.close) <= TrueRange(c, b)
         /\ \A lo, hi \in Int :
              (\A x \in {c.high, c.low, b.close} : lo <= x /\ x <= hi)
                => TrueRange(c, b) <= hi - lo
  <1> DEFINE h == c.high
             l == c.low
             m == c.close
             k == b.close
             r == TrueRange(c, b)
  <1>1. /\ h \in Int /\ l \in Int /\ m \in Int /\ k \in Int /\ l <= m /\ m <= h
        /\ h - l \in Int /\ h - k \in Int /\ l - k \in Int /\ m - k \in Int
    OBVIOUS
  <1>2. r = Max({h - l, Abs(h - k), Abs(l - k)})
    BY DEF TrueRange
  <1> HIDE DEF h, l, m, k, r
  <1>3. /\ Abs(h - k) = (IF h - k >= 0 THEN h - k ELSE -(h - k))
        /\ Abs(l - k) = (IF l - k >= 0 THEN l - k ELSE -(l - k))
        /\ Abs(m - k) = (IF m - k >= 0 THEN m - k ELSE -(m - k))
    BY <1>1, MaxFacts
  <1> DEFINE x == Abs(h - k)
             y == Abs(l - k)
             z == h - l
  <1>4. x \in Int /\ y \in Int /\ z \in Int
    BY <1>1, <1>3
  <1> HIDE DEF x, y, z
  <1>5. r = IF z >= x /\ z >= y THEN z ELSE IF x >= y THEN x ELSE y
    <2>1. Max({z, x, y}) = IF z >= x /\ z >= y THEN z ELSE IF x >= y THEN x ELSE y
      BY <1>4, MaxOfThree
    <2>2. r = Max({z, x, y})
      BY <1>2 DEF x, y, z
    <2> QED
      BY <2>1, <2>2
  <1>6. r \in Int
    BY <1>4, <1>5
  <1>7. Abs(m - k) \in Int /\ Abs(m - k) <= r
    BY <1>1, <1>3, <1>5 DEF x, y, z
  <1>8. ASSUME NEW lo \in Int, NEW hi \in Int,
               lo <= h, h <= hi, lo <= l, l <= hi, lo <= k, k <= hi
        PROVE  r <= hi - lo
    BY <1>1, <1>3, <1>5, <1>8 DEF x, y, z
  <1>9. \A lo, hi \in Int :
          (\A v \in {h, l, k} : lo <= v /\ v <= hi) => r <= hi - lo
    BY <1>8
  <1> QED
    BY <1>6, <1>7, <1>9 DEF h, l, m, k, r

\* Candles with whole prices, the close between low and high.
Bars == {c \in [high : Int, low : Int, close : Int, volume : Nat] :
            c.low <= c.close /\ c.close <= c.high}

\* There is a true range for every candle but the first.
LEMMA TrueRangesType ==
  ASSUME NEW cs \in Seq(Bars), Len(cs) > 0
  PROVE  /\ TrueRanges(cs) \in Seq(Int) /\ Len(TrueRanges(cs)) = Len(cs) - 1
         /\ \A i \in 1 .. Len(cs) - 1 : TrueRanges(cs)[i] = TrueRange(cs[i + 1], cs[i])
  <1> DEFINE n == Len(cs) - 1
             rs == TrueRanges(cs)
  <1>1. n \in Nat
    OBVIOUS
  <1>2. ASSUME NEW i \in 1 .. n PROVE TrueRange(cs[i + 1], cs[i]) \in Int
    <2>1. cs[i] \in Bars /\ cs[i + 1] \in Bars
      OBVIOUS
    <2> QED
      BY <2>1, TrueRangeFacts DEF Bars
  <1>3. rs = [i \in 1 .. n |-> TrueRange(cs[i + 1], cs[i])]
    BY DEF TrueRanges
  <1> HIDE DEF n, rs
  <1>4. rs = [i \in 1 .. n |-> rs[i]]
        /\ \A i \in 1 .. n : rs[i] = TrueRange(cs[i + 1], cs[i]) /\ rs[i] \in Int
    BY <1>2, <1>3
  <1>5. rs \in Seq(Int) /\ Len(rs) = n
    BY <1>1, <1>4, IsSeries
  <1> QED
    BY <1>4, <1>5 DEF rs, n

\* The ATR is there from the first candle after its period.
LEMMA AtrKnown ==
  ASSUME NEW cs \in Seq(Bars), NEW p \in Nat
  PROVE  /\ Atr(cs, p) # Missing <=> p # 0 /\ Len(cs) > p
         /\ p # 0 /\ Len(cs) > p => Atr(cs, p) = Wilder(TrueRanges(cs), p)
  <1>1. CASE p # 0 /\ Len(cs) > p
    <2>1. Wilder(TrueRanges(cs), p) \in Int
      <3>1. TrueRanges(cs) \in Seq(Int) /\ Len(TrueRanges(cs)) = Len(cs) - 1
        BY <1>1, TrueRangesType
      <3>2. p \in Nat \ {0} /\ Len(TrueRanges(cs)) >= p
        BY <1>1, <3>1
      <3> QED
        BY <3>1, <3>2, AverageTypes
    <2>2. Atr(cs, p) = Wilder(TrueRanges(cs), p)
      BY <1>1 DEF Atr
    <2> QED
      BY <1>1, <2>1, <2>2, IndicatorsAssumption
  <1>2. CASE ~(p # 0 /\ Len(cs) > p)
    BY <1>2 DEF Atr
  <1> QED
    BY <1>1, <1>2

Names == {"rsi", "macd", "ema_fast", "ema_slow", "sma", "bollinger", "atr"}

\* Are n candles enough for the indicator?
Enough(name, n) ==
  CASE name = "rsi"       -> RsiPeriod # 0 /\ n > RsiPeriod
    [] name = "macd"      -> n >= Slow + Signal
    [] name = "ema_fast"  -> Fast # 0 /\ n >= Fast
    [] name = "ema_slow"  -> Slow # 0 /\ n >= Slow
    [] name = "sma"       -> BandPeriod # 0 /\ n >= BandPeriod
    [] name = "bollinger" -> BandPeriod > 1 /\ n >= BandPeriod
    [] name = "atr"       -> AtrPeriod # 0 /\ n > AtrPeriod

\* Which indicators there are, but for the VWAP, depends on the number of candles.
LEMMA KnownIsEnough ==
  ASSUME NEW cs \in Seq(Candles), ComputeAll(cs) # Raised
  PROVE  Known(ComputeAll(cs)) \ {"vwap"} = {k \in Names : Enough(k, Len(cs))}
  <1> DEFINE xs == Mapped(LAMBDA c : c.close, cs)
             n == Len(cs)
             all == [rsi |-> Rsi(xs, RsiPeriod), macd |-> Macd(xs),
                     ema_fast |-> Ema(xs, Fast), ema_slow |-> Ema(xs, Slow),
                     sma |-> Sma(xs, BandPeriod), bollinger |-> BandsSquared(xs, BandPeriod),
                     atr |-> Atr(cs, AtrPeriod), vwap |-> Vwap(cs)]
  <1>1. xs \in Seq(Int) /\ Len(xs) = n
    BY ClosesType
  <1>2. ComputeAll(cs) = all
    BY DEF ComputeAll
  <1>3. cs \in Seq(Bars)
    BY IndicatorsAssumption DEF Bars
  <1>4. /\ {Fast, Slow, Signal} \subseteq Nat \ {0}
        /\ {RsiPeriod, AtrPeriod, BandPeriod} \subseteq Nat
    BY IndicatorsAssumption
  <1> HIDE DEF xs
  <1>5. \A k \in Names : all[k] # Missing <=> Enough(k, n)
    <2>1. Rsi(xs, RsiPeriod) # Missing <=> Enough("rsi", n)
      BY <1>1, <1>4, RsiKnown DEF Enough
    <2>2. Macd(xs) # Missing <=> Enough("macd", n)
      BY <1>1, <1>4, MacdKnown DEF Enough
    <2>3. Ema(xs, Fast) # Missing <=> Enough("ema_fast", n)
      BY <1>1, <1>4, MeansKnown DEF Enough
    <2>4. Ema(xs, Slow) # Missing <=> Enough("ema_slow", n)
      BY <1>1, <1>4, MeansKnown DEF Enough
    <2>5. Sma(xs, BandPeriod) # Missing <=> Enough("sma", n)
      BY <1>1, <1>4, MeansKnown DEF Enough
    <2>6. BandsSquared(xs, BandPeriod) # Missing <=> Enough("bollinger", n)
      BY <1>1, <1>4, BandsKnown DEF Enough
    <2>7. Atr(cs, AtrPeriod) # Missing <=> Enough("atr", n)
      BY <1>3, <1>4, AtrKnown DEF Enough
    <2> QED
      BY <2>1, <2>2, <2>3, <2>4, <2>5, <2>6, <2>7 DEF Names
  <1>6. DOMAIN all = Names \cup {"vwap"} /\ "vwap" \notin Names
    BY DEF Names
  <1> HIDE DEF all, n
  <1>7. Known(all) \ {"vwap"} = {k \in Names : Enough(k, n)}
    BY <1>5, <1>6 DEF Known
  <1> QED
    BY <1>2, <1>7 DEF n

\* Once an indicator is there it stays while candles come in (compute_all), save
\* the VWAP.
THEOREM WarmsUp == SeriesSpec => WarmsUpOnce
  <1> DEFINE Step == LET before == ComputeAll(candles)
                         after == ComputeAll(candles')
                     IN  before # Raised /\ after # Raised =>
                           Known(before) \ {"vwap"} \subseteq Known(after)
  <1>1. SeriesTypeOK /\ SeriesTypeOK' /\ [Feed]_candles => [Step]_candles
    <2> SUFFICES ASSUME SeriesTypeOK, SeriesTypeOK', Feed,
                        ComputeAll(candles) # Raised, ComputeAll(candles') # Raised
                 PROVE  Known(ComputeAll(candles)) \ {"vwap"} \subseteq Known(ComputeAll(candles'))
      OBVIOUS
    <2> DEFINE n == Len(candles)
               m == Len(candles')
    <2>1. /\ candles \in Seq(Candles) /\ candles' \in Seq(Candles)
          /\ n \in Nat /\ m \in Nat
      BY DEF SeriesTypeOK
    <2>2. n <= m
      <3>1. PICK c \in Candles :
              candles' = IF n < Limit THEN Append(candles, c) ELSE Append(Tail(candles), c)
        BY DEF Feed
      <3>2. CASE n < Limit
        BY <2>1, <3>1, <3>2
      <3>3. CASE ~(n < Limit)
        <4>1. n = Limit /\ Limit \in Nat \ {0} /\ candles # <<>>
          BY <2>1, <3>3, IndicatorsAssumption DEF SeriesTypeOK
        <4>2. Tail(candles) \in Seq(Candles) /\ Len(Tail(candles)) = n - 1
          BY <2>1, <4>1, HeadTailProperties
        <4> QED
          BY <2>1, <3>1, <3>3, <4>2
      <3> QED
        BY <3>2, <3>3
    <2>3. /\ Known(ComputeAll(candles)) \ {"vwap"} = {k \in Names : Enough(k, n)}
          /\ Known(ComputeAll(candles')) \ {"vwap"} = {k \in Names : Enough(k, m)}
      BY <2>1, KnownIsEnough
    <2> HIDE DEF n, m
    <2>4. \A k \in Names : Enough(k, n) => Enough(k, m)
      <3>2. /\ Fast \in Int /\ Slow + Signal \in Int /\ Slow \in Int
            /\ RsiPeriod \in Int /\ AtrPeriod \in Int /\ BandPeriod \in Int
        BY IndicatorsAssumption
      <3>3. Enough("rsi", n) => Enough("rsi", m)
        BY <2>1, <2>2, <3>2 DEF Enough
      <3>4. Enough("macd", n) => Enough("macd", m)
        BY <2>1, <2>2, <3>2 DEF Enough
      <3>5. Enough("ema_fast", n) => Enough("ema_fast", m)
        BY <2>1, <2>2, <3>2 DEF Enough
      <3>6. Enough("ema_slow", n) => Enough("ema_slow", m)
        BY <2>1, <2>2, <3>2 DEF Enough
      <3>7. Enough("sma", n) => Enough("sma", m)
        BY <2>1, <2>2, <3>2 DEF Enough
      <3>8. Enough("bollinger", n) => Enough("bollinger", m)
        BY <2>1, <2>2, <3>2 DEF Enough
      <3>9. Enough("atr", n) => Enough("atr", m)
        BY <2>1, <2>2, <3>2 DEF Enough
      <3> QED
        BY <3>3, <3>4, <3>5, <3>6, <3>7, <3>8, <3>9 DEF Names
    <2> QED
      BY <2>3, <2>4
  <1> QED
    BY <1>1, SeriesTypeCorrect, PTL DEF SeriesSpec, WarmsUpOnce

-----------------------------------------------------------------------------
(* The ranges.                                                             *)

\* The numbers of a series have a greatest and a least.
LEMMA Extremes ==
  ASSUME NEW zs \in Seq(Int), Len(zs) > 0, NEW S, S = {zs[i] : i \in 1 .. Len(zs)}
  PROVE  /\ Max(S) \in Int /\ Min(S) \in Int
         /\ \A i \in 1 .. Len(zs) : Min(S) <= zs[i] /\ zs[i] <= Max(S)
  <1> DEFINE n == Len(zs)
             Best(k) == \E i, j \in 1 .. k + 1 :
                          \A h \in 1 .. k + 1 : zs[j] <= zs[h] /\ zs[h] <= zs[i]
             G == {k \in Nat : k < n => Best(k)}
  <1>1. /\ n \in Nat /\ n - 1 \in Nat /\ n - 1 < n /\ (n - 1) + 1 = n
        /\ \A i \in 1 .. n : zs[i] \in Int
    OBVIOUS
  <1> HIDE DEF n
  <1>2. 0 \in G
    <2>1. ASSUME 0 < n
          PROVE  Best(0)
      <3>1. 1 \in 1 .. n /\ 1 .. 0 + 1 = {1}
        BY <1>1, <2>1
      <3>2. zs[1] \in Int
        BY <1>1, <3>1
      <3> QED
        BY <3>1, <3>2
    <2> HIDE DEF Best
    <2> QED
      BY <2>1
  <1>3. ASSUME NEW k \in Nat, k \in G PROVE k + 1 \in G
    <2>1. ASSUME k + 1 < n PROVE Best(k + 1)
      <3> DEFINE q == k + 2
      <3>1. k < n /\ q \in 1 .. n /\ 1 .. (k + 1) + 1 = (1 .. k + 1) \cup {q}
            /\ 1 .. k + 1 \subseteq 1 .. n
        BY <1>1, <2>1
      <3>2. PICK i \in 1 .. k + 1, j \in 1 .. k + 1 :
              \A h \in 1 .. k + 1 : zs[j] <= zs[h] /\ zs[h] <= zs[i]
        <4>1. Best(k)
          BY <1>3, <3>1
        <4> QED
          BY <4>1
      <3>3. zs[q] \in Int /\ \A h \in 1 .. k + 1 : zs[h] \in Int
        BY <1>1, <3>1
      <3> DEFINE a == IF zs[q] >= zs[i] THEN q ELSE i
                 b == IF zs[q] <= zs[j] THEN q ELSE j
      <3> HIDE DEF q
      <3>4. \A h \in (1 .. k + 1) \cup {q} : zs[b] <= zs[h] /\ zs[h] <= zs[a]
        BY <3>2, <3>3
      <3>5. a \in (1 .. k + 1) \cup {q} /\ b \in (1 .. k + 1) \cup {q}
        OBVIOUS
      <3> HIDE DEF a, b
      <3> QED
        BY <3>1, <3>4, <3>5
    <2> HIDE DEF Best
    <2> QED
      BY <2>1
  <1>4. n - 1 \in G
    <2> HIDE DEF G
    <2> QED
      BY <1>1, <1>2, <1>3, NatSetInduction
  <1>5. PICK i \in 1 .. n, j \in 1 .. n : \A h \in 1 .. n : zs[j] <= zs[h] /\ zs[h] <= zs[i]
    <2>1. Best(n - 1)
      BY <1>1, <1>4
    <2> QED
      BY <1>1, <2>1
  <1>6. zs[i] \in S /\ zs[j] \in S /\ \A y \in S : y \in Int /\ zs[j] <= y /\ y <= zs[i]
    BY <1>1, <1>5 DEF n
  <1>7. Max(S) = zs[i]
    <2>1. zs[i] \in S /\ \A y \in S : zs[i] >= y
      BY <1>1, <1>6
    <2>2. ASSUME NEW z \in S, \A y \in S : z >= y PROVE z = zs[i]
      <3>1. z >= zs[i] /\ zs[i] >= z /\ z \in Int /\ zs[i] \in Int
        BY <1>6, <2>1, <2>2
      <3> DEFINE w == zs[i]
      <3> HIDE DEF w
      <3>2. z = w
        BY <3>1 DEF w
      <3> QED
        BY <3>2 DEF w
    <2> QED
      BY <2>1, <2>2 DEF Max
  <1>8. Min(S) = zs[j]
    <2>1. zs[j] \in S /\ \A y \in S : zs[j] =< y
      BY <1>1, <1>6
    <2>2. ASSUME NEW z \in S, \A y \in S : z =< y PROVE z = zs[j]
      <3>1. z =< zs[j] /\ zs[j] =< z /\ z \in Int /\ zs[j] \in Int
        BY <1>6, <2>1, <2>2
      <3> DEFINE w == zs[j]
      <3> HIDE DEF w
      <3>2. z = w
        BY <3>1 DEF w
      <3> QED
        BY <3>2 DEF w
    <2> QED
      BY <2>1, <2>2 DEF Min
  <1> QED
    BY <1>1, <1>5, <1>7, <1>8 DEF n

\* The total of n times the same number.
LEMMA TotalConstant ==
  ASSUME NEW c \in Int, NEW n \in Nat
  PROVE  /\ [i \in 1 .. n |-> c] \in Seq(Int) /\ Len([i \in 1 .. n |-> c]) = n
         /\ Total([i \in 1 .. n |-> c]) = n * c
  <1> DEFINE f(k) == [i \in 1 .. k |-> c]
             G == {k \in Nat : Total(f(k)) = k * c}
  <1>1. ASSUME NEW k \in Nat
        PROVE  f(k) \in Seq(Int) /\ Len(f(k)) = k /\ \A i \in 1 .. k : f(k)[i] = c
    <2> DEFINE g == f(k)
    <2>1. g = [i \in 1 .. k |-> g[i]] /\ \A i \in 1 .. k : g[i] = c /\ g[i] \in Int
      <3>1. g = [i \in 1 .. k |-> c]
        OBVIOUS
      <3> HIDE DEF g
      <3> QED
        BY <3>1
    <2> HIDE DEF g
    <2>2. g \in Seq(Int) /\ Len(g) = k
      BY <2>1, IsSeries
    <2> QED
      BY <2>1, <2>2 DEF g
  <1> HIDE DEF f
  <1>2. 0 \in G
    <2>1. Total(f(0)) = 0
      BY <1>1, TotalEmpty
    <2> QED
      BY <2>1
  <1>3. ASSUME NEW k \in Nat, k \in G PROVE k + 1 \in G
    <2>1. k + 1 \in Nat /\ k + 1 \in 1 .. k + 1 /\ \A i \in 1 .. k : i \in 1 .. k + 1
      OBVIOUS
    <2>2. /\ f(k) \in Seq(Int) /\ Len(f(k)) = k /\ \A i \in 1 .. k : f(k)[i] = c
          /\ f(k + 1) \in Seq(Int) /\ Len(f(k + 1)) = k + 1
          /\ \A i \in 1 .. k + 1 : f(k + 1)[i] = c
      BY <1>1, <2>1
    <2>3. Total(f(k + 1)) = Total(f(k)) + f(k + 1)[Len(f(k + 1))]
      <3>1. Len(f(k + 1)) = Len(f(k)) + 1 /\ \A i \in 1 .. Len(f(k)) : f(k + 1)[i] = f(k)[i]
        BY <2>1, <2>2
      <3> QED
        BY <2>2, <3>1, TotalExtended
    <2>4. Total(f(k)) = k * c /\ f(k + 1)[Len(f(k + 1))] = c
      BY <1>3, <2>1, <2>2
    <2>5. k * c + c = (k + 1) * c
      OBVIOUS
    <2>6. Total(f(k + 1)) = (k + 1) * c
      BY <2>3, <2>4, <2>5
    <2> QED
      BY <2>1, <2>6
  <1>4. n \in G
    <2> HIDE DEF G
    <2> QED
      BY <1>2, <1>3, NatSetInduction
  <1> QED
    BY <1>1, <1>4 DEF f

\* The averages of RSI and ATR are in the order of their values, ...
LEMMA WilderMonotone ==
  ASSUME NEW xs \in Seq(Int), NEW ys \in Seq(Int), NEW p \in Nat \ {0},
         Len(xs) >= p, Len(ys) = Len(xs), \A i \in 1 .. Len(xs) : xs[i] <= ys[i]
  PROVE  Wilder(xs, p) <= Wilder(ys, p)
  <1> DEFINE n == Len(xs)
             f == SubSeq(xs, 1, p)
             g == SubSeq(ys, 1, p)
             r == SubSeq(xs, p + 1, n)
             s == SubSeq(ys, p + 1, n)
  <1>1. /\ n \in Nat /\ p \in 0 .. n /\ p - 1 \in Nat /\ 1 \in Nat \ {0}
        /\ \A i \in 1 .. p : i \in 1 .. n
        /\ \A i \in 1 .. n - p : p + i \in 1 .. n
    OBVIOUS
  <1>2. /\ f \in Seq(Int) /\ Len(f) = p /\ \A i \in 1 .. p : f[i] = xs[i]
        /\ r \in Seq(Int) /\ Len(r) = n - p /\ \A i \in 1 .. n - p : r[i] = xs[p + i]
    BY <1>1, Parts
  <1>3. /\ g \in Seq(Int) /\ Len(g) = p /\ \A i \in 1 .. p : g[i] = ys[i]
        /\ s \in Seq(Int) /\ Len(s) = n - p /\ \A i \in 1 .. n - p : s[i] = ys[p + i]
    BY <1>1, Parts
  <1>4. Wilder(xs, p) = Smoothed(r, Total(f) \div p, p - 1, 1)
        /\ Wilder(ys, p) = Smoothed(s, Total(g) \div p, p - 1, 1)
    BY DEF Wilder
  <1> HIDE DEF n, f, g, r, s
  <1>5. Total(f) \in Int /\ Total(g) \in Int /\ Total(f) <= Total(g)
    <2>1. \A i \in 1 .. Len(f) : f[i] <= g[i]
      BY <1>1, <1>2, <1>3 DEF n
    <2>2. Len(g) = Len(f)
      BY <1>2, <1>3
    <2> QED
      BY <1>2, <1>3, <2>1, <2>2, TotalType, TotalMonotone
  <1>6. Total(f) \div p \in Int /\ Total(g) \div p \in Int /\ Total(f) \div p <= Total(g) \div p
    BY <1>5, Division
  <1>7. \A i \in 1 .. Len(r) : r[i] <= s[i]
    BY <1>1, <1>2, <1>3 DEF n
  <1>8. Len(s) = Len(r)
    BY <1>2, <1>3
  <1> DEFINE a == Total(f) \div p
             b == Total(g) \div p
             o == p - 1
  <1>9. a \in Int /\ b \in Int /\ a <= b /\ o \in Nat
    BY <1>1, <1>6
  <1>10. Wilder(xs, p) = Smoothed(r, a, o, 1) /\ Wilder(ys, p) = Smoothed(s, b, o, 1)
    BY <1>4
  <1> HIDE DEF a, b, o
  <1>11. Smoothed(r, a, o, 1) <= Smoothed(s, b, o, 1)
    BY <1>1, <1>2, <1>3, <1>7, <1>8, <1>9, SmoothedMonotone
  <1> QED
    BY <1>10, <1>11

\* ... and of equal values that value.
LEMMA WilderConstant ==
  ASSUME NEW c \in Int, NEW n \in Nat, NEW p \in Nat \ {0}, n >= p
  PROVE  Wilder([i \in 1 .. n |-> c], p) = c
  <1> DEFINE xs == [i \in 1 .. n |-> c]
             f == SubSeq(xs, 1, p)
             r == SubSeq(xs, p + 1, n)
  <1>1. xs \in Seq(Int) /\ Len(xs) = n /\ \A i \in 1 .. n : xs[i] = c
    BY TotalConstant
  <1>2. /\ p \in 0 .. n /\ p - 1 \in Nat /\ 1 \in Nat \ {0}
        /\ \A i \in 1 .. p : i \in 1 .. n
        /\ \A i \in 1 .. n - p : p + i \in 1 .. n
    OBVIOUS
  <1> HIDE DEF xs
  <1>3. /\ f \in Seq(Int) /\ Len(f) = p /\ \A i \in 1 .. p : f[i] = c
        /\ r \in Seq(Int) /\ Len(r) = n - p /\ \A i \in 1 .. n - p : r[i] = c
    <2>1. /\ f \in Seq(Int) /\ Len(f) = p /\ \A i \in 1 .. p : f[i] = xs[i]
          /\ r \in Seq(Int) /\ Len(r) = n - p /\ \A i \in 1 .. n - p : r[i] = xs[p + i]
      BY <1>1, <1>2, Parts
    <2> QED
      BY <1>1, <1>2, <2>1
  <1>4. Wilder(xs, p) = Smoothed(r, Total(f) \div p, p - 1, 1)
    BY <1>1 DEF Wilder
  <1> HIDE DEF f, r
  <1>5. Total(f) \div p = c
    <2>1. f = [i \in 1 .. p |-> c]
      <3>1. f = [i \in 1 .. p |-> f[i]]
        BY <1>3
      <3> QED
        BY <1>3, <3>1
    <2>2. Total(f) = p * c
      BY <2>1, TotalConstant
    <2> QED
      BY <2>2, Division
  <1>6. Smoothed(r, c, p - 1, 1) = c
    <2> DEFINE o == p - 1
    <2>1. o \in Nat
      BY <1>2
    <2> HIDE DEF o
    <2>2. Smoothed(r, c, o, 1) = c
      <3>1. \A i \in 1 .. Len(r) : r[i] = c
        BY <1>3
      <3> QED
        BY <1>2, <1>3, <2>1, <3>1, SmoothedConstant
    <2> QED
      BY <2>2 DEF o
  <1> QED
    BY <1>4, <1>5, <1>6 DEF xs

\* Candles at factor times the prices.
LEMMA ScaledBars ==
  ASSUME NEW cs \in Seq(Candles), NEW f \in Nat
  PROVE  /\ ScaledCandles(cs, f) \in Seq(Bars) /\ Len(ScaledCandles(cs, f)) = Len(cs)
         /\ \A i \in 1 .. Len(cs) :
              /\ ScaledCandles(cs, f)[i] \in Bars
              /\ ScaledCandles(cs, f)[i].close = f * cs[i].close
  <1> DEFINE n == Len(cs)
             ss == ScaledCandles(cs, f)
  <1>1. n \in Nat /\ \A i \in 1 .. n : cs[i] \in Candles
    OBVIOUS
  <1>2. ss = [i \in 1 .. n |-> [high |-> f * cs[i].high, low |-> f * cs[i].low,
                               close |-> f * cs[i].close, volume |-> cs[i].volume]]
    BY DEF ScaledCandles, Mapped
  <1> HIDE DEF ss, n
  <1>3. ASSUME NEW i \in 1 .. n PROVE ss[i] \in Bars /\ ss[i].close = f * cs[i].close
    <2> DEFINE h == cs[i].high
               l == cs[i].low
               m == cs[i].close
               v == cs[i].volume
    <2>1. h \in Nat /\ l \in Nat /\ m \in Nat /\ v \in Nat /\ l <= m /\ m <= h
      <3>1. cs[i] \in Candles
        BY <1>1
      <3> QED
        BY <3>1, IndicatorsAssumption
    <2>2. ss[i] = [high |-> f * h, low |-> f * l, close |-> f * m, volume |-> v]
      BY <1>2
    <2> HIDE DEF h, l, m, v
    <2>3. /\ f * h \in Int /\ f * l \in Int /\ f * m \in Int
          /\ f * l <= f * m /\ f * m <= f * h
      <3>1. \A x, y \in Nat : x <= y => f * x <= f * y
        <4> SUFFICES ASSUME NEW x \in Nat, NEW y \in Nat, x <= y PROVE f * x <= f * y
          OBVIOUS
        <4>1. y - x \in Nat /\ f * (y - x) >= 0 /\ f * (y - x) = f * y - f * x
          OBVIOUS
        <4>2. f * y \in Int /\ f * x \in Int
          OBVIOUS
        <4> QED
          BY <4>1, <4>2
      <3> QED
        BY <2>1, <3>1
    <2>4. ss[i] \in Bars
      <3> DEFINE a == f * h
                 b == f * l
                 d == f * m
      <3>1. /\ ss[i] = [high |-> a, low |-> b, close |-> d, volume |-> v]
            /\ a \in Int /\ b \in Int /\ d \in Int /\ v \in Nat /\ b <= d /\ d <= a
        BY <2>1, <2>2, <2>3
      <3> HIDE DEF a, b, d
      <3> QED
        BY <3>1 DEF Bars
    <2>5. ss[i].close = f * m
      BY <2>2
    <2> QED
      BY <2>4, <2>5 DEF m
  <1>4. ss \in Seq(Bars) /\ Len(ss) = n
    <2>1. ss = [i \in 1 .. n |-> ss[i]]
      BY <1>2
    <2> QED
      BY <1>1, <1>3, <2>1, IsSeries
  <1> QED
    BY <1>3, <1>4 DEF ss, n

\* The spread of all prices.
Highest(ss) == Max({c.high : c \in ToSet(ss)})
Lowest(ss) == Min({c.low : c \in ToSet(ss)})

\* Every price of every candle is within it.
LEMMA Spread ==
  ASSUME NEW ss \in Seq(Bars), Len(ss) > 0
  PROVE  /\ Highest(ss) \in Int /\ Lowest(ss) \in Int
         /\ \A i \in 1 .. Len(ss) :
              \A x \in {ss[i].high, ss[i].low, ss[i].close} : Lowest(ss) <= x /\ x <= Highest(ss)
  <1> DEFINE n == Len(ss)
             hs == [i \in 1 .. n |-> ss[i].high]
             ls == [i \in 1 .. n |-> ss[i].low]
             H == {c.high : c \in ToSet(ss)}
             L == {c.low : c \in ToSet(ss)}
  <1>1. /\ n \in Nat /\ n > 0
        /\ \A i \in 1 .. n : /\ ss[i].high \in Int /\ ss[i].low \in Int /\ ss[i].close \in Int
                             /\ ss[i].low <= ss[i].close /\ ss[i].close <= ss[i].high
    BY DEF Bars
  <1>2. H = {ss[i].high : i \in 1 .. n} /\ L = {ss[i].low : i \in 1 .. n}
    BY DEF ToSet
  <1>3. \A i \in 1 .. n : hs[i] = ss[i].high /\ ls[i] = ss[i].low
    OBVIOUS
  <1>4. hs = [i \in 1 .. n |-> hs[i]] /\ ls = [i \in 1 .. n |-> ls[i]]
    OBVIOUS
  <1> HIDE DEF hs, ls, n, H, L
  <1>5. hs \in Seq(Int) /\ Len(hs) = n
    <2>1. \A i \in 1 .. n : hs[i] \in Int
      BY <1>1, <1>3
    <2> QED
      BY <1>1, <1>4, <2>1, IsSeries
  <1>6. ls \in Seq(Int) /\ Len(ls) = n
    <2>1. \A i \in 1 .. n : ls[i] \in Int
      BY <1>1, <1>3
    <2> QED
      BY <1>1, <1>4, <2>1, IsSeries
  <1>7. Max(H) \in Int /\ \A i \in 1 .. n : hs[i] <= Max(H)
    <2>1. H = {hs[i] : i \in 1 .. Len(hs)} /\ Len(hs) > 0
      BY <1>1, <1>2, <1>3, <1>5
    <2> QED
      BY <1>5, <2>1, Extremes
  <1>8. Min(L) \in Int /\ \A i \in 1 .. n : Min(L) <= ls[i]
    <2>1. L = {ls[i] : i \in 1 .. Len(ls)} /\ Len(ls) > 0
      BY <1>1, <1>2, <1>3, <1>6
    <2> QED
      BY <1>6, <2>1, Extremes
  <1>9. Highest(ss) = Max(H) /\ Lowest(ss) = Min(L)
    BY DEF Highest, Lowest, H, L
  <1>10. ASSUME NEW i \in 1 .. n
         PROVE  \A x \in {ss[i].high, ss[i].low, ss[i].close} :
                  Lowest(ss) <= x /\ x <= Highest(ss)
    <2> DEFINE a == Lowest(ss)
               b == Highest(ss)
               h == ss[i].high
               l == ss[i].low
               m == ss[i].close
    <2>1. /\ a \in Int /\ b \in Int /\ h \in Int /\ l \in Int /\ m \in Int
          /\ a <= l /\ l <= m /\ m <= h /\ h <= b
      BY <1>1, <1>3, <1>7, <1>8, <1>9
    <2> HIDE DEF a, b, h, l, m
    <2>2. \A x \in {h, l, m} : a <= x /\ x <= b
      BY <2>1
    <2> QED
      BY <2>2 DEF a, b, h, l, m
  <1> QED
    BY <1>7, <1>8, <1>9, <1>10 DEF n

\* The ATR lies between the same average of the moves and the spread.
LEMMA AtrWithin ==
  ASSUME NEW ss \in Seq(Bars), NEW ms \in Seq(Int), NEW p \in Nat \ {0}, Len(ss) > p,
         Len(ms) = Len(ss) - 1,
         \A i \in 1 .. Len(ss) - 1 : ms[i] = Abs(ss[i + 1].close - ss[i].close)
  PROVE  /\ Wilder(ms, p) <= Atr(ss, p)
         /\ Atr(ss, p) <= Highest(ss) - Lowest(ss)
  <1> DEFINE n == Len(ss) - 1
             rs == TrueRanges(ss)
             hi == Highest(ss)
             lo == Lowest(ss)
             d == hi - lo
             ds == [i \in 1 .. n |-> d]
  <1>1. /\ n \in Nat /\ n >= p /\ Len(ss) > 0
        /\ \A i \in 1 .. n : i \in 1 .. Len(ss) /\ i + 1 \in 1 .. Len(ss)
    OBVIOUS
  <1>2. rs \in Seq(Int) /\ Len(rs) = n /\ \A i \in 1 .. n : rs[i] = TrueRange(ss[i + 1], ss[i])
    BY <1>1, TrueRangesType
  <1>3. hi \in Int /\ lo \in Int /\ d \in Int
    BY <1>1, Spread
  <1>4. ASSUME NEW i \in 1 .. n PROVE ms[i] <= rs[i] /\ rs[i] <= d
    <2> DEFINE c == ss[i + 1]
               b == ss[i]
    <2>1. /\ c \in [high : Int, low : Int, close : Int, volume : Nat] /\ c.low <= c.close
          /\ c.close <= c.high /\ b \in [high : Int, low : Int, close : Int, volume : Nat]
      <3>1. c \in Bars /\ b \in Bars
        BY <1>1
      <3> QED
        BY <3>1 DEF Bars
    <2>2. \A x \in {c.high, c.low, b.close} : lo <= x /\ x <= hi
      <3>1. /\ \A x \in {ss[i].high, ss[i].low, ss[i].close} : lo <= x /\ x <= hi
            /\ \A x \in {ss[i + 1].high, ss[i + 1].low, ss[i + 1].close} : lo <= x /\ x <= hi
        BY <1>1, Spread
      <3> QED
        BY <3>1
    <2>3. ms[i] = Abs(c.close - b.close) /\ rs[i] = TrueRange(c, b)
      BY <1>2
    <2> HIDE DEF c, b, hi, lo
    <2>4. Abs(c.close - b.close) <= TrueRange(c, b)
      BY <2>1, TrueRangeFacts
    <2>5. TrueRange(c, b) <= hi - lo
      BY <1>3, <2>1, <2>2, TrueRangeFacts
    <2> QED
      BY <2>3, <2>4, <2>5
  <1>5. Atr(ss, p) = Wilder(rs, p)
    BY <1>1, AtrKnown
  <1> HIDE DEF rs, d
  <1>6. Wilder(ms, p) <= Wilder(rs, p)
    <2>1. Len(ms) >= p /\ Len(rs) = Len(ms) /\ \A i \in 1 .. Len(ms) : ms[i] <= rs[i]
      BY <1>1, <1>2, <1>4
    <2> QED
      BY <1>2, <2>1, WilderMonotone
  <1>7. Wilder(rs, p) <= d
    <2>1. ds \in Seq(Int) /\ Len(ds) = n /\ \A i \in 1 .. n : ds[i] = d
      BY <1>1, <1>3, TotalConstant
    <2>2. Wilder(ds, p) = d
      BY <1>1, <1>3, WilderConstant
    <2> HIDE DEF ds
    <2>3. Len(rs) >= p /\ Len(ds) = Len(rs) /\ \A i \in 1 .. Len(rs) : rs[i] <= ds[i]
      BY <1>1, <1>2, <1>4, <2>1
    <2>4. Wilder(rs, p) <= Wilder(ds, p)
      BY <1>2, <2>1, <2>3, WilderMonotone
    <2> QED
      BY <2>2, <2>4
  <1> QED
    BY <1>5, <1>6, <1>7 DEF d

\* The VWAP lies within the spread, too.
LEMMA VwapWithin ==
  ASSUME NEW ss \in Seq(Bars), Len(ss) > 0, Vwap(ss) # Missing
  PROVE  /\ Lowest(ss) * Vwap(ss)[2] <= Vwap(ss)[1]
         /\ Vwap(ss)[1] <= Highest(ss) * Vwap(ss)[2]
  <1> DEFINE n == Len(ss)
             vs == Mapped(LAMBDA c : c.volume, ss)
             ws == Mapped(LAMBDA c : (c.high + c.low + c.close) * c.volume, ss)
             hi == Highest(ss)
             lo == Lowest(ss)
  <1>1. n \in Nat /\ n > 0 /\ hi \in Int /\ lo \in Int
    BY Spread
  <1>2. ASSUME NEW i \in 1 .. n
        PROVE  /\ vs[i] = ss[i].volume /\ vs[i] \in Nat
               /\ ws[i] = (ss[i].high + ss[i].low + ss[i].close) * ss[i].volume /\ ws[i] \in Int
               /\ (3 * lo) * vs[i] <= ws[i] /\ ws[i] <= (3 * hi) * vs[i]
    <2> DEFINE h == ss[i].high
               l == ss[i].low
               m == ss[i].close
               v == ss[i].volume
    <2>1. ss[i] \in Bars /\ h \in Int /\ l \in Int /\ m \in Int /\ v \in Nat
      BY DEF Bars
    <2>2. \A x \in {h, l, m} : lo <= x /\ x <= hi
      BY Spread
    <2>3. vs[i] = v /\ ws[i] = (h + l + m) * v
      BY DEF Mapped
    <2> DEFINE t == h + l + m
               a == 3 * lo
               b == 3 * hi
    <2>4. t \in Int /\ a \in Int /\ b \in Int /\ a <= t /\ t <= b
      <3> HIDE DEF h, l, m, lo, hi
      <3> QED
        BY <1>1, <2>1, <2>2
    <2> HIDE DEF h, l, m, v, t, a, b, vs, ws
    <2>5. t * v \in Int /\ a * v <= t * v /\ t * v <= b * v
      <3>1. \A x, y \in Int : x <= y => x * v <= y * v
        <4> SUFFICES ASSUME NEW x \in Int, NEW y \in Int, x <= y PROVE x * v <= y * v
          OBVIOUS
        <4>1. y - x \in Nat /\ v * (y - x) >= 0 /\ v * (y - x) = y * v - x * v
          BY <2>1
        <4>2. y * v \in Int /\ x * v \in Int
          BY <2>1
        <4> QED
          BY <4>1, <4>2
      <3> QED
        BY <2>1, <2>4, <3>1
    <2>6. vs[i] = v /\ vs[i] \in Nat /\ ws[i] = t * v
      BY <2>1, <2>3 DEF t
    <2> QED
      BY <2>5, <2>6 DEF h, l, m, v, t, a, b
  <1>3. vs = [i \in 1 .. n |-> vs[i]] /\ ws = [i \in 1 .. n |-> ws[i]]
    BY DEF Mapped
  <1>4. /\ Vwap(ss)[1] = Total(ws)
        /\ Vwap(ss)[2] = 3 * Total(vs)
    <2>1. Vwap(ss) = IF Total(vs) = 0 THEN Missing ELSE <<Total(ws), 3 * Total(vs)>>
      BY DEF Vwap, Mapped
    <2> HIDE DEF vs, ws
    <2> QED
      BY <2>1
  <1> HIDE DEF vs, ws, hi, lo, n
  <1>5. vs \in Seq(Int) /\ Len(vs) = n
    <2>1. \A i \in 1 .. n : vs[i] \in Int
      BY <1>2
    <2> QED
      BY <1>1, <1>3, <2>1, IsSeries
  <1>6. ws \in Seq(Int) /\ Len(ws) = n
    <2>1. \A i \in 1 .. n : ws[i] \in Int
      BY <1>2
    <2> QED
      BY <1>1, <1>3, <2>1, IsSeries
  <1>7. ASSUME NEW q \in Int
        PROVE  /\ Scaled(vs, q) \in Seq(Int) /\ Len(Scaled(vs, q)) = n
               /\ \A i \in 1 .. n : Scaled(vs, q)[i] = q * vs[i]
               /\ Total(Scaled(vs, q)) = q * Total(vs)
    <2>1. /\ Scaled(vs, q) \in Seq(Int) /\ Len(Scaled(vs, q)) = Len(vs)
          /\ \A i \in 1 .. Len(vs) : Scaled(vs, q)[i] = q * vs[i]
      BY <1>5, ScaledType
    <2>2. Total(Scaled(vs, q)) = q * Total(vs)
      BY <1>5, <2>1, TotalScaled
    <2> QED
      BY <1>5, <2>1, <2>2
  <1> DEFINE a == 3 * lo
             b == 3 * hi
  <1>8. a \in Int /\ b \in Int /\ \A i \in 1 .. n : a * vs[i] <= ws[i] /\ ws[i] <= b * vs[i]
    BY <1>1, <1>2
  <1> HIDE DEF a, b
  <1>9. a * Total(vs) <= Total(ws)
    <2> DEFINE zs == Scaled(vs, a)
    <2>1. /\ zs \in Seq(Int) /\ Len(zs) = n /\ \A i \in 1 .. n : zs[i] = a * vs[i]
          /\ Total(zs) = a * Total(vs)
      BY <1>7, <1>8
    <2> HIDE DEF zs
    <2>2. Len(ws) = Len(zs) /\ \A i \in 1 .. Len(zs) : zs[i] <= ws[i]
      BY <1>6, <1>8, <2>1
    <2>3. Total(zs) <= Total(ws)
      BY <1>6, <2>1, <2>2, TotalMonotone
    <2> QED
      BY <2>1, <2>3
  <1>10. Total(ws) <= b * Total(vs)
    <2> DEFINE zs == Scaled(vs, b)
    <2>1. /\ zs \in Seq(Int) /\ Len(zs) = n /\ \A i \in 1 .. n : zs[i] = b * vs[i]
          /\ Total(zs) = b * Total(vs)
      BY <1>7, <1>8
    <2> HIDE DEF zs
    <2>2. Len(zs) = Len(ws) /\ \A i \in 1 .. Len(ws) : ws[i] <= zs[i]
      BY <1>6, <1>8, <2>1
    <2>3. Total(ws) <= Total(zs)
      BY <1>6, <2>1, <2>2, TotalMonotone
    <2> QED
      BY <2>1, <2>3
  <1>11. \A x \in Int : (3 * lo) * x = lo * (3 * x) /\ (3 * hi) * x = hi * (3 * x)
    BY <1>1
  <1>12. Total(vs) \in Int
    BY <1>5, TotalType
  <1> DEFINE x == Total(vs)
             y == Total(ws)
  <1>13. a * x = lo * (3 * x) /\ b * x = hi * (3 * x)
    BY <1>11, <1>12 DEF a, b
  <1> HIDE DEF x, y
  <1>14. lo * (3 * x) <= y /\ y <= hi * (3 * x)
    BY <1>9, <1>10, <1>13 DEF x, y
  <1> QED
    BY <1>4, <1>14 DEF lo, hi, x, y

\* The ATR covers the moves from close to close and, with the VWAP, stays within
\* the spread of the prices (atr, vwap).
THEOREM RangesCover == SeriesSpec => []RangesCoverMoves
  <1>1. ASSUME SeriesTypeOK PROVE RangesCoverMoves
    <2> SUFFICES ASSUME NEW period \in Periods, candles # <<>>
                 PROVE  LET factor == Power(period, Len(candles))
                            scaled == ScaledCandles(candles, factor)
                            atr == Atr(scaled, period)
                            high == Max({c.high : c \in ToSet(scaled)})
                            low == Min({c.low : c \in ToSet(scaled)})
                            moves == Mapped(Abs, Moves(Scaled(Closes, factor)))
                            vwap == Vwap(scaled)
                        IN  /\ atr # Missing => Wilder(moves, period) <= atr /\ atr <= high - low
                            /\ vwap # Missing =>
                                 low * vwap[2] <= vwap[1] /\ vwap[1] <= high * vwap[2]
      BY DEF RangesCoverMoves
    <2> DEFINE f == Power(period, Len(candles))
               ss == ScaledCandles(candles, f)
               zs == Scaled(Closes, f)
               ms == Mapped(Abs, Moves(zs))
               n == Len(candles)
    <2>1. /\ candles \in Seq(Candles) /\ n \in Nat /\ n > 0 /\ n - 1 \in Nat
          /\ period \in Nat \ {0} /\ period \in Int
      BY <1>1, IndicatorsAssumption DEF SeriesTypeOK
    <2>2. f \in Nat /\ f \in Int
      BY <2>1, PowerPositive
    <2> HIDE DEF f
    <2>3. /\ ss \in Seq(Bars) /\ Len(ss) = n
          /\ \A i \in 1 .. n : ss[i] \in Bars /\ ss[i].close = f * candles[i].close
      BY <2>1, <2>2, ScaledBars
    <2>4. Closes \in Seq(Int) /\ Len(Closes) = n /\ \A i \in 1 .. n : Closes[i] = candles[i].close
      BY <2>1, ClosesType DEF Closes
    <2>5. zs \in Seq(Int) /\ Len(zs) = n /\ \A i \in 1 .. n : zs[i] = f * Closes[i]
      BY <2>2, <2>4, ScaledType
    <2> HIDE DEF ss, zs
    <2>6. /\ Moves(zs) \in Seq(Int) /\ Len(Moves(zs)) = n - 1
          /\ \A i \in 1 .. n - 1 : Moves(zs)[i] = zs[i + 1] - zs[i] /\ Moves(zs)[i] \in Int
      BY <2>1, <2>5, MovesType
    <2>7. /\ ms \in Seq(Int) /\ Len(ms) = n - 1
          /\ \A i \in 1 .. n - 1 : ms[i] = Abs(ss[i + 1].close - ss[i].close)
      <3>1. ms = [i \in 1 .. n - 1 |-> Abs(Moves(zs)[i])]
        BY <2>1, <2>6 DEF Mapped
      <3>2. ASSUME NEW d \in Int PROVE Abs(d) \in Int
        <4>1. Abs(d) = IF d >= 0 THEN d ELSE -d
          BY MaxFacts
        <4> QED
          BY <4>1
      <3> HIDE DEF ms
      <3>3. \A i \in 1 .. n - 1 : ms[i] = Abs(Moves(zs)[i]) /\ ms[i] \in Int
        BY <2>6, <3>1, <3>2
      <3>4. ms = [i \in 1 .. n - 1 |-> ms[i]]
        BY <3>1
      <3>5. ms \in Seq(Int) /\ Len(ms) = n - 1
        BY <2>1, <3>3, <3>4, IsSeries
      <3>6. ASSUME NEW i \in 1 .. n - 1
            PROVE  Moves(zs)[i] = ss[i + 1].close - ss[i].close
        <4>1. i \in 1 .. n /\ i + 1 \in 1 .. n
          BY <2>1
        <4> QED
          BY <2>3, <2>4, <2>5, <2>6, <4>1
      <3> QED
        BY <3>3, <3>5, <3>6
    <2> HIDE DEF ms, n
    <2>8. ASSUME Atr(ss, period) # Missing
          PROVE  /\ Wilder(ms, period) <= Atr(ss, period)
                 /\ Atr(ss, period) <= Highest(ss) - Lowest(ss)
      <3>1. Len(ss) > period
        BY <2>1, <2>3, <2>8, AtrKnown
      <3> QED
        BY <2>1, <2>3, <2>7, <3>1, AtrWithin
    <2>9. ASSUME Vwap(ss) # Missing
          PROVE  /\ Lowest(ss) * Vwap(ss)[2] <= Vwap(ss)[1]
                 /\ Vwap(ss)[1] <= Highest(ss) * Vwap(ss)[2]
      <3>1. Len(ss) > 0
        BY <2>1, <2>3
      <3> QED
        BY <2>3, <2>9, <3>1, VwapWithin
    <2> QED
      BY <2>8, <2>9 DEF Highest, Lowest, f, ss, zs, ms
  <1> QED
    BY <1>1, SeriesTypeCorrect, PTL

-----------------------------------------------------------------------------
(* The momentum indicators.                                                *)

\* The market at another level, and upside down.
LEMMA ShiftedType ==
  ASSUME NEW xs \in Seq(Int), NEW c \in Int
  PROVE  /\ Shifted(xs, c) \in Seq(Int) /\ Len(Shifted(xs, c)) = Len(xs)
         /\ \A i \in 1 .. Len(xs) : Shifted(xs, c)[i] = xs[i] + c
         /\ Mirrored(xs) \in Seq(Int) /\ Len(Mirrored(xs)) = Len(xs)
         /\ \A i \in 1 .. Len(xs) : Mirrored(xs)[i] = -xs[i]
  <1> DEFINE n == Len(xs)
             us == Shifted(xs, c)
             vs == Mirrored(xs)
  <1>1. n \in Nat /\ \A i \in 1 .. n : xs[i] + c \in Int /\ -xs[i] \in Int
    OBVIOUS
  <1>2. us = [i \in 1 .. n |-> xs[i] + c] /\ vs = [i \in 1 .. n |-> -xs[i]]
    BY DEF Shifted, Mirrored, Mapped
  <1> HIDE DEF us, vs, n
  <1>3. \A i \in 1 .. n : us[i] = xs[i] + c /\ us[i] \in Int /\ vs[i] = -xs[i] /\ vs[i] \in Int
    BY <1>1, <1>2
  <1>4. us = [i \in 1 .. n |-> us[i]] /\ vs = [i \in 1 .. n |-> vs[i]]
    BY <1>2
  <1>5. us \in Seq(Int) /\ Len(us) = n
    BY <1>1, <1>3, <1>4, IsSeries
  <1>6. vs \in Seq(Int) /\ Len(vs) = n
    BY <1>1, <1>3, <1>4, IsSeries
  <1> QED
    BY <1>3, <1>5, <1>6 DEF us, vs, n

\* Two series of the same numbers are the same.
LEMMA SameSeries ==
  ASSUME NEW xs \in Seq(Int), NEW ys \in Seq(Int), Len(ys) = Len(xs),
         \A i \in 1 .. Len(xs) : ys[i] = xs[i]
  PROVE  ys = xs
  OBVIOUS

\* Moves do not change with the level; upside down, gains are losses.
LEMMA MovesMirrored ==
  ASSUME NEW xs \in Seq(Int), NEW c \in Int, Len(xs) > 0
  PROVE  /\ Gains(Shifted(xs, c)) = Gains(xs) /\ Losses(Shifted(xs, c)) = Losses(xs)
         /\ Gains(Mirrored(xs)) = Losses(xs) /\ Losses(Mirrored(xs)) = Gains(xs)
  <1> DEFINE n == Len(xs)
             us == Shifted(xs, c)
             vs == Mirrored(xs)
  <1>1. n \in Nat /\ n > 0 /\ \A i \in 1 .. n - 1 : i \in 1 .. n /\ i + 1 \in 1 .. n
    OBVIOUS
  <1>2. /\ us \in Seq(Int) /\ Len(us) = n /\ \A i \in 1 .. n : us[i] = xs[i] + c
        /\ vs \in Seq(Int) /\ Len(vs) = n /\ \A i \in 1 .. n : vs[i] = -xs[i]
    BY ShiftedType
  <1> HIDE DEF us, vs, n
  <1>3. /\ Len(Moves(xs)) = n - 1 /\ \A i \in 1 .. n - 1 : Moves(xs)[i] = xs[i + 1] - xs[i]
        /\ Gains(xs) \in Seq(Int) /\ Len(Gains(xs)) = n - 1
        /\ Losses(xs) \in Seq(Int) /\ Len(Losses(xs)) = n - 1
        /\ \A i \in 1 .. n - 1 :
             /\ Gains(xs)[i] = IF Moves(xs)[i] >= 0 THEN Moves(xs)[i] ELSE 0
             /\ Losses(xs)[i] = IF Moves(xs)[i] >= 0 THEN 0 ELSE -Moves(xs)[i]
    BY <1>1, MovesType DEF n
  <1>4. /\ \A i \in 1 .. n - 1 : Moves(us)[i] = us[i + 1] - us[i]
        /\ Gains(us) \in Seq(Int) /\ Len(Gains(us)) = n - 1
        /\ Losses(us) \in Seq(Int) /\ Len(Losses(us)) = n - 1
        /\ \A i \in 1 .. n - 1 :
             /\ Gains(us)[i] = IF Moves(us)[i] >= 0 THEN Moves(us)[i] ELSE 0
             /\ Losses(us)[i] = IF Moves(us)[i] >= 0 THEN 0 ELSE -Moves(us)[i]
    BY <1>1, <1>2, MovesType
  <1>5. /\ \A i \in 1 .. n - 1 : Moves(vs)[i] = vs[i + 1] - vs[i]
        /\ Gains(vs) \in Seq(Int) /\ Len(Gains(vs)) = n - 1
        /\ Losses(vs) \in Seq(Int) /\ Len(Losses(vs)) = n - 1
        /\ \A i \in 1 .. n - 1 :
             /\ Gains(vs)[i] = IF Moves(vs)[i] >= 0 THEN Moves(vs)[i] ELSE 0
             /\ Losses(vs)[i] = IF Moves(vs)[i] >= 0 THEN 0 ELSE -Moves(vs)[i]
    BY <1>1, <1>2, MovesType
  <1>6. ASSUME NEW i \in 1 .. n - 1
        PROVE  /\ Gains(us)[i] = Gains(xs)[i] /\ Losses(us)[i] = Losses(xs)[i]
               /\ Gains(vs)[i] = Losses(xs)[i] /\ Losses(vs)[i] = Gains(xs)[i]
    <2> DEFINE a == xs[i]
               b == xs[i + 1]
               x == Moves(xs)[i]
               u == Moves(us)[i]
               v == Moves(vs)[i]
    <2>1. a \in Int /\ b \in Int
      BY <1>1 DEF n
    <2>2. x = b - a /\ u = (b + c) - (a + c) /\ v = (-b) - (-a)
      BY <1>1, <1>2, <1>3, <1>4, <1>5
    <2> HIDE DEF a, b, x, u, v
    <2>3. x \in Int /\ u = x /\ v = -x
      BY <2>1, <2>2
    <2>4. /\ Gains(xs)[i] = (IF x >= 0 THEN x ELSE 0) /\ Losses(xs)[i] = (IF x >= 0 THEN 0 ELSE -x)
          /\ Gains(us)[i] = (IF u >= 0 THEN u ELSE 0) /\ Losses(us)[i] = (IF u >= 0 THEN 0 ELSE -u)
          /\ Gains(vs)[i] = (IF v >= 0 THEN v ELSE 0) /\ Losses(vs)[i] = (IF v >= 0 THEN 0 ELSE -v)
      BY <1>3, <1>4, <1>5 DEF x, u, v
    <2> QED
      BY <2>3, <2>4
  <1>7. Gains(us) = Gains(xs)
    BY <1>3, <1>4, <1>6, SameSeries
  <1>8. Losses(us) = Losses(xs)
    BY <1>3, <1>4, <1>6, SameSeries
  <1>9. Gains(vs) = Losses(xs)
    BY <1>3, <1>5, <1>6, SameSeries
  <1>10. Losses(vs) = Gains(xs)
    BY <1>3, <1>5, <1>6, SameSeries
  <1> QED
    BY <1>7, <1>8, <1>9, <1>10 DEF us, vs

\* A weighted sum of natural numbers is positive when one of them is.
LEMMA WeightedPositive ==
  ASSUME NEW ts \in Seq(Int), NEW base \in Nat, NEW old \in Nat \ {0}, NEW new \in Nat \ {0},
         \A i \in 1 .. Len(ts) : ts[i] >= 0
  PROVE  /\ Weighted(ts, base, old, new) \in Nat
         /\ Weighted(ts, base, old, new) > 0 <=> base > 0 \/ \E i \in 1 .. Len(ts) : ts[i] > 0
  <1> DEFINE k == Len(ts)
             weight(i) == Power(old, k - i) * new * Power(old + new, i - 1)
             vs == [i \in DOMAIN ts |-> Power(old, k - i) * new * Power(old + new, i - 1) * ts[i]]
             q == Power(old, k)
  <1>1. k \in Nat /\ \A i \in 1 .. k : ts[i] \in Nat
    OBVIOUS
  <1>2. q \in Nat \ {0}
    BY PowerPositive
  <1>3. ASSUME NEW i \in 1 .. k PROVE weight(i) \in Nat \ {0}
    <2> DEFINE a == Power(old, k - i)
               b == Power(old + new, i - 1)
    <2>1. k - i \in Nat /\ i - 1 \in Nat /\ old + new \in Nat \ {0}
      BY <1>1
    <2>2. a \in Nat \ {0} /\ b \in Nat \ {0}
      BY <2>1, PowerPositive
    <2> HIDE DEF a, b
    <2>3. \A x, y \in Nat \ {0} : x * y \in Nat \ {0}
      OBVIOUS
    <2>4. a * new \in Nat \ {0}
      BY <2>2, <2>3
    <2>5. (a * new) * b \in Nat \ {0}
      BY <2>2, <2>3, <2>4
    <2> QED
      BY <2>5 DEF a, b
  <1>4. vs = [i \in 1 .. k |-> weight(i) * ts[i]]
    OBVIOUS
  <1>5. Weighted(ts, base, old, new) = q * base + Total(vs)
    BY DEF Weighted
  <1> HIDE DEF weight, vs, q, k
  <1>6. ASSUME NEW i \in 1 .. k
        PROVE  vs[i] \in Nat /\ vs[i] = weight(i) * ts[i] /\ (vs[i] > 0 <=> ts[i] > 0)
    <2> DEFINE w == weight(i)
               t == ts[i]
    <2>1. w \in Nat \ {0} /\ t \in Nat /\ vs[i] = w * t
      BY <1>1, <1>3, <1>4
    <2> HIDE DEF w, t
    <2>2. w * t \in Nat /\ (w * t > 0 <=> t > 0)
      BY <2>1
    <2> QED
      BY <2>1, <2>2 DEF w, t
  <1>7. vs \in Seq(Int) /\ Len(vs) = k /\ DOMAIN vs = 1 .. k
    <2>1. vs = [i \in 1 .. k |-> vs[i]]
      BY <1>4
    <2>2. \A i \in 1 .. k : vs[i] \in Int
      BY <1>6
    <2> QED
      BY <1>1, <2>1, <2>2, IsSeries
  <1>8. Total(vs) \in Nat /\ (Total(vs) > 0 <=> \E i \in 1 .. k : ts[i] > 0)
    <2>1. Total(vs) \in Int /\ Total(vs) >= 0
          /\ ((\E i \in 1 .. k : vs[i] > 0) => Total(vs) > 0)
      <3>1. \A i \in DOMAIN vs : vs[i] >= 0
        BY <1>6, <1>7
      <3> QED
        BY <1>7, <3>1, TotalType
    <2>2. ASSUME ~(\E i \in 1 .. k : ts[i] > 0) PROVE Total(vs) = 0
      <3>1. \A i \in 1 .. k : vs[i] = 0
        BY <1>6, <2>2
      <3>2. vs = [i \in 1 .. k |-> 0]
        BY <1>4, <3>1
      <3>3. Total([i \in 1 .. k |-> 0]) = k * 0
        BY <1>1, TotalConstant
      <3> QED
        BY <1>1, <3>2, <3>3
    <2> QED
      BY <1>6, <2>1, <2>2
  <1>9. q * base \in Nat /\ (q * base > 0 <=> base > 0)
    BY <1>2
  <1> DEFINE a == q * base
             b == Total(vs)
  <1>10. a \in Nat /\ b \in Nat /\ Weighted(ts, base, old, new) = a + b
    BY <1>5, <1>8, <1>9
  <1> HIDE DEF a, b
  <1>11. Weighted(ts, base, old, new) \in Nat
         /\ (Weighted(ts, base, old, new) > 0 <=> a > 0 \/ b > 0)
    BY <1>10
  <1> QED
    BY <1>8, <1>9, <1>11 DEF a, b, k

\* The average of RSI of natural numbers is positive when one of them is: no
\* number of the series is forgotten.
LEMMA WilderPositive ==
  ASSUME NEW ys \in Seq(Int), NEW zs \in Seq(Int), NEW p \in Nat \ {0, 1},
         Len(ys) >= p, Len(zs) = Len(ys), \A i \in 1 .. Len(ys) : ys[i] >= 0,
         \A i \in 1 .. Len(ys) : zs[i] = Power(p, Len(ys) - p + 1) * ys[i]
  PROVE  /\ Wilder(zs, p) \in Nat
         /\ Wilder(zs, p) > 0 <=> \E i \in 1 .. Len(ys) : ys[i] > 0
  <1> DEFINE n == Len(ys)
             f == SubSeq(ys, 1, p)
             r == SubSeq(ys, p + 1, n)
             t == Scaled(r, p)
             o == p - 1
             base == Total(f)
  <1>1. /\ n \in Nat /\ p \in 0 .. n /\ p \in Nat \ {0} /\ p \in Int /\ o \in Nat \ {0}
        /\ 1 \in Nat \ {0} /\ n - p \in Nat
    OBVIOUS
  <1>2. Wilder(zs, p) = Weighted(t, base, o, 1)
    BY <1>1, WilderWeighted
  <1>3. /\ f \in Seq(Int) /\ Len(f) = p /\ \A i \in 1 .. p : f[i] = ys[i]
        /\ r \in Seq(Int) /\ Len(r) = n - p /\ \A i \in 1 .. n - p : r[i] = ys[p + i]
    BY <1>1, Parts
  <1> HIDE DEF f, r, n
  <1>4. t \in Seq(Int) /\ Len(t) = n - p /\ \A i \in 1 .. n - p : t[i] = p * r[i]
    <2>1. t \in Seq(Int) /\ Len(t) = Len(r) /\ \A i \in 1 .. Len(r) : t[i] = p * r[i]
      BY <1>1, <1>3, ScaledType
    <2> QED
      BY <1>3, <2>1
  <1> HIDE DEF t
  <1>5. \A i \in 1 .. n : ys[i] \in Int /\ ys[i] >= 0
    BY DEF n
  <1>6. /\ \A i \in 1 .. p : i \in 1 .. n
        /\ \A i \in 1 .. n - p : p + i \in 1 .. n
        /\ \A i \in 1 .. n : i \in 1 .. p \/ (i - p \in 1 .. n - p /\ p + (i - p) = i)
    BY <1>1
  <1>7. /\ \A i \in 1 .. n - p : t[i] >= 0 /\ (t[i] > 0 <=> ys[p + i] > 0)
    <2> SUFFICES ASSUME NEW i \in 1 .. n - p PROVE t[i] >= 0 /\ (t[i] > 0 <=> ys[p + i] > 0)
      OBVIOUS
    <2> DEFINE y == ys[p + i]
    <2>1. y \in Int /\ y >= 0 /\ t[i] = p * y
      BY <1>3, <1>4, <1>5, <1>6
    <2> HIDE DEF y
    <2>2. p * y >= 0 /\ (p * y > 0 <=> y > 0)
      BY <1>1, <2>1
    <2> QED
      BY <2>1, <2>2 DEF y
  <1>8. base \in Nat /\ (base > 0 <=> \E i \in 1 .. p : ys[i] > 0)
    <2>1. Total(f) \in Int /\ Total(f) >= 0 /\ ((\E i \in 1 .. p : f[i] > 0) => Total(f) > 0)
      <3>1. DOMAIN f = 1 .. p /\ \A i \in DOMAIN f : f[i] >= 0
        BY <1>3, <1>5, <1>6
      <3> QED
        BY <1>3, <3>1, TotalType
    <2>2. ASSUME ~(\E i \in 1 .. p : ys[i] > 0) PROVE Total(f) = 0
      <3>1. \A i \in 1 .. p : f[i] = 0
        BY <1>3, <1>5, <1>6, <2>2
      <3>2. f = [i \in 1 .. p |-> 0]
        <4>1. f = [i \in 1 .. p |-> f[i]]
          BY <1>3
        <4> QED
          BY <3>1, <4>1
      <3>3. Total([i \in 1 .. p |-> 0]) = p * 0
        BY <1>1, TotalConstant
      <3> QED
        BY <1>1, <3>2, <3>3
    <2> QED
      BY <1>3, <2>1, <2>2
  <1> HIDE DEF base, o
  <1>9. /\ Weighted(t, base, o, 1) \in Nat
        /\ Weighted(t, base, o, 1) > 0 <=> base > 0 \/ \E i \in 1 .. n - p : t[i] > 0
    BY <1>1, <1>4, <1>7, <1>8, WeightedPositive
  <1>10. (base > 0 \/ \E i \in 1 .. n - p : t[i] > 0) <=> \E i \in 1 .. n : ys[i] > 0
    BY <1>6, <1>7, <1>8
  <1> QED
    BY <1>2, <1>9, <1>10 DEF n

\* RSI at scaled prices, of gains and losses that no division rounds.
LEMMA RsiMirrored ==
  ASSUME NEW xs \in Seq(Int), NEW p \in Nat \ {0, 1}, Len(xs) > p
  PROVE  LET scaled == Scaled(xs, Power(p, Len(xs) - p))
             r == Rsi(scaled, p)
             mirrored == Rsi(Mirrored(scaled), p)
             rises == \E d \in ToSet(Moves(xs)) : d > 0
             falls == \E d \in ToSet(Moves(xs)) : d < 0
         IN  /\ Rsi(Shifted(scaled, scaled[1]), p) = r
             /\ r[1] * mirrored[2] + mirrored[1] * r[2] = 100 * r[2] * mirrored[2]
             /\ r[1] = 0 <=> falls /\ ~rises
             /\ r[1] = 100 * r[2] <=> rises /\ ~falls
             /\ ~rises /\ ~falls => r[1] = 50 * r[2]
  <1> DEFINE n == Len(xs)
             f == Power(p, n - p)
             zs == Scaled(xs, f)
             rises == \E d \in ToSet(Moves(xs)) : d > 0
             falls == \E d \in ToSet(Moves(xs)) : d < 0
             g == Wilder(Gains(zs), p)
             l == Wilder(Losses(zs), p)
  <1>1. /\ n \in Nat /\ n > p /\ p \in Nat \ {0} /\ n - p \in Nat /\ n > 0 /\ 1 \in 1 .. n
        /\ (n - 1) - p + 1 = n - p /\ n - 1 >= p /\ n - 1 \in Nat
        /\ \A i \in 1 .. n - 1 : i \in 1 .. n /\ i + 1 \in 1 .. n
    OBVIOUS
  <1>2. f \in Nat \ {0} /\ f \in Int
    <2> DEFINE k == n - p
    <2>1. p \in Nat \ {0} /\ k \in Nat
      BY <1>1
    <2> HIDE DEF k
    <2>2. Power(p, k) \in Nat \ {0}
      BY <2>1, PowerPositive
    <2> QED
      BY <2>2 DEF k
  <1> HIDE DEF f
  <1>3. zs \in Seq(Int) /\ Len(zs) = n /\ \A i \in 1 .. n : zs[i] = f * xs[i]
    BY <1>2, ScaledType
  <1> HIDE DEF zs
  <1>4. zs[1] \in Int /\ \A i \in 1 .. n : xs[i] \in Int
    BY <1>1, <1>3
  <1>5. /\ Moves(xs) \in Seq(Int) /\ Len(Moves(xs)) = n - 1
        /\ \A i \in 1 .. n - 1 : Moves(xs)[i] = xs[i + 1] - xs[i] /\ Moves(xs)[i] \in Int
        /\ Gains(xs) \in Seq(Int) /\ Len(Gains(xs)) = n - 1
        /\ Losses(xs) \in Seq(Int) /\ Len(Losses(xs)) = n - 1
        /\ \A i \in 1 .. n - 1 :
             /\ Gains(xs)[i] = IF Moves(xs)[i] >= 0 THEN Moves(xs)[i] ELSE 0
             /\ Losses(xs)[i] = IF Moves(xs)[i] >= 0 THEN 0 ELSE -Moves(xs)[i]
    BY <1>1, MovesType
  <1>6. /\ \A i \in 1 .. n - 1 : Moves(zs)[i] = zs[i + 1] - zs[i]
        /\ Gains(zs) \in Seq(Int) /\ Len(Gains(zs)) = n - 1
        /\ Losses(zs) \in Seq(Int) /\ Len(Losses(zs)) = n - 1
        /\ \A i \in 1 .. n - 1 :
             /\ Gains(zs)[i] = IF Moves(zs)[i] >= 0 THEN Moves(zs)[i] ELSE 0
             /\ Losses(zs)[i] = IF Moves(zs)[i] >= 0 THEN 0 ELSE -Moves(zs)[i]
    BY <1>1, <1>3, MovesType
  <1> HIDE DEF n
  <1>7. ASSUME NEW i \in 1 .. n - 1
        PROVE  /\ Gains(zs)[i] = f * Gains(xs)[i] /\ Losses(zs)[i] = f * Losses(xs)[i]
               /\ Gains(xs)[i] >= 0 /\ (Gains(xs)[i] > 0 <=> Moves(xs)[i] > 0)
               /\ Losses(xs)[i] >= 0 /\ (Losses(xs)[i] > 0 <=> Moves(xs)[i] < 0)
    <2> DEFINE a == xs[i]
               b == xs[i + 1]
               x == Moves(xs)[i]
               z == Moves(zs)[i]
    <2>1. a \in Int /\ b \in Int /\ x = b - a /\ z = f * b - f * a
      BY <1>1, <1>3, <1>4, <1>5, <1>6
    <2>2. /\ Gains(xs)[i] = (IF x >= 0 THEN x ELSE 0) /\ Losses(xs)[i] = (IF x >= 0 THEN 0 ELSE -x)
          /\ Gains(zs)[i] = (IF z >= 0 THEN z ELSE 0) /\ Losses(zs)[i] = (IF z >= 0 THEN 0 ELSE -z)
      BY <1>5, <1>6
    <2> HIDE DEF a, b, x, z
    <2>3. x \in Int /\ z = f * x
      BY <1>2, <2>1
    <2>4. f * x \in Int /\ (x >= 0 <=> f * x >= 0) /\ f * (-x) = -(f * x) /\ f * 0 = 0
      BY <1>2, <2>3
    <2>5. /\ Gains(zs)[i] = f * Gains(xs)[i] /\ Losses(zs)[i] = f * Losses(xs)[i]
      <3>1. CASE x >= 0
        BY <2>2, <2>3, <2>4, <3>1
      <3>2. CASE ~(x >= 0)
        BY <2>2, <2>3, <2>4, <3>2
      <3> QED
        BY <3>1, <3>2
    <2>6. /\ Gains(xs)[i] >= 0 /\ (Gains(xs)[i] > 0 <=> x > 0)
          /\ Losses(xs)[i] >= 0 /\ (Losses(xs)[i] > 0 <=> x < 0)
      BY <2>2, <2>3
    <2> QED
      BY <2>5, <2>6 DEF x
  <1>8. (rises <=> \E i \in 1 .. n - 1 : Moves(xs)[i] > 0)
        /\ (falls <=> \E i \in 1 .. n - 1 : Moves(xs)[i] < 0)
    <2> DEFINE ms == Moves(xs)
    <2>1. DOMAIN ms = 1 .. n - 1
      BY <1>5
    <2> HIDE DEF ms
    <2>2. ToSet(ms) = {ms[i] : i \in 1 .. n - 1}
      BY <2>1 DEF ToSet
    <2> QED
      BY <2>2 DEF ms
  <1> DEFINE m == n - 1
  <1>9. m \in Nat /\ m >= p /\ Power(p, m - p + 1) = f
    BY <1>1 DEF f
  <1>10. g \in Nat /\ (g > 0 <=> rises)
    <2>1. /\ Len(Gains(xs)) >= p /\ Len(Gains(zs)) = Len(Gains(xs))
          /\ \A i \in 1 .. Len(Gains(xs)) : Gains(xs)[i] >= 0
          /\ \A i \in 1 .. Len(Gains(xs)) :
               Gains(zs)[i] = Power(p, Len(Gains(xs)) - p + 1) * Gains(xs)[i]
      BY <1>5, <1>6, <1>7, <1>9
    <2>2. /\ Wilder(Gains(zs), p) \in Nat
          /\ Wilder(Gains(zs), p) > 0 <=> \E i \in 1 .. Len(Gains(xs)) : Gains(xs)[i] > 0
      BY <1>5, <1>6, <2>1, WilderPositive
    <2> QED
      BY <1>5, <1>7, <1>8, <2>2
  <1>11. l \in Nat /\ (l > 0 <=> falls)
    <2>1. /\ Len(Losses(xs)) >= p /\ Len(Losses(zs)) = Len(Losses(xs))
          /\ \A i \in 1 .. Len(Losses(xs)) : Losses(xs)[i] >= 0
          /\ \A i \in 1 .. Len(Losses(xs)) :
               Losses(zs)[i] = Power(p, Len(Losses(xs)) - p + 1) * Losses(xs)[i]
      BY <1>5, <1>6, <1>7, <1>9
    <2>2. /\ Wilder(Losses(zs), p) \in Nat
          /\ Wilder(Losses(zs), p) > 0 <=> \E i \in 1 .. Len(Losses(xs)) : Losses(xs)[i] > 0
      BY <1>5, <1>6, <2>1, WilderPositive
    <2> QED
      BY <1>5, <1>7, <1>8, <2>2
  <1>12. /\ Gains(Shifted(zs, zs[1])) = Gains(zs) /\ Losses(Shifted(zs, zs[1])) = Losses(zs)
         /\ Gains(Mirrored(zs)) = Losses(zs) /\ Losses(Mirrored(zs)) = Gains(zs)
    BY <1>1, <1>3, <1>4, MovesMirrored
  <1>13. /\ Len(Shifted(zs, zs[1])) = n /\ Len(Mirrored(zs)) = n
    BY <1>3, <1>4, ShiftedType
  <1>14. /\ Rsi(zs, p) = FractionOfGains(g, l)
         /\ Rsi(Shifted(zs, zs[1]), p) = FractionOfGains(g, l)
         /\ Rsi(Mirrored(zs), p) = FractionOfGains(l, g)
    <2>1. ~(p = 0 \/ n <= p)
      BY <1>1
    <2> QED
      BY <1>3, <1>12, <1>13, <2>1 DEF Rsi
  <1> HIDE DEF g, l, rises, falls
  <1> DEFINE r == FractionOfGains(g, l)
             s == FractionOfGains(l, g)
  <1>15. /\ r[1] * s[2] + s[1] * r[2] = 100 * r[2] * s[2]
         /\ r[1] = 0 <=> falls /\ ~rises
         /\ r[1] = 100 * r[2] <=> rises /\ ~falls
         /\ ~rises /\ ~falls => r[1] = 50 * r[2]
    <2>1. CASE g = 0 /\ l = 0
      <3>1. r = <<50, 1>> /\ s = <<50, 1>>
        BY <2>1 DEF FractionOfGains
      <3> QED
        BY <1>10, <1>11, <2>1, <3>1
    <2>2. CASE g = 0 /\ l > 0
      <3>1. r = <<100 * g, g + l>> /\ s = <<100, 1>>
        BY <1>11, <2>2 DEF FractionOfGains
      <3>2. r[1] = 0 /\ r[2] = l /\ s[1] = 100 /\ s[2] = 1
        BY <1>11, <2>2, <3>1
      <3> QED
        BY <1>10, <1>11, <2>2, <3>2
    <2>3. CASE g > 0 /\ l = 0
      <3>1. s = <<100 * l, l + g>> /\ r = <<100, 1>>
        BY <1>10, <2>3 DEF FractionOfGains
      <3>2. s[1] = 0 /\ s[2] = g /\ r[1] = 100 /\ r[2] = 1
        BY <1>10, <2>3, <3>1
      <3> QED
        BY <1>10, <1>11, <2>3, <3>2
    <2>4. CASE g > 0 /\ l > 0
      <3>1. r = <<100 * g, g + l>> /\ s = <<100 * l, l + g>>
        BY <1>10, <1>11, <2>4 DEF FractionOfGains
      <3>2. r[1] = 100 * g /\ r[2] = g + l /\ s[1] = 100 * l /\ s[2] = g + l
        BY <1>10, <1>11, <3>1
      <3>3. (100 * g) * (g + l) + (100 * l) * (g + l) = 100 * (g + l) * (g + l)
        BY <1>10, <1>11
      <3>4. r[1] # 0 /\ r[1] # 100 * r[2]
        BY <1>10, <1>11, <2>4, <3>2
      <3>5. rises /\ falls
        BY <1>10, <1>11, <2>4
      <3> HIDE DEF r, s
      <3> QED
        BY <3>2, <3>3, <3>4, <3>5
    <2> QED
      BY <1>10, <1>11, <2>1, <2>2, <2>3, <2>4
  <1> HIDE DEF r, s
  <1>16. Rsi(zs, p) = r /\ Rsi(Shifted(zs, zs[1]), p) = r /\ Rsi(Mirrored(zs), p) = s
    BY <1>14 DEF r, s
  <1> QED
    BY <1>15, <1>16 DEF zs, f, n, rises, falls

\* An exponential average moves with its values, ...
LEMMA EmaShifted ==
  ASSUME NEW xs \in Seq(Int), NEW ys \in Seq(Int), NEW c \in Int, NEW p \in Nat \ {0},
         Len(xs) > 0, Len(ys) = Len(xs), \A i \in 1 .. Len(xs) : ys[i] = xs[i] + c
  PROVE  EmaFold(ys, p) = EmaFold(xs, p) + c
  <1> DEFINE n == Len(xs)
             o == p - 1
             u == Tail(xs)
             v == Tail(ys)
             a == Head(xs)
             b == Head(ys)
  <1>1. n \in Nat /\ n > 0 /\ o \in Nat /\ 2 \in Nat \ {0} /\ 1 \in 1 .. n
        /\ \A i \in 1 .. n - 1 : i + 1 \in 1 .. n
    OBVIOUS
  <1>2. /\ u \in Seq(Int) /\ Len(u) = n - 1 /\ \A i \in 1 .. n - 1 : u[i] = xs[i + 1]
        /\ a = xs[1] /\ a \in Int
    BY HeadAndTail
  <1>3. /\ v \in Seq(Int) /\ Len(v) = n - 1 /\ \A i \in 1 .. n - 1 : v[i] = ys[i + 1]
        /\ b = ys[1] /\ b \in Int
    BY HeadAndTail
  <1>4. EmaFold(xs, p) = Smoothed(u, a, o, 2) /\ EmaFold(ys, p) = Smoothed(v, b, o, 2)
    BY DEF EmaFold
  <1>5. b = a + c
    BY <1>1, <1>2, <1>3
  <1> HIDE DEF u, v, a, b, o
  <1>6. Len(v) = Len(u) /\ \A i \in 1 .. Len(u) : v[i] = u[i] + c
    <2>1. \A i \in 1 .. n - 1 : v[i] = u[i] + c
      BY <1>1, <1>2, <1>3
    <2> QED
      BY <1>2, <1>3, <2>1
  <1>7. Smoothed(v, b, o, 2) = Smoothed(u, a, o, 2) + c
    <2>1. u \in Seq(Int) /\ v \in Seq(Int) /\ a \in Int /\ b \in Int /\ o \in Nat /\ 2 \in Nat \ {0}
      BY <1>1, <1>2, <1>3
    <2>2. Apart(a, b, c)
      BY <1>5 DEF Apart
    <2> QED
      BY <1>6, <2>1, <2>2, SmoothedShifted
  <1> QED
    BY <1>4, <1>7

\* A series upside down, and two numbers c times a whole number and its opposite,
\* as facts of their own.
IsMirror(ws, zs) ==
  ws \in Seq(Int) /\ Len(ws) = Len(zs) /\ \A i \in 1 .. Len(zs) : ws[i] = -zs[i]
AreOpposite(a, b, c) == \E y \in Int : a = c * y /\ b = -(c * y)

\* ... and of values that no division rounds it is mirrored with them.
LEMMA EmaMirrored ==
  ASSUME NEW xs, NEW zs, NEW ws, NEW c \in Int, NEW m \in Int, NEW p \in Nat \ {0},
         NEW h \in Int, h = Power(p + 1, Len(xs) - 1), Len(xs) > 0,
         IsScaled(zs, xs, ProductOf(ProductOf(c, m), h)), IsMirror(ws, zs)
  PROVE  AreOpposite(EmaFold(zs, p), EmaFold(ws, p), c)
  <1> DEFINE n == Len(xs)
             q == Power(p + 1, n - 1)
             e == c * m
             d == -e
             w == Weighted(Tail(xs), Head(xs), p - 1, 2)
  <1>0. /\ xs \in Seq(Int) /\ zs \in Seq(Int) /\ ws \in Seq(Int)
        /\ Len(zs) = Len(xs) /\ Len(ws) = Len(xs)
        /\ \A i \in 1 .. Len(xs) : zs[i] = ((c * m) * h) * xs[i] /\ ws[i] = -zs[i]
    BY DEF IsScaled, IsMirror, ProductOf
  <1>1. n \in Nat /\ n - 1 \in Nat /\ p + 1 \in Int /\ e \in Int /\ d \in Int
        /\ \A i \in 1 .. n : xs[i] \in Int
    BY <1>0
  <1>2. q \in Int
    BY <1>1, PowerStep
  <1>3. \A i \in 1 .. n : zs[i] = e * q * xs[i] /\ ws[i] = -zs[i]
    BY <1>0
  <1> HIDE DEF e, q
  <1>4. \A i \in 1 .. n : ws[i] = d * q * xs[i]
    <2> SUFFICES ASSUME NEW i \in 1 .. n PROVE ws[i] = d * q * xs[i]
      OBVIOUS
    <2> DEFINE x == xs[i]
    <2>1. x \in Int /\ ws[i] = -(e * q * x)
      BY <1>1, <1>3
    <2> HIDE DEF x
    <2>2. -(e * q * x) = (-e) * q * x
      BY <1>1, <1>2, <2>1
    <2> QED
      BY <2>1, <2>2 DEF x
  <1> HIDE DEF d, w
  <1>5. EmaFold(zs, p) = e * w /\ w \in Int
    <2>1. \A i \in 1 .. Len(xs) : zs[i] = e * Power(p + 1, Len(xs) - 1) * xs[i]
      BY <1>3 DEF q
    <2> QED
      BY <1>0, <1>1, <2>1, EmaWeighted DEF w
  <1>6. EmaFold(ws, p) = d * w
    <2>1. \A i \in 1 .. Len(xs) : ws[i] = d * Power(p + 1, Len(xs) - 1) * xs[i]
      BY <1>4 DEF q
    <2> QED
      BY <1>0, <1>1, <2>1, EmaWeighted DEF w
  <1> DEFINE y == m * w
  <1>7. y \in Int /\ e * w = c * y /\ d * w = -(c * y)
    <2>1. (c * m) * w = c * (m * w) /\ (-(c * m)) * w = -(c * (m * w)) /\ m * w \in Int
      BY <1>5
    <2> QED
      BY <2>1 DEF e, d
  <1> HIDE DEF y
  <1> QED
    BY <1>5, <1>6, <1>7 DEF AreOpposite

\* The average of the first k closes, of closes that no division rounds.
LEMMA PrefixMirrored ==
  ASSUME NEW xs, NEW zs, NEW ws, NEW c \in Int, NEW b \in Int, NEW p \in Nat \ {0},
         NEW k \in 1 .. Len(xs), NEW e \in Int, e = Power(p + 1, Len(xs) - 1),
         IsScaled(zs, xs, ProductOf(ProductOf(c, b), e)), IsMirror(ws, zs)
  PROVE  AreOpposite(EmaFold(SubSeq(zs, 1, k), p), EmaFold(SubSeq(ws, 1, k), p), c)
  <1> DEFINE n == Len(xs)
             u == SubSeq(xs, 1, k)
             v == SubSeq(zs, 1, k)
             w == SubSeq(ws, 1, k)
             g == Power(p + 1, n - k)
             h == Power(p + 1, k - 1)
             m == b * g
             d == p + 1
             l == n - k
             j == k - 1
  <1>0. /\ xs \in Seq(Int) /\ zs \in Seq(Int) /\ ws \in Seq(Int)
        /\ Len(zs) = Len(xs) /\ Len(ws) = Len(xs)
        /\ \A i \in 1 .. Len(xs) : zs[i] = ((c * b) * e) * xs[i] /\ ws[i] = -zs[i]
    BY DEF IsScaled, IsMirror, ProductOf
  <1>1. /\ n \in Nat /\ k \in 0 .. n /\ k > 0 /\ d \in Int /\ l \in Nat /\ j \in Nat
        /\ l + j = n - 1 /\ \A i \in 1 .. k : i \in 1 .. n
    BY <1>0
  <1>2. g \in Int /\ h \in Int /\ Power(p + 1, n - 1) = g * h
    <2> HIDE DEF l, j, d, n
    <2>1. Power(d, l) \in Int /\ Power(d, j) \in Int
      BY <1>1, PowerStep
    <2>2. Power(d, l + j) = Power(d, l) * Power(d, j)
      BY <1>1, PowerSum
    <2> QED
      BY <1>1, <2>1, <2>2 DEF d, l, j
  <1>3. u \in Seq(Int) /\ Len(u) = k /\ \A i \in 1 .. k : u[i] = xs[i]
    BY <1>0, <1>1, Parts
  <1>4. v \in Seq(Int) /\ Len(v) = k /\ \A i \in 1 .. k : v[i] = zs[i]
    BY <1>0, <1>1, Parts
  <1>5. w \in Seq(Int) /\ Len(w) = k /\ \A i \in 1 .. k : w[i] = ws[i]
    BY <1>0, <1>1, Parts
  <1>6. \A i \in 1 .. n : zs[i] = (c * b) * Power(p + 1, n - 1) * xs[i] /\ ws[i] = -zs[i]
                          /\ xs[i] \in Int
    BY <1>0
  <1> HIDE DEF n, u, v, w, g
  <1>7. m \in Int
    BY <1>2
  <1>8. \A i \in 1 .. k : v[i] = (c * m) * h * u[i] /\ w[i] = -v[i]
    <2> SUFFICES ASSUME NEW i \in 1 .. k PROVE v[i] = (c * m) * h * u[i] /\ w[i] = -v[i]
      OBVIOUS
    <2> DEFINE x == xs[i]
    <2>1. i \in 1 .. n
      BY <1>1
    <2>2. x \in Int /\ v[i] = (c * b) * (g * h) * x /\ u[i] = x /\ w[i] = -v[i]
      BY <1>2, <1>3, <1>4, <1>5, <1>6, <2>1
    <2> HIDE DEF x, h
    <2>3. (c * b) * (g * h) * x = (c * (b * g)) * h * x
      BY <1>2, <2>2
    <2> QED
      BY <2>2, <2>3
  <1> HIDE DEF m
  <1>9. IsScaled(v, u, ProductOf(ProductOf(c, m), h)) /\ IsMirror(w, v)
    BY <1>3, <1>4, <1>5, <1>8 DEF IsScaled, IsMirror, ProductOf
  <1>10. h \in Int /\ h = Power(p + 1, Len(u) - 1) /\ Len(u) > 0
    BY <1>1, <1>2, <1>3
  <1> HIDE DEF h
  <1>11. AreOpposite(EmaFold(v, p), EmaFold(w, p), c)
    BY <1>7, <1>9, <1>10, EmaMirrored
  <1> QED
    BY <1>11 DEF v, w

\* The MACD does not change with the level of prices.
LEMMA MacdShifted ==
  ASSUME NEW zs \in Seq(Int), NEW c \in Int
  PROVE  Macd(Shifted(zs, c)) = Macd(zs)
  <1> DEFINE n == Len(zs)
             us == Shifted(zs, c)
  <1>1. us \in Seq(Int) /\ Len(us) = n /\ \A i \in 1 .. n : us[i] = zs[i] + c
    BY ShiftedType
  <1>2. n \in Nat /\ Slow + Signal > 1
    BY IndicatorsAssumption
  <1> HIDE DEF us
  <1>3. CASE n < Slow + Signal
    <2>1. Len(zs) < Slow + Signal /\ Len(us) < Slow + Signal
      BY <1>1, <1>3
    <2> QED
      BY <2>1 DEF Macd, us
  <1>4. CASE ~(n < Slow + Signal)
    <2>1. n > 1 /\ \A i \in 1 .. n - 1 : i + 1 \in 0 .. n /\ i + 1 > 0
      BY <1>2, <1>4, IndicatorsAssumption
    <2>2. ASSUME NEW k \in 0 .. n, k > 0, NEW p \in Nat \ {0}
          PROVE  /\ EmaFold(SubSeq(zs, 1, k), p) \in Int
                 /\ EmaFold(SubSeq(us, 1, k), p) = EmaFold(SubSeq(zs, 1, k), p) + c
      <3> DEFINE v == SubSeq(zs, 1, k)
                 w == SubSeq(us, 1, k)
      <3>1. v \in Seq(Int) /\ Len(v) = k /\ \A i \in 1 .. k : v[i] = zs[i]
        BY Parts
      <3>2. w \in Seq(Int) /\ Len(w) = k /\ \A i \in 1 .. k : w[i] = us[i]
        BY <1>1, Parts
      <3> HIDE DEF v, w
      <3>3. Len(v) > 0 /\ Len(w) = Len(v) /\ \A i \in 1 .. Len(v) : w[i] = v[i] + c
        <4>1. \A i \in 1 .. k : i \in 1 .. n
          BY <1>2
        <4> QED
          BY <1>1, <2>2, <3>1, <3>2, <4>1
      <3>4. EmaFold(v, p) \in Int
        BY <3>1, <3>3, AverageTypes
      <3>5. EmaFold(w, p) = EmaFold(v, p) + c
        BY <3>1, <3>2, <3>3, EmaShifted
      <3> QED
        BY <3>4, <3>5 DEF v, w
    <2>3. /\ MacdLine(zs) \in Seq(Int) /\ Len(MacdLine(zs)) = n - 1
          /\ \A i \in 1 .. n - 1 : MacdLine(zs)[i] = EmaFold(SubSeq(zs, 1, i + 1), Fast)
                                                       - EmaFold(SubSeq(zs, 1, i + 1), Slow)
      BY <2>1, MacdLineType
    <2>4. /\ MacdLine(us) \in Seq(Int) /\ Len(MacdLine(us)) = n - 1
          /\ \A i \in 1 .. n - 1 : MacdLine(us)[i] = EmaFold(SubSeq(us, 1, i + 1), Fast)
                                                       - EmaFold(SubSeq(us, 1, i + 1), Slow)
      BY <1>1, <2>1, MacdLineType
    <2> HIDE DEF n
    <2>5. ASSUME NEW i \in 1 .. n - 1 PROVE MacdLine(us)[i] = MacdLine(zs)[i]
      <3> DEFINE k == i + 1
                 a == EmaFold(SubSeq(zs, 1, k), Fast)
                 b == EmaFold(SubSeq(zs, 1, k), Slow)
      <3>1. k \in 0 .. n /\ k > 0
        BY <2>1
      <3>2. MacdLine(zs)[i] = a - b
            /\ MacdLine(us)[i] = EmaFold(SubSeq(us, 1, k), Fast) - EmaFold(SubSeq(us, 1, k), Slow)
        BY <2>3, <2>4
      <3>3. Fast \in Nat \ {0} /\ Slow \in Nat \ {0}
        BY IndicatorsAssumption
      <3> HIDE DEF k
      <3>4. a \in Int /\ EmaFold(SubSeq(us, 1, k), Fast) = a + c
        BY <2>2, <3>1, <3>3
      <3>5. b \in Int /\ EmaFold(SubSeq(us, 1, k), Slow) = b + c
        BY <2>2, <3>1, <3>3
      <3> HIDE DEF a, b
      <3>6. (a + c) - (b + c) = a - b
        BY <3>4, <3>5
      <3> QED
        BY <3>2, <3>4, <3>5, <3>6
    <2>6. MacdLine(us) = MacdLine(zs)
      <3>1. Len(MacdLine(us)) = Len(MacdLine(zs))
            /\ \A i \in 1 .. Len(MacdLine(zs)) : MacdLine(us)[i] = MacdLine(zs)[i]
        BY <2>3, <2>4, <2>5
      <3> QED
        BY <2>3, <2>4, <3>1, SameSeries
    <2>7. Len(us) = Len(zs)
      BY <1>1 DEF n
    <2> QED
      BY <2>6, <2>7 DEF Macd, us
  <1> QED
    BY <1>3, <1>4 DEF us

\* Upside down, the MACD of closes that no division rounds is mirrored.
LEMMA MacdMirrored ==
  ASSUME NEW xs \in Seq(Int), NEW zs \in Seq(Int), NEW n \in Nat, n >= Slow + Signal,
         Len(xs) = n, Len(zs) = n,
         \A i \in 1 .. n : zs[i] = (Power(Fast + 1, n - 1) * Power(Slow + 1, n - 1)
                                      * Power(Signal + 1, n - 2)) * xs[i]
  PROVE  Macd(Mirrored(zs)) =
           [macd |-> -Macd(zs).macd, signal |-> -Macd(zs).signal,
            histogram |-> -Macd(zs).histogram]
  <1> DEFINE ws == Mirrored(zs)
             a == Power(Fast + 1, n - 1)
             b == Power(Slow + 1, n - 1)
             c == Power(Signal + 1, n - 2)
             m == n - 1
             line == MacdLine(zs)
             down == MacdLine(ws)
  <1>1. /\ n > 1 /\ m \in Nat /\ m > 0 /\ n - 2 \in Nat /\ m - 1 = n - 2 /\ m \in 1 .. m
        /\ Fast \in Nat \ {0} /\ Slow \in Nat \ {0} /\ Signal \in Nat \ {0}
        /\ Fast + 1 \in Int /\ Slow + 1 \in Int /\ Signal + 1 \in Int
        /\ \A i \in 1 .. m : i + 1 \in 1 .. n
    <2>1. Fast \in Nat \ {0} /\ Slow \in Nat \ {0} /\ Signal \in Nat \ {0}
      BY IndicatorsAssumption
    <2>2. n > 1
      BY <2>1
    <2> QED
      BY <2>1, <2>2
  <1>2. a \in Int /\ b \in Int /\ c \in Int
    BY <1>1, PowerStep
  <1>3. ws \in Seq(Int) /\ Len(ws) = n /\ \A i \in 1 .. n : ws[i] = -zs[i]
    <2>1. 0 \in Int
      OBVIOUS
    <2> QED
      BY <2>1, ShiftedType
  <1>4. \A i \in 1 .. n : zs[i] = (a * b * c) * xs[i] /\ xs[i] \in Int
    OBVIOUS
  <1> HIDE DEF a, b, c, ws
  <1>5. \A i \in 1 .. n : /\ zs[i] = (c * b) * a * xs[i]
                          /\ zs[i] = (c * a) * b * xs[i]
    <2> SUFFICES ASSUME NEW i \in 1 .. n
                 PROVE  zs[i] = (c * b) * a * xs[i] /\ zs[i] = (c * a) * b * xs[i]
      OBVIOUS
    <2> DEFINE x == xs[i]
    <2>1. x \in Int /\ zs[i] = (a * b * c) * x
      BY <1>4
    <2> HIDE DEF x
    <2>2. (a * b * c) * x = (c * b) * a * x /\ (a * b * c) * x = (c * a) * b * x
      BY <1>2, <2>1
    <2> QED
      BY <2>1, <2>2 DEF x
  <1>6. ASSUME NEW i \in 1 .. m
        PROVE  \E y \in Int : line[i] = c * y /\ down[i] = -(c * y)
    <2> DEFINE k == i + 1
    <2>1. k \in 1 .. n
      BY <1>1
    <2>2. line[i] = EmaFold(SubSeq(zs, 1, k), Fast) - EmaFold(SubSeq(zs, 1, k), Slow)
      <3>1. zs \in Seq(Int) /\ Len(zs) > 0 /\ i \in 1 .. Len(zs) - 1
        BY <1>1
      <3> QED
        BY <3>1, MacdLineType
    <2>3. down[i] = EmaFold(SubSeq(ws, 1, k), Fast) - EmaFold(SubSeq(ws, 1, k), Slow)
      <3>1. ws \in Seq(Int) /\ Len(ws) > 0 /\ i \in 1 .. Len(ws) - 1
        BY <1>1, <1>3
      <3> QED
        BY <3>1, MacdLineType
    <2> HIDE DEF k, line, down
    <2>4. AreOpposite(EmaFold(SubSeq(zs, 1, k), Fast), EmaFold(SubSeq(ws, 1, k), Fast), c)
      <3>1. k \in 1 .. Len(xs) /\ a = Power(Fast + 1, Len(xs) - 1)
        BY <2>1 DEF a
      <3>2. IsScaled(zs, xs, ProductOf(ProductOf(c, b), a)) /\ IsMirror(ws, zs)
        BY <1>3, <1>5 DEF IsScaled, IsMirror, ProductOf
      <3> QED
        BY <1>1, <1>2, <3>1, <3>2, PrefixMirrored
    <2>5. AreOpposite(EmaFold(SubSeq(zs, 1, k), Slow), EmaFold(SubSeq(ws, 1, k), Slow), c)
      <3>1. k \in 1 .. Len(xs) /\ b = Power(Slow + 1, Len(xs) - 1)
        BY <2>1 DEF b
      <3>2. IsScaled(zs, xs, ProductOf(ProductOf(c, a), b)) /\ IsMirror(ws, zs)
        BY <1>3, <1>5 DEF IsScaled, IsMirror, ProductOf
      <3> QED
        BY <1>1, <1>2, <3>1, <3>2, PrefixMirrored
    <2>6. PICK y \in Int : /\ EmaFold(SubSeq(zs, 1, k), Fast) = c * y
                           /\ EmaFold(SubSeq(ws, 1, k), Fast) = -(c * y)
      BY <2>4 DEF AreOpposite
    <2>7. PICK z \in Int : /\ EmaFold(SubSeq(zs, 1, k), Slow) = c * z
                           /\ EmaFold(SubSeq(ws, 1, k), Slow) = -(c * z)
      BY <2>5 DEF AreOpposite
    <2>8. /\ y - z \in Int /\ c * y - c * z = c * (y - z)
          /\ (-(c * y)) - (-(c * z)) = -(c * (y - z))
      BY <1>2
    <2>9. line[i] = c * (y - z) /\ down[i] = -(c * (y - z))
      BY <2>2, <2>3, <2>6, <2>7, <2>8
    <2> QED
      BY <2>8, <2>9
  <1>7. line \in Seq(Int) /\ Len(line) = m
    <2>1. zs \in Seq(Int) /\ Len(zs) > 0 /\ Len(zs) - 1 = m
      BY <1>1
    <2> QED
      BY <2>1, MacdLineType
  <1>8. down \in Seq(Int) /\ Len(down) = m
    <2>1. ws \in Seq(Int) /\ Len(ws) > 0 /\ Len(ws) - 1 = m
      BY <1>1, <1>3
    <2> QED
      BY <2>1, MacdLineType
  <1>9. Macd(zs) = [macd |-> Last(line), signal |-> EmaFold(line, Signal),
                    histogram |-> Last(line) - EmaFold(line, Signal)]
    BY <1>1 DEF Macd
  <1>10. Macd(ws) = [macd |-> Last(down), signal |-> EmaFold(down, Signal),
                     histogram |-> Last(down) - EmaFold(down, Signal)]
    BY <1>1, <1>3 DEF Macd
  <1> HIDE DEF line, down, m
  <1> DEFINE f == [i \in 1 .. m |-> CHOOSE y \in Int : line[i] = c * y /\ down[i] = -(c * y)]
  <1>11. \A i \in 1 .. m : f[i] \in Int /\ line[i] = c * f[i] /\ down[i] = -line[i]
    BY <1>6
  <1>12. f \in Seq(Int) /\ Len(f) = m
    <2>1. f = [i \in 1 .. m |-> f[i]]
      OBVIOUS
    <2> HIDE DEF f
    <2> QED
      BY <1>1, <1>11, <2>1, IsSeries
  <1> HIDE DEF f
  <1>13. EmaFold(line, Signal) \in Int /\ EmaFold(down, Signal) = -EmaFold(line, Signal)
    <2>1. Len(f) > 0 /\ c = Power(Signal + 1, Len(f) - 1)
      BY <1>1, <1>12 DEF c
    <2>2. 1 \in Int /\ ProductOf(ProductOf(1, 1), c) = c
      BY <1>2 DEF ProductOf
    <2>3. IsScaled(line, f, ProductOf(ProductOf(1, 1), c)) /\ IsMirror(down, line)
      BY <1>7, <1>8, <1>11, <1>12, <2>2 DEF IsScaled, IsMirror
    <2>4. AreOpposite(EmaFold(line, Signal), EmaFold(down, Signal), 1)
      BY <1>1, <1>2, <2>1, <2>2, <2>3, EmaMirrored
    <2>5. PICK y \in Int : EmaFold(line, Signal) = 1 * y /\ EmaFold(down, Signal) = -(1 * y)
      BY <2>4 DEF AreOpposite
    <2> QED
      BY <2>5
  <1>14. Last(line) \in Int /\ Last(down) = -Last(line)
    <2>1. Last(line) = line[m] /\ Last(down) = down[m]
      BY <1>7, <1>8 DEF Last
    <2> QED
      BY <1>1, <1>7, <1>11, <2>1
  <1> DEFINE x == Last(line)
             y == EmaFold(line, Signal)
  <1>15. /\ Macd(zs) = [macd |-> x, signal |-> y, histogram |-> x - y]
         /\ Macd(ws) = [macd |-> -x, signal |-> -y, histogram |-> (-x) - (-y)]
         /\ x \in Int /\ y \in Int
    BY <1>9, <1>10, <1>13, <1>14
  <1> HIDE DEF x, y
  <1>16. (-x) - (-y) = -(x - y)
    BY <1>15
  <1> QED
    BY <1>15, <1>16 DEF ws

\* RSI and MACD read moves alone, and rises as they read falls (rsi, macd).
THEOREM MovesAlone == SeriesSpec => []MomentumMirrored
  <1>1. ASSUME SeriesTypeOK PROVE MomentumMirrored
    <2> DEFINE xs == Closes
               n == Len(xs)
               rises == \E d \in ToSet(Moves(xs)) : d > 0
               falls == \E d \in ToSet(Moves(xs)) : d < 0
    <2>1. xs \in Seq(Int)
      BY <1>1, ClosesType DEF SeriesTypeOK, Closes
    <2> HIDE DEF xs
    <2>2. ASSUME NEW period \in Periods, n > period
          PROVE  LET scaled == Scaled(xs, Power(period, n - period))
                     r == Rsi(scaled, period)
                     mirrored == Rsi(Mirrored(scaled), period)
                 IN  /\ Rsi(Shifted(scaled, scaled[1]), period) = r
                     /\ r[1] * mirrored[2] + mirrored[1] * r[2] = 100 * r[2] * mirrored[2]
                     /\ r[1] = 0 <=> falls /\ ~rises
                     /\ r[1] = 100 * r[2] <=> rises /\ ~falls
                     /\ ~rises /\ ~falls => r[1] = 50 * r[2]
      <3>1. period \in Nat \ {0, 1} /\ Len(xs) > period
        BY <2>2, IndicatorsAssumption
      <3> QED
        BY <2>1, <3>1, RsiMirrored
    <2>3. ASSUME n >= Slow + Signal
          PROVE  LET fine == Scaled(xs, Power(Fast + 1, n - 1) * Power(Slow + 1, n - 1)
                                          * Power(Signal + 1, n - 2))
                     m == Macd(fine)
                 IN  /\ Macd(Shifted(fine, fine[1])) = m
                     /\ Macd(Mirrored(fine)) =
                          [macd |-> -m.macd, signal |-> -m.signal, histogram |-> -m.histogram]
      <3> DEFINE a == Power(Fast + 1, n - 1)
                 b == Power(Slow + 1, n - 1)
                 c == Power(Signal + 1, n - 2)
                 f == a * b * c
                 fine == Scaled(xs, f)
      <3>1. /\ n \in Nat /\ n > 1 /\ n - 1 \in Nat /\ n - 2 \in Nat
            /\ Fast + 1 \in Int /\ Slow + 1 \in Int /\ Signal + 1 \in Int
        <4>1. Fast \in Nat \ {0} /\ Slow \in Nat \ {0} /\ Signal \in Nat \ {0}
          BY IndicatorsAssumption
        <4>2. n \in Nat /\ n > 1
          BY <2>1, <2>3, <4>1
        <4> QED
          BY <4>1, <4>2
      <3>2. f \in Int
        <4>1. a \in Int /\ b \in Int /\ c \in Int
          BY <3>1, PowerStep
        <4> HIDE DEF a, b, c
        <4> QED
          BY <4>1
      <3> HIDE DEF f
      <3>3. fine \in Seq(Int) /\ Len(fine) = n /\ \A i \in 1 .. n : fine[i] = f * xs[i]
        BY <2>1, <3>2, ScaledType
      <3> HIDE DEF fine, n
      <3>4. fine[1] \in Int
        <4>1. 1 \in 1 .. n
          BY <3>1
        <4> QED
          BY <3>3, <4>1
      <3>5. Macd(Shifted(fine, fine[1])) = Macd(fine)
        BY <3>3, <3>4, MacdShifted
      <3>6. Macd(Mirrored(fine)) = [macd |-> -Macd(fine).macd, signal |-> -Macd(fine).signal,
                                    histogram |-> -Macd(fine).histogram]
        <4>1. \A i \in 1 .. n : fine[i] = (Power(Fast + 1, n - 1) * Power(Slow + 1, n - 1)
                                             * Power(Signal + 1, n - 2)) * xs[i]
          BY <3>3 DEF f
        <4>2. Len(xs) = n
          BY DEF n
        <4> QED
          BY <2>1, <2>3, <3>1, <3>3, <4>1, <4>2, MacdMirrored
      <3> QED
        BY <3>5, <3>6 DEF fine, f, n
    <2> QED
      BY <2>2, <2>3 DEF MomentumMirrored, xs
  <1> QED
    BY <1>1, SeriesTypeCorrect, PTL

-----------------------------------------------------------------------------
(* The market cache: the inductive invariant.                              *)

USE MarketAssumption, NoneAssumption DEF Times

\* A request under way was sent no longer ago than a request takes, and while
\* the candles are awaited the ticker is no older than the first request.
RequestInv ==
    \A t \in Tasks :
        /\ pc[t] \in {"ticker", "ohlcv"} => since[t] <= now /\ now - since[t] <= Latency
        /\ pc[t] = "ohlcv" => made[t] <= since[t] /\ since[t] - made[t] <= Latency

\* A snapshot says it is newer than its price by two requests at most.
Recent(s) ==
    /\ s \in Snapshots
    /\ s.made <= s.timestamp /\ s.timestamp <= now
    /\ s.timestamp - s.made <= 2 * Latency

SnapshotInv ==
    /\ cache # None => Recent(cache)
    /\ \A t \in Tasks :
        /\ snap[t] # None => Recent(snap[t])
        /\ pc[t] \in {"served", "passed"} => snap[t] # None
        /\ pc[t] = "passed" => ApparentAge(snap[t]) <= MaxStale

IInv == TypeOK /\ RequestInv /\ SnapshotInv

\* The invariant holds initially.
LEMMA Initial == Init => IInv
  BY DEF Init, IInv, TypeOK, RequestInv, SnapshotInv

\* The snapshot a fetch ends with.
LEMMA FetchedRecent ==
    ASSUME IInv, NEW t \in Tasks, OhlcvArrives(t)
    PROVE  /\ cache' = [made |-> made[t], timestamp |-> now]
           /\ snap' = [snap EXCEPT ![t] = cache']
           /\ Recent(cache')
           /\ now - made[t] <= 2 * Latency
<1>1. /\ cache' = [made |-> made[t], timestamp |-> now]
      /\ snap' = [snap EXCEPT ![t] = cache']
  BY DEF OhlcvArrives
<1>2. made[t] <= now /\ now - made[t] <= 2 * Latency
  BY DEF OhlcvArrives, IInv, TypeOK, RequestInv
<1>3. cache' \in Snapshots
  BY <1>1 DEF IInv, TypeOK, Snapshots
<1> QED
  BY <1>1, <1>2, <1>3 DEF Recent, IInv, TypeOK

\* Every step of a fetch or of the clock keeps the invariant.
LEMMA NextKeeps == IInv /\ [Next]_vars => IInv'
<1> SUFFICES ASSUME IInv, [Next]_vars
             PROVE  IInv'
  OBVIOUS
<1> USE DEF IInv
<1>1. ASSUME NEW t \in Tasks, Hit(t)
      PROVE  IInv'
  <2>1. TypeOK'
    BY <1>1 DEF Hit, TypeOK
  <2>2. RequestInv'
    BY <1>1 DEF Hit, RequestInv, TypeOK
  <2>3. SnapshotInv'
    BY <1>1 DEF Hit, SnapshotInv, Recent, ApparentAge, TypeOK
  <2> QED
    BY <2>1, <2>2, <2>3
<1>2. ASSUME NEW t \in Tasks, Fetch(t)
      PROVE  IInv'
  <2>1. TypeOK'
    BY <1>2 DEF Fetch, Send, TypeOK
  <2>2. RequestInv'
    BY <1>2 DEF Fetch, Send, RequestInv, TypeOK
  <2>3. SnapshotInv'
    BY <1>2 DEF Fetch, Send, SnapshotInv, Recent, ApparentAge, TypeOK
  <2> QED
    BY <2>1, <2>2, <2>3
<1>3. ASSUME NEW t \in Tasks, TickerArrives(t)
      PROVE  IInv'
  <2>1. PICK at \in Times : /\ since[t] <= at /\ at <= now
                            /\ made' = [made EXCEPT ![t] = at]
    BY <1>3 DEF TickerArrives
  <2>2. TypeOK'
    BY <1>3, <2>1 DEF TickerArrives, Send, TypeOK
  <2>3. RequestInv'
    BY <1>3, <2>1 DEF TickerArrives, Send, RequestInv, TypeOK
  <2>4. SnapshotInv'
    BY <1>3 DEF TickerArrives, Send, SnapshotInv, Recent, ApparentAge, TypeOK
  <2> QED
    BY <2>2, <2>3, <2>4
<1>4. ASSUME NEW t \in Tasks, OhlcvArrives(t)
      PROVE  IInv'
  <2>1. Recent(cache') /\ snap' = [snap EXCEPT ![t] = cache']
    BY <1>4, FetchedRecent
  <2>2. TypeOK'
    BY <1>4, <2>1 DEF OhlcvArrives, Forget, Recent, TypeOK
  <2>3. RequestInv'
    BY <1>4 DEF OhlcvArrives, Forget, RequestInv, TypeOK
  <2>4. SnapshotInv'
    BY <1>4, <2>1 DEF OhlcvArrives, Forget, SnapshotInv, Recent, ApparentAge, TypeOK
  <2> QED
    BY <2>2, <2>3, <2>4
<1>5. ASSUME NEW t \in Tasks, FetchFails(t)
      PROVE  IInv'
  <2>1. TypeOK'
    BY <1>5 DEF FetchFails, Forget, TypeOK
  <2>2. RequestInv'
    BY <1>5 DEF FetchFails, Forget, RequestInv, TypeOK
  <2>3. SnapshotInv'
    BY <1>5 DEF FetchFails, Forget, SnapshotInv, Recent, ApparentAge, TypeOK
  <2> QED
    BY <2>1, <2>2, <2>3
<1>6. ASSUME NEW t \in Tasks, CheckMarket(t)
      PROVE  IInv'
  <2>1. TypeOK'
    BY <1>6 DEF CheckMarket, TypeOK
  <2>2. RequestInv'
    BY <1>6 DEF CheckMarket, RequestInv, TypeOK
  <2>3. SnapshotInv'
    BY <1>6 DEF CheckMarket, SnapshotInv, Recent, ApparentAge, TypeOK
  <2> QED
    BY <2>1, <2>2, <2>3
<1>7. ASSUME NEW t \in Tasks, Finish(t)
      PROVE  IInv'
  <2>1. TypeOK'
    BY <1>7 DEF Finish, TypeOK
  <2>2. RequestInv'
    BY <1>7 DEF Finish, RequestInv, TypeOK
  <2>3. SnapshotInv'
    BY <1>7 DEF Finish, SnapshotInv, Recent, ApparentAge, TypeOK
  <2> QED
    BY <2>1, <2>2, <2>3
<1>8. CASE Tick
  <2>1. TypeOK'
    BY <1>8 DEF Tick, TypeOK
  <2>2. RequestInv'
    BY <1>8 DEF Tick, RequestInv, TypeOK
  <2>3. SnapshotInv'
    <3>1. \A s \in Snapshots : Recent(s) => Recent(s)'
      BY <1>8 DEF Tick, Recent, Snapshots, TypeOK
    <3> QED
      BY <1>8, <3>1 DEF Tick, SnapshotInv, TypeOK
  <2> QED
    BY <2>1, <2>2, <2>3
<1>9. CASE UNCHANGED vars
  BY <1>9 DEF vars, TypeOK, RequestInv, SnapshotInv, Recent, ApparentAge
<1> QED
  BY <1>1, <1>2, <1>3, <1>4, <1>5, <1>6, <1>7, <1>8, <1>9 DEF Next

-----------------------------------------------------------------------------
(* The theorems.                                                           *)

\* The inductive invariant holds in every reachable state.
THEOREM Invariance == Spec => []IInv
  BY Initial, NextKeeps, PTL DEF Spec

\* Every variable of the market data service keeps its type.
THEOREM MarketTypeCorrect == Spec => []TypeOK
<1>1. IInv => TypeOK
  BY DEF IInv
<1> QED
  BY <1>1, Invariance, PTL

\* A price that passes check_market is older than the limit by two requests at
\* most.
THEOREM BoundsPassedAge == Spec => []PassedAgeBounded
<1>1. IInv => PassedAgeBounded
  BY DEF IInv, TypeOK, SnapshotInv, Recent, Snapshots, ApparentAge, Age, PassedAgeBounded
<1> QED
  BY <1>1, Invariance, PTL

\* Overlapping fetches set the cache back by two requests at most.
LEMMA SetbackStep ==
    ASSUME IInv, [Next]_vars, cache' # cache, cache # None
    PROVE  cache'.made >= cache.made - 2 * Latency
<1>1. PICK t \in Tasks : OhlcvArrives(t)
  BY DEF Next, vars, Hit, Fetch, TickerArrives, FetchFails, CheckMarket, Finish, Tick
<1>2. cache'.made = made[t] /\ now - made[t] <= 2 * Latency
  BY <1>1, FetchedRecent
<1>3. cache.made <= now /\ cache.made \in Nat
  BY DEF IInv, TypeOK, SnapshotInv, Recent, Snapshots
<1> QED
  BY <1>2, <1>3 DEF IInv, TypeOK

\* Overlapping fetches set the cache entry back by two requests at most.
THEOREM BoundsCacheSetback == Spec => CacheSetbackBounded
<1>1. IInv /\ [Next]_vars => [cache # None => cache'.made >= cache.made - 2 * Latency]_cache
  BY SetbackStep
<1> QED
  BY <1>1, Invariance, PTL DEF Spec, CacheSetbackBounded

\* A caller is served a price within the age limit and one fetch.
LEMMA ServedStep ==
    ASSUME IInv, Next, NEW t \in Tasks, pc[t] # "served", pc'[t] = "served"
    PROVE  Age(snap'[t]) <= MaxStale + 2 * Latency
<1>1. CASE Hit(t)
  BY <1>1 DEF Hit, IInv, TypeOK, SnapshotInv, Recent, Snapshots, ApparentAge, Age
<1>2. CASE OhlcvArrives(t)
  <2>1. snap'[t].made = made[t] /\ now - made[t] <= 2 * Latency
    BY <1>2, FetchedRecent DEF IInv, TypeOK
  <2> QED
    BY <2>1 DEF IInv, TypeOK, Age
<1>3. Hit(t) \/ OhlcvArrives(t)
  BY DEF Next, Hit, Fetch, Send, TickerArrives, OhlcvArrives, FetchFails, CheckMarket,
         Finish, Tick, IInv, TypeOK
<1> QED
  BY <1>1, <1>2, <1>3

\* What get_snapshot returns is within the age limit and the time of one fetch.
THEOREM BoundsServedAge == Spec => ServedAgeBounded
<1>1. IInv /\ [Next]_vars =>
        [\A t \in Tasks : pc[t] # "served" /\ pc'[t] = "served" =>
            Age(snap'[t]) <= MaxStale + 2 * Latency]_vars
  BY ServedStep
<1> QED
  BY <1>1, Invariance, PTL DEF Spec, ServedAgeBounded
=============================================================================
