--------------------------- MODULE PortfolioProofs ---------------------------
(***************************************************************************)
(* Proofs about Portfolio, for any number of cycles, symbols and fills:    *)
(* its type invariant, that the fills rebuild the paper account, that      *)
(* portfolios put together await by await are real, that live trading      *)
(* submits nothing, and what a pass visits while the list changes.         *)
(*                                                                         *)
(* The sums over symbols and fills are folds over finite sets.  The first  *)
(* part derives induction over sets, from the well-foundedness of strict   *)
(* inclusion, and from it the facts about SumFunctionOnSet used below.     *)
(***************************************************************************)
EXTENDS Portfolio, FiniteSetTheorems, SequenceTheorems, TLAPS

-----------------------------------------------------------------------------
(* Induction.                                                              *)

\* A set that holds every subset of S whose strict subsets it holds, holds all
\* of them: the one of those it misses that is smallest cannot exist.
LEMMA SubsetInduction ==
  ASSUME NEW S, IsFiniteSet(S), NEW G,
         \A T \in SUBSET S : (\A U \in SUBSET T : U # T => U \in G) => T \in G
  PROVE  SUBSET S \subseteq G
  <1> DEFINE missed == {T \in SUBSET S : T \notin G}
  <1>1. IsWellFoundedOn(StrictSubsetOrdering(S), SUBSET S)
    BY FS_StrictSubsetOrderingWellFounded, FS_FiniteSubsetsOfFinite
  <1>2. SUFFICES ASSUME missed # {} PROVE FALSE
    OBVIOUS
  <1>3. missed \subseteq SUBSET S
    OBVIOUS
  <1>4. PICK T \in missed : \A U \in missed : <<U, T>> \notin StrictSubsetOrdering(S)
    <2> HIDE DEF missed
    <2> QED
      BY <1>1, <1>2, <1>3, WFMin
  <1>5. \A U \in SUBSET T : U # T => U \in G
    BY <1>4 DEF StrictSubsetOrdering
  <1> QED
    BY <1>4, <1>5

\* Induction on the natural numbers: the least number that is missed would be
\* the length of a smallest interval.
LEMMA NatSetInduction ==
  ASSUME NEW G, 0 \in G, \A n \in Nat : n \in G => n + 1 \in G
  PROVE  Nat \subseteq G
  <1> SUFFICES ASSUME NEW n \in Nat PROVE n \in G
    OBVIOUS
  <1> DEFINE upto == {T \in SUBSET (0 .. n) : \A m \in 0 .. n : T = 0 .. m => m \in G}
  <1>1. ASSUME NEW T \in SUBSET (0 .. n), \A U \in SUBSET T : U # T => U \in upto
        PROVE  T \in upto
    <2> SUFFICES ASSUME NEW m \in 0 .. n, T = 0 .. m PROVE m \in G
      OBVIOUS
    <2>1. CASE m = 0
      BY <2>1
    <2>2. CASE m # 0
      <3>1. /\ m - 1 \in 0 .. n /\ (m - 1) + 1 = m
            /\ 0 .. (m - 1) \subseteq T /\ 0 .. (m - 1) # T
        BY <2>2
      <3>2. 0 .. (m - 1) \in upto
        BY <1>1, <3>1
      <3> QED
        BY <3>1, <3>2
    <2> QED
      BY <2>1, <2>2
  <1> HIDE DEF upto
  <1>2. SUBSET (0 .. n) \subseteq upto
    <2> DEFINE all == 0 .. n
    <2>1. IsFiniteSet(all)
      BY FS_Interval
    <2>2. \A T \in SUBSET all : (\A U \in SUBSET T : U # T => U \in upto) => T \in upto
      BY <1>1
    <2> HIDE DEF all
    <2>3. SUBSET all \subseteq upto
      BY <2>1, <2>2, SubsetInduction
    <2> QED
      BY <2>3 DEF all
  <1>3. 0 .. n \in upto
    BY <1>2
  <1> QED
    BY <1>3 DEF upto

-----------------------------------------------------------------------------
(* Sums.                                                                   *)

Chosen(T) == CHOOSE x \in T : TRUE

\* The recursion of the fold, and what it means to be a solution of it on S.
SumStep(w, g, T) == IF T = {} THEN 0 ELSE w[Chosen(T)] + g[T \ {Chosen(T)}]
IsSum(w, g, S) == g = [T \in SUBSET S |-> SumStep(w, g, T)]

\* There is one: solutions on the sets of at most n elements extend to those of
\* at most n + 1.
LEMMA SumExists ==
  ASSUME NEW S, IsFiniteSet(S), NEW w
  PROVE  \E g : IsSum(w, g, S)
  <1> DEFINE small(n) == {T \in SUBSET S : Cardinality(T) <= n}
             solved == {n \in Nat : \E g : g = [T \in small(n) |-> SumStep(w, g, T)]}
  <1>1. \A T \in SUBSET S : IsFiniteSet(T) /\ Cardinality(T) \in Nat
    BY FS_Subset, FS_CardinalityType
  <1>2. \A T \in SUBSET S : T # {} =>
          T \ {Chosen(T)} \in SUBSET S /\ Cardinality(T \ {Chosen(T)}) = Cardinality(T) - 1
    BY <1>1, FS_RemoveElement DEF Chosen
  <1>3. 0 \in solved
    <2>1. small(0) = {{}}
      BY <1>1, FS_EmptySet
    <2>2. [T \in {{}} |-> 0] = [T \in {{}} |-> SumStep(w, [U \in {{}} |-> 0], T)]
      BY DEF SumStep
    <2> QED
      BY <2>1, <2>2
  <1>4. ASSUME NEW n \in Nat, n \in solved PROVE n + 1 \in solved
    <2>1. PICK g : g = [T \in small(n) |-> SumStep(w, g, T)]
      BY <1>4
    <2> DEFINE h == [T \in small(n + 1) |-> SumStep(w, g, T)]
    <2>2. \A T \in small(n) : T \in small(n + 1) /\ h[T] = g[T]
      BY <1>1, <2>1
    <2>3. \A T \in small(n + 1) : T # {} => T \ {Chosen(T)} \in small(n)
      BY <1>1, <1>2
    <2>4. \A T \in small(n + 1) : SumStep(w, g, T) = SumStep(w, h, T)
      <3> HIDE DEF h, small
      <3> QED
        BY <2>2, <2>3 DEF SumStep
    <2>5. h = [T \in small(n + 1) |-> SumStep(w, h, T)]
      BY <2>4
    <2>6. \E f : f = [T \in small(n + 1) |-> SumStep(w, f, T)]
      <3> HIDE DEF h, small
      <3> QED
        BY <2>5
    <2> QED
      BY <2>6
  <1>5. Cardinality(S) \in solved
    <2> HIDE DEF solved
    <2> QED
      BY <1>1, <1>3, <1>4, NatSetInduction
  <1>6. small(Cardinality(S)) = SUBSET S
    BY FS_Subset
  <1> QED
    BY <1>5, <1>6 DEF IsSum

\* SumFunctionOnSet is the value of a solution.
LEMMA SumEquation ==
  ASSUME NEW S, IsFiniteSet(S), NEW w
  PROVE  \E g : IsSum(w, g, S) /\ SumFunctionOnSet(w, S) = g[S]
  <1> DEFINE g == CHOOSE h : IsSum(w, h, S)
  <1>1. IsSum(w, g, S)
    BY SumExists
  <1>2. SumFunctionOnSet(w, S) = g[S]
    BY Zenon DEF SumFunctionOnSet, FoldFunctionOnSet, MapThenFoldSet, SumStep, Chosen, IsSum
  <1> QED
    BY <1>1, <1>2

\* Solutions agree on a set both are defined for, if the summands do.
LEMMA SumUnique ==
  ASSUME NEW S, IsFiniteSet(S), NEW w, NEW g, IsSum(w, g, S), NEW T \in SUBSET S,
         NEW v, NEW h, IsSum(v, h, T), \A x \in T : w[x] = v[x]
  PROVE  g[T] = h[T]
  <1> DEFINE agree == {U \in SUBSET T : g[U] = h[U]}
  <1>1. ASSUME NEW U \in SUBSET T, \A V \in SUBSET U : V # U => V \in agree
        PROVE  U \in agree
    <2>1. g[U] = SumStep(w, g, U) /\ h[U] = SumStep(v, h, U)
      BY DEF IsSum
    <2>2. CASE U = {}
      BY <2>1, <2>2 DEF SumStep
    <2>3. CASE U # {}
      <3>1. Chosen(U) \in U
        BY <2>3 DEF Chosen
      <3>2. U \ {Chosen(U)} \in agree
        BY <1>1, <3>1
      <3> QED
        BY <2>1, <2>3, <3>1, <3>2 DEF SumStep
    <2> QED
      BY <2>2, <2>3
  <1>2. SUBSET T \subseteq agree
    <2>1. IsFiniteSet(T)
      BY FS_Subset
    <2> HIDE DEF agree
    <2> QED
      BY <1>1, <2>1, SubsetInduction
  <1> QED
    BY <1>2

\* A sum depends on nothing but its summands.
LEMMA SumSame ==
  ASSUME NEW S, IsFiniteSet(S), NEW w, NEW v, \A x \in S : w[x] = v[x]
  PROVE  SumFunctionOnSet(w, S) = SumFunctionOnSet(v, S)
  <1>1. PICK g : IsSum(w, g, S) /\ SumFunctionOnSet(w, S) = g[S]
    BY SumEquation
  <1>2. PICK h : IsSum(v, h, S) /\ SumFunctionOnSet(v, S) = h[S]
    BY SumEquation
  <1> QED
    BY <1>1, <1>2, SumUnique

\* A solution on S has the sums over all its subsets.
LEMMA SumOfSubset ==
  ASSUME NEW S, IsFiniteSet(S), NEW w, NEW g, IsSum(w, g, S), NEW T \in SUBSET S
  PROVE  g[T] = SumFunctionOnSet(w, T)
  <1>1. IsFiniteSet(T)
    BY FS_Subset
  <1>2. PICK h : IsSum(w, h, T) /\ SumFunctionOnSet(w, T) = h[T]
    BY <1>1, SumEquation
  <1> QED
    BY <1>2, SumUnique

\* The sum of no summands.
LEMMA SumEmpty ==
  ASSUME NEW w PROVE SumFunctionOnSet(w, {}) = 0
  <1>1. PICK g : IsSum(w, g, {}) /\ SumFunctionOnSet(w, {}) = g[{}]
    BY SumEquation, FS_EmptySet
  <1> QED
    BY <1>1 DEF IsSum, SumStep

\* A sum of integers is an integer.
LEMMA SumInt ==
  ASSUME NEW S, IsFiniteSet(S), NEW w, \A x \in S : w[x] \in Int
  PROVE  SumFunctionOnSet(w, S) \in Int
  <1>1. PICK g : IsSum(w, g, S) /\ SumFunctionOnSet(w, S) = g[S]
    BY SumEquation
  <1> DEFINE typed == {T \in SUBSET S : g[T] \in Int}
  <1>2. ASSUME NEW T \in SUBSET S, \A U \in SUBSET T : U # T => U \in typed
        PROVE  T \in typed
    <2>1. g[T] = SumStep(w, g, T)
      BY <1>1 DEF IsSum
    <2>2. CASE T = {}
      BY <2>1, <2>2 DEF SumStep
    <2>3. CASE T # {}
      <3>1. Chosen(T) \in T
        BY <2>3 DEF Chosen
      <3>2. T \ {Chosen(T)} \in typed
        BY <1>2, <3>1
      <3> QED
        BY <2>1, <2>3, <3>1, <3>2 DEF SumStep
    <2> QED
      BY <2>2, <2>3
  <1>3. SUBSET S \subseteq typed
    <2> HIDE DEF typed
    <2> QED
      BY <1>2, SubsetInduction
  <1> QED
    BY <1>1, <1>3

\* One summand more, whichever the fold takes first.
LEMMA SumAdd ==
  ASSUME NEW T, IsFiniteSet(T), NEW x, x \notin T, NEW w,
         \A y \in T \cup {x} : w[y] \in Int
  PROVE  SumFunctionOnSet(w, T \cup {x}) = SumFunctionOnSet(w, T) + w[x]
  <1> DEFINE S == T \cup {x}
  <1>1. IsFiniteSet(S)
    BY FS_AddElement
  <1>2. PICK g : IsSum(w, g, S) /\ SumFunctionOnSet(w, S) = g[S]
    BY <1>1, SumEquation
  <1>3. \A U \in SUBSET S : g[U] = SumStep(w, g, U) /\ g[U] \in Int
    <2>1. \A U \in SUBSET S : IsFiniteSet(U) /\ g[U] = SumFunctionOnSet(w, U)
      BY <1>1, <1>2, FS_Subset, SumOfSubset
    <2>2. \A U \in SUBSET S : g[U] \in Int
      BY <2>1, SumInt
    <2> QED
      BY <1>2, <2>2 DEF IsSum
  <1> DEFINE good == {U \in SUBSET S : \A y \in S \ U : g[U \cup {y}] = g[U] + w[y]}
  <1>4. ASSUME NEW U \in SUBSET S, \A V \in SUBSET U : V # U => V \in good
        PROVE  U \in good
    <2> SUFFICES ASSUME NEW y \in S \ U PROVE g[U \cup {y}] = g[U] + w[y]
      OBVIOUS
    <2> DEFINE c == Chosen(U \cup {y})
    <2>1. c \in U \cup {y}
      BY DEF Chosen
    <2>2. g[U \cup {y}] = w[c] + g[(U \cup {y}) \ {c}]
      BY <1>3 DEF SumStep
    <2>3. w[c] \in Int /\ w[y] \in Int /\ g[U] \in Int
      BY <1>3, <2>1
    <2>4. CASE c = y
      <3>1. (U \cup {y}) \ {c} = U
        BY <2>4
      <3>2. g[U \cup {y}] = w[y] + g[U]
        BY <2>2, <2>4, <3>1
      <3> QED
        BY <2>3, <3>2
    <2>5. CASE c # y
      <3> DEFINE V == U \ {c}
      <3>1. c \in U /\ V \in good /\ g[V] \in Int
        BY <1>3, <1>4, <2>1, <2>5
      <3>2. (U \cup {y}) \ {c} = V \cup {y} /\ V \cup {c} = U
        BY <2>5, <3>1
      <3>3. g[V \cup {y}] = g[V] + w[y]
        BY <2>5, <3>1
      <3>4. g[V \cup {c}] = g[V] + w[c]
        BY <3>1
      <3>5. g[U] = g[V] + w[c] /\ g[U \cup {y}] = w[c] + g[V \cup {y}]
        BY <2>2, <3>2, <3>4
      <3> HIDE DEF c, V
      <3> QED
        BY <2>3, <3>1, <3>3, <3>5
    <2> QED
      BY <2>4, <2>5
  <1>5. SUBSET S \subseteq good
    <2> HIDE DEF good, S
    <2> QED
      BY <1>1, <1>4, SubsetInduction
  <1>6. g[T \cup {x}] = g[T] + w[x] /\ g[T] = SumFunctionOnSet(w, T)
    BY <1>1, <1>2, <1>5, SumOfSubset
  <1> QED
    BY <1>2, <1>6

\* A sum of zeros.
LEMMA SumZero ==
  ASSUME NEW S, IsFiniteSet(S), NEW w, \A x \in S : w[x] = 0
  PROVE  SumFunctionOnSet(w, S) = 0
  <1> DEFINE zero == {T \in SUBSET S : SumFunctionOnSet(w, T) = 0}
  <1>1. ASSUME NEW T \in SUBSET S, \A U \in SUBSET T : U # T => U \in zero
        PROVE  T \in zero
    <2>1. CASE T = {}
      BY <2>1, SumEmpty
    <2>2. CASE T # {}
      <3>1. PICK x \in T : TRUE
        BY <2>2
      <3> DEFINE U == T \ {x}
      <3>2. U \in zero /\ U \cup {x} = T /\ x \notin U /\ IsFiniteSet(U)
        BY <1>1, <3>1, FS_Subset
      <3>3. SumFunctionOnSet(w, U \cup {x}) = SumFunctionOnSet(w, U) + w[x]
        <4> HIDE DEF U, zero
        <4> QED
          BY <3>2, SumAdd
      <3> QED
        BY <3>2, <3>3
    <2> QED
      BY <2>1, <2>2
  <1>2. SUBSET S \subseteq zero
    <2> HIDE DEF zero
    <2> QED
      BY <1>1, SubsetInduction
  <1> QED
    BY <1>2

-----------------------------------------------------------------------------
(* Types.                                                                  *)

\* What RemoveFirst leaves of a list without duplicates.
LEMMA RemoveFirstFacts ==
  ASSUME NEW S, NEW q \in Seq(S), IsInjective(q), NEW i \in 1 .. Len(q)
  PROVE  LET r == RemoveFirst(q, q[i])
         IN  /\ r \in Seq(S) /\ Len(r) = Len(q) - 1
             /\ \A j \in 1 .. Len(q) - 1 : r[j] = IF j < i THEN q[j] ELSE q[j + 1]
  <1>1. {j \in 1 .. Len(q) : q[j] = q[i]} = {i}
    BY DEF IsInjective
  <1>2. SelectInSeq(q, LAMBDA v : v = q[i]) = i
    <2>1. Min({i}) = i
      BY DEF Min
    <2> QED
      BY <1>1, <2>1 DEF SelectInSeq
  <1> DEFINE a == SubSeq(q, 1, i - 1)
             b == SubSeq(q, i + 1, Len(q))
  <1>3. RemoveFirst(q, q[i]) = a \o b
    BY <1>2 DEF RemoveFirst, RemoveAt
  <1>4. /\ a \in Seq(S) /\ Len(a) = i - 1
        /\ \A j \in 1 .. i - 1 : a[j] = q[j]
    OBVIOUS
  <1>5. /\ b \in Seq(S) /\ Len(b) = Len(q) - i
        /\ \A j \in 1 .. Len(q) - i : b[j] = q[i + j]
    OBVIOUS
  <1> HIDE DEF a, b
  <1>6. /\ a \o b \in Seq(S) /\ Len(a \o b) = Len(q) - 1
        /\ \A j \in 1 .. Len(q) - 1 : (a \o b)[j] = IF j < i THEN a[j] ELSE b[j - (i - 1)]
    <2>1. /\ a \o b \in Seq(S) /\ Len(a \o b) = Len(a) + Len(b)
          /\ \A j \in 1 .. Len(a) + Len(b) :
               (a \o b)[j] = IF j <= Len(a) THEN a[j] ELSE b[j - Len(a)]
      BY <1>4, <1>5, ConcatProperties
    <2> QED
      BY <1>4, <1>5, <2>1
  <1>7. ASSUME NEW j \in 1 .. Len(q) - 1
        PROVE  (a \o b)[j] = IF j < i THEN q[j] ELSE q[j + 1]
    <2>1. CASE j < i
      BY <1>4, <1>6, <2>1
    <2>2. CASE ~(j < i)
      <3>1. j - (i - 1) \in 1 .. Len(q) - i /\ i + (j - (i - 1)) = j + 1
        BY <2>2
      <3> QED
        BY <1>5, <1>6, <2>2, <3>1
    <2> QED
      BY <2>1, <2>2
  <1> QED
    BY <1>3, <1>6, <1>7

\* The order of a fill.
LEMMA OrderTypes ==
  ASSUME NEW order \in Orders, NEW p \in Prices
  PROVE  /\ order.symbol \in Symbols /\ order.signal \in {"long", "short"}
         /\ order.quantity \in Nat /\ p \in Nat
         /\ Signed(order) \in Int /\ Signed(order) * p \in Int
  <1>1. /\ order.symbol \in Symbols /\ order.signal \in {"long", "short"}
        /\ order.quantity \in Nat /\ p \in Nat
    BY TasksAssumption DEF Orders
  <1> QED
    BY <1>1 DEF Signed

\* Each balance after a fill.
LEMMA FillBalances ==
  ASSUME acct \in Account, NEW order \in Orders, NEW p \in Prices
  PROVE  LET after == ApplyPaperFill(acct, order, p).balances
         IN  /\ after \in [Assets -> Int]
             /\ \A a \in Assets :
                  after[a] = acct.balances[a]
                               - (IF a = "USDT" THEN Signed(order) * p ELSE 0)
                               + (IF a = BaseAsset[order.symbol] THEN Signed(order) ELSE 0)
  <1> DEFINE paid == [acct.balances EXCEPT !["USDT"] = @ - Signed(order) * p]
             after == [paid EXCEPT ![BaseAsset[order.symbol]] = @ + Signed(order)]
  <1>1. /\ acct.balances \in [Assets -> Int]
        /\ BaseAsset[order.symbol] \in Assets
        /\ Signed(order) \in Int /\ Signed(order) * p \in Int
    BY OrderTypes DEF Account, Assets
  <1>2. /\ paid \in [Assets -> Int]
        /\ \A a \in Assets :
             paid[a] = acct.balances[a] - IF a = "USDT" THEN Signed(order) * p ELSE 0
    <2> DEFINE less == Signed(order) * p
    <2>1. less \in Int /\ paid = [acct.balances EXCEPT !["USDT"] = @ - less]
      BY <1>1
    <2>2. "USDT" \in Assets /\ \A a \in Assets : acct.balances[a] \in Int
      BY <1>1 DEF Assets
    <2> HIDE DEF less, paid
    <2>3. \A a \in Assets : paid[a] = IF a = "USDT" THEN acct.balances[a] - less ELSE acct.balances[a]
      BY <1>1, <2>1
    <2>4. paid \in [Assets -> Int]
      BY <1>1, <2>1, <2>2
    <2> QED
      BY <2>1, <2>2, <2>3, <2>4 DEF less
  <1>3. /\ after \in [Assets -> Int]
        /\ \A a \in Assets :
             after[a] = paid[a] + IF a = BaseAsset[order.symbol] THEN Signed(order) ELSE 0
    <2> HIDE DEF paid
    <2> QED
      BY <1>1, <1>2
  <1>4. ApplyPaperFill(acct, order, p).balances = after
    BY DEF ApplyPaperFill
  <1> HIDE DEF paid, after
  <1> QED
    BY <1>1, <1>2, <1>3, <1>4

\* The account after a fill.
LEMMA FillType ==
  ASSUME acct \in Account, NEW order \in Orders, NEW p \in Prices
  PROVE  ApplyPaperFill(acct, order, p) \in Account
  <1> DEFINE after == ApplyPaperFill(acct, order, p)
  <1>1. after.balances \in [Assets -> Int]
    BY FillBalances, OrderTypes DEF Account
  <1>2. after.pos \in [Symbols -> Position]
    BY OrderTypes DEF ApplyPaperFill, Account, Position, NoPosition
  <1> QED
    BY <1>1, <1>2 DEF ApplyPaperFill, Account

\* Positions are worth an integer.
LEMMA NotionalInt ==
  ASSUME NEW pos \in [Symbols -> Position]
  PROVE  Notional(pos) \in Int
  <1> DEFINE w == [s \in Symbols |-> pos[s].quantity * pos[s].entry]
  <1>1. \A s \in Symbols : w[s] \in Int
    BY DEF Position
  <1>2. SumFunctionOnSet(w, Symbols) \in Int
    <2> HIDE DEF w
    <2> QED
      BY <1>1, PaperAssumption, SumInt
  <1> QED
    BY <1>2 DEF Notional, SumFunction

\* No positions are worth nothing.
LEMMA NothingIsWorthNothing == Notional(NoView.pos) = 0
  <1> DEFINE w == [s \in Symbols |-> NoView.pos[s].quantity * NoView.pos[s].entry]
  <1>1. \A s \in Symbols : w[s] = 0
    BY DEF NoView, NoPosition
  <1>2. SumFunctionOnSet(w, Symbols) = 0
    <2> HIDE DEF w
    <2> QED
      BY <1>1, PaperAssumption, SumZero
  <1> QED
    BY <1>2 DEF Notional, SumFunction

\* The cash is an integer.
LEMMA CashInt ==
  ASSUME NEW a \in Account PROVE Usdt(a) \in Int
  BY DEF Account, Usdt, Assets

Labels == {"idle", "scan", "fetch", "record", "marks", "judge"}
View == [equity : Int, usdt : Int, pos : [Symbols -> Position], left : Nat]
Fill == [order : Orders, price : Prices]

\* The types of what a capture writes.
LEMMA CaptureType ==
  ASSUME TypeOK, NEW o \in Observers, Capture(o)
  PROVE  view' \in [Observers -> View] /\ cash' \in [Observers -> SUBSET Int]
  <1>1. NoView \in View
    BY DEF NoView, View, Position, NoPosition
  <1>2. Usdt(acct) \in Int /\ acct.pos \in [Symbols -> Position]
    BY CashInt DEF TypeOK, Account
  <1>3. PaperEquity(acct) \in Int
    BY <1>2, NotionalInt DEF PaperEquity
  <1>4. Cardinality(Held) \in Nat
    BY PaperAssumption, FS_Subset, FS_CardinalityType DEF Held
  <1> QED
    BY <1>1, <1>2, <1>3, <1>4 DEF Capture, TypeOK, View

\* The types hold in the beginning.
LEMMA InitTypeOK == Init => TypeOK
  <1> SUFFICES ASSUME Init PROVE TypeOK
    OBVIOUS
  <1>1. subs \in Seq(Symbols) /\ IsInjective(subs)
    <2>1. Cardinality(Symbols) \in Nat
      BY PaperAssumption, FS_CardinalityType
    <2> QED
      BY <2>1 DEF Init, BoundedSeq, SeqOf
  <1>2. acct \in Account
    BY PaperAssumption DEF Init, FreshAccount, Account, Position, NoPosition
  <1>3. view \in [Observers -> View]
    BY DEF Init, NoView, View, Position, NoPosition
  <1>4. fills \in Seq(Fill)
    BY DEF Init
  <1> QED
    BY <1>1, <1>2, <1>3, <1>4 DEF Init, TypeOK, View, Fill

\* A list that changes stays one without duplicates.
LEMMA ListTypeOK ==
  ASSUME TypeOK, NEW s \in Symbols, Subscribe(s) \/ Unsubscribe(s)
  PROVE  TypeOK'
  <1>1. CASE Subscribe(s)
    <2>1. subs' \in Seq(Symbols) /\ IsInjective(subs')
      BY <1>1 DEF Subscribe, TypeOK, Contains, IsInjective
    <2> QED
      BY <1>1, <2>1 DEF Subscribe, TypeOK, account, scan, look
  <1>2. CASE Unsubscribe(s)
    <2>1. PICK i \in 1 .. Len(subs) : subs[i] = s
      BY <1>2 DEF Unsubscribe, Contains
    <2>2. /\ subs' \in Seq(Symbols) /\ Len(subs') = Len(subs) - 1
          /\ \A j \in 1 .. Len(subs) - 1 :
               subs'[j] = IF j < i THEN subs[j] ELSE subs[j + 1]
      BY <1>2, <2>1, RemoveFirstFacts DEF Unsubscribe, TypeOK
    <2>3. IsInjective(subs')
      <3> SUFFICES ASSUME NEW a \in 1 .. Len(subs) - 1, NEW b \in 1 .. Len(subs) - 1,
                          subs'[a] = subs'[b]
                   PROVE  a = b
        BY <2>2 DEF IsInjective
      <3>1. (IF a < i THEN a ELSE a + 1) = (IF b < i THEN b ELSE b + 1)
        <4> DEFINE x == IF a < i THEN a ELSE a + 1
                   y == IF b < i THEN b ELSE b + 1
        <4> HIDE DEF TypeOK
        <4>1. /\ x \in DOMAIN subs /\ y \in DOMAIN subs
              /\ subs[x] = subs'[a] /\ subs[y] = subs'[b]
          <5>1. Len(subs) \in Nat /\ DOMAIN subs = 1 .. Len(subs)
            BY DEF TypeOK
          <5>2. x \in DOMAIN subs /\ subs[x] = subs'[a]
            BY <2>2, <5>1
          <5>3. y \in DOMAIN subs /\ subs[y] = subs'[b]
            BY <2>2, <5>1
          <5> QED
            BY <5>2, <5>3
        <4> HIDE DEF x, y
        <4>2. x = y
          BY <4>1 DEF TypeOK, IsInjective
        <4> QED
          BY <4>2 DEF x, y
      <3> QED
        BY <3>1
    <2>4. stayed' \in [Scanners -> SUBSET Symbols] /\ removals' \in [Scanners -> Nat]
      BY <1>2 DEF Unsubscribe, TypeOK
    <2> QED
      BY <1>2, <2>2, <2>3, <2>4 DEF Unsubscribe, TypeOK, account, look
  <1> QED
    BY <1>1, <1>2

\* A pass through the list.
LEMMA ScanTypeOK ==
  ASSUME TypeOK, NEW k \in Scanners,
         Begin(k) \/ NextSymbol(k) \/ FetchFails(k) \/ Abort(k)
           \/ (k = Stream /\ (StreamFetched \/ StreamRecorded))
  PROVE  TypeOK'
  <1>0. NoView \in View
    BY DEF NoView, View, Position, NoPosition
  <1>1. CASE Begin(k)
    BY <1>1 DEF Begin, Goto, TypeOK, account, look, ToSet, Scanners
  <1>2. CASE NextSymbol(k)
    <2>1. CASE index[k] < Len(subs)
      <3>1. subs[index[k] + 1] \in Symbols
        BY <2>1 DEF TypeOK
      <3>2. Yield(k, subs[index[k] + 1]) /\ UNCHANGED <<paper, subs, account, look>>
        BY <1>2, <2>1 DEF NextSymbol
      <3> QED
        BY <3>1, <3>2 DEF Yield, Goto, TypeOK, account, look
    <2>2. CASE ~(index[k] < Len(subs))
      <3>1. EndPass(k) /\ UNCHANGED <<paper, subs, account, look>>
        BY <1>2, <2>2 DEF NextSymbol
      <3> QED
        BY <3>1 DEF EndPass, Goto, TypeOK, account, look
    <2> QED
      BY <2>1, <2>2
  <1>3. CASE FetchFails(k)
    BY <1>3 DEF FetchFails, Goto, TypeOK, account, scan, look
  <1>4. CASE Abort(k)
    BY <1>0, <1>4 DEF Abort, EndPass, Forget, Goto, TypeOK, account, look, View
  <1>5. CASE k = Stream /\ (StreamFetched \/ StreamRecorded)
    BY <1>5 DEF StreamFetched, StreamRecorded, Goto, TypeOK, account, scan, look
  <1> QED
    BY <1>1, <1>2, <1>3, <1>4, <1>5

\* Portfolios, and what is done with them.
LEMMA LookTypeOK ==
  ASSUME TypeOK, NEW o \in Observers,
         \/ o \in Cycles /\ CycleStep(o)
         \/ o = Snapshots /\ SnapshotStep
  PROVE  TypeOK'
  <1>0. NoView \in View
    BY DEF NoView, View, Position, NoPosition
  <1> DEFINE tasks == Scanners \cup Observers
  <1>1. CASE (o \in Cycles /\ LookAtPortfolio(o)) \/ (o = Snapshots /\ TakeSnapshot)
    <2>1. Capture(o) /\ pc' = [pc EXCEPT ![o] = "marks"]
      BY <1>1 DEF LookAtPortfolio, TakeSnapshot, Goto
    <2>2. view' \in [Observers -> View] /\ cash' \in [Observers -> SUBSET Int]
      BY <2>1, CaptureType
    <2> QED
      BY <1>1, <2>1, <2>2
      DEF LookAtPortfolio, TakeSnapshot, TypeOK, account, scan, View
  <1>2. CASE Mark(o)
    <2>1. view' = [view EXCEPT ![o].left = view[o].left - 1] /\ view[o].left - 1 \in Nat
      BY <1>2 DEF Mark, TypeOK
    <2>2. view' \in [Observers -> View]
      BY <2>1 DEF TypeOK, View
    <2> QED
      BY <1>2, <2>2 DEF Mark, TypeOK, account, scan, View
  <1>3. CASE o \in Cycles /\ Marked(o)
    <2>1. /\ view' = [view EXCEPT ![o].usdt = IF paper THEN Usdt(acct) ELSE 0]
          /\ (IF paper THEN Usdt(acct) ELSE 0) \in Int
      BY <1>3, CashInt DEF Marked, TypeOK
    <2>2. view' \in [Observers -> View]
      BY <2>1 DEF TypeOK, View
    <2> QED
      BY <1>3, <2>2 DEF Marked, Goto, TypeOK, account, scan, View
  <1>4. CASE o \in Cycles /\ Trade(o)
    <2>1. PICK order \in Orders, p \in Prices :
            /\ acct' = ApplyPaperFill(acct, order, p)
            /\ fills' = Append(fills, [order |-> order, price |-> p])
            /\ cash' = [c \in Observers |->
                          IF c = o \/ cash[c] = {} THEN {} ELSE cash[c] \cup {Usdt(acct)'}]
      BY <1>4 DEF Trade
    <2>2. acct' \in Account
      BY <2>1, FillType DEF TypeOK
    <2>3. fills' \in Seq(Fill)
      BY <2>1 DEF TypeOK, Fill
    <2>4. cash' \in [Observers -> SUBSET Int]
      <3>1. Usdt(acct') \in Int
        BY <2>2, CashInt
      <3> QED
        BY <2>1, <3>1 DEF TypeOK
    <2>5. view' \in [Observers -> View]
      BY <1>0, <1>4 DEF Trade, TypeOK, View
    <2> QED
      BY <1>4, <2>2, <2>3, <2>4, <2>5 DEF Trade, Goto, TypeOK, scan, Fill, View
  <1>5. CASE o \in Cycles /\ NoTrade(o)
    BY <1>0, <1>5 DEF NoTrade, Forget, Goto, TypeOK, account, scan, View
  <1>6. CASE o = Snapshots /\ SnapshotMarked
    BY <1>6 DEF SnapshotMarked, Goto, TypeOK, account, scan, look
  <1>7. CASE o = Snapshots /\ EndSnapshot
    BY <1>0, <1>7 DEF EndSnapshot, Forget, Goto, TypeOK, account, scan, View
  <1> QED
    BY <1>1, <1>2, <1>3, <1>4, <1>5, <1>6, <1>7 DEF CycleStep, SnapshotStep

\* Every step is one of the list, of a pass, or of a portfolio.
LEMMA NextCases ==
  ASSUME Next
  PROVE  \/ \E s \in Symbols : Subscribe(s) \/ Unsubscribe(s)
         \/ \E k \in Scanners :
              \/ Begin(k) \/ NextSymbol(k) \/ FetchFails(k) \/ Abort(k)
              \/ k = Stream /\ (StreamFetched \/ StreamRecorded)
         \/ \E o \in Observers :
              (o \in Cycles /\ CycleStep(o)) \/ (o = Snapshots /\ SnapshotStep)
  BY DEF Next, ScanStep, Observers

\* Variables keep their types.
THEOREM TypeCorrect == Spec => []TypeOK
  <1>1. TypeOK /\ [Next]_vars => TypeOK'
    <2> SUFFICES ASSUME TypeOK, [Next]_vars PROVE TypeOK'
      OBVIOUS
    <2>1. CASE Next
      BY <2>1, NextCases, ListTypeOK, ScanTypeOK, LookTypeOK
    <2>2. CASE UNCHANGED vars
      BY <2>2 DEF vars, account, scan, look, TypeOK
    <2> QED
      BY <2>1, <2>2
  <1> QED
    BY InitTypeOK, <1>1, PTL DEF Spec

-----------------------------------------------------------------------------
(* Portfolios.                                                             *)

Coherent(v) == v.equity = v.usdt + Notional(v.pos)

\* From its look on, what a cycle knows of the account is among the balances since
\* then, and so is the balance of now.
RealSoFar(k) ==
    paper =>
        /\ pc[k] \in {"marks", "judge"} =>
            Usdt(acct) \in cash[k] /\ view[k].equity - Notional(view[k].pos) \in cash[k]
        /\ pc[k] = "judge" => view[k].usdt \in cash[k]

LookInv ==
    /\ ~paper => fills = <<>> /\ \A o \in Observers : view[o].equity = 0
    /\ pc[Snapshots] \in {"marks", "record"} => Coherent(view[Snapshots])
    /\ \A k \in Cycles : RealSoFar(k)

\* Nobody looks at the account in the beginning.
LEMMA InitLookInv == Init => LookInv
  BY TasksAssumption DEF Init, LookInv, RealSoFar, NoView, Scanners, Observers

\* A pass looks at nothing, and a cycle that ends has nothing left to look at.
LEMMA ScanLookInv ==
  ASSUME TypeOK, LookInv, NEW k \in Scanners,
         Begin(k) \/ NextSymbol(k) \/ FetchFails(k) \/ Abort(k)
           \/ (k = Stream /\ (StreamFetched \/ StreamRecorded))
  PROVE  LookInv'
  <1>1. k # Snapshots /\ Snapshots \in Observers /\ Cycles \subseteq Observers
    BY TasksAssumption DEF Scanners, Observers
  <1>2. /\ UNCHANGED <<paper, acct, fills>>
        /\ pc' = [pc EXCEPT ![k] = pc'[k]]
        /\ pc'[k] \in {"idle", "scan", "fetch", "record"}
    BY DEF Begin, NextSymbol, Yield, EndPass, FetchFails, Abort, StreamFetched,
           StreamRecorded, Goto, TypeOK, account
  <1>3. \/ UNCHANGED look
        \/ Forget(k)
    BY DEF Begin, NextSymbol, FetchFails, Abort, StreamFetched, StreamRecorded
  <1>4. \A o \in Observers :
          /\ o # k => view'[o] = view[o] /\ cash'[o] = cash[o]
          /\ view'[o] = view[o] \/ view'[o] = NoView
    BY <1>3 DEF Forget, look, TypeOK
  <1>5. (~paper => fills = <<>> /\ \A o \in Observers : view[o].equity = 0)'
    BY <1>2, <1>4 DEF LookInv, NoView
  <1>6. (pc[Snapshots] \in {"marks", "record"} => Coherent(view[Snapshots]))'
    BY <1>1, <1>2, <1>4 DEF LookInv, Coherent, Notional, TypeOK
  <1>7. ASSUME NEW c \in Cycles PROVE RealSoFar(c)'
    BY <1>1, <1>2, <1>4 DEF LookInv, RealSoFar, Notional, TypeOK
  <1> QED
    BY <1>5, <1>6, <1>7 DEF LookInv

\* What a capture finds is the account of this moment.
LEMMA CaptureFacts ==
  ASSUME TypeOK, NEW o \in Observers, Capture(o)
  PROVE  /\ ~paper => view'[o] = NoView
         /\ Coherent(view'[o])
         /\ cash'[o] = {Usdt(acct)}
         /\ paper => view'[o].equity - Notional(view'[o].pos) = Usdt(acct)
  <1>1. Usdt(acct) \in Int /\ Notional(acct.pos) \in Int
    BY CashInt, NotionalInt DEF TypeOK, Account
  <1>2. cash'[o] = {Usdt(acct)}
    BY DEF Capture, TypeOK
  <1>3. CASE paper
    <2>1. /\ view'[o].usdt = Usdt(acct) /\ view'[o].pos = acct.pos
          /\ view'[o].equity = Usdt(acct) + Notional(acct.pos)
      BY <1>3 DEF Capture, TypeOK, PaperEquity
    <2> QED
      BY <1>1, <1>2, <1>3, <2>1 DEF Coherent
  <1>4. CASE ~paper
    <2>1. view'[o] = NoView
      BY <1>4 DEF Capture, TypeOK
    <2>2. Coherent(NoView)
      BY NothingIsWorthNothing DEF Coherent, NoView
    <2> QED
      BY <1>2, <1>4, <2>1, <2>2
  <1> QED
    BY <1>3, <1>4

\* Each await of an observer, and what other cycles trade meanwhile.
LEMMA LookLookInv ==
  ASSUME TypeOK, LookInv, NEW o \in Observers,
         \/ o \in Cycles /\ CycleStep(o)
         \/ o = Snapshots /\ SnapshotStep
  PROVE  LookInv'
  <1>0. Snapshots \notin Cycles /\ Snapshots \in Observers /\ Cycles \subseteq Observers
    BY TasksAssumption DEF Observers
  <1>1. CASE (o \in Cycles /\ LookAtPortfolio(o)) \/ (o = Snapshots /\ TakeSnapshot)
    <2>1. Capture(o) /\ pc' = [pc EXCEPT ![o] = "marks"] /\ UNCHANGED <<paper, acct, fills>>
      BY <1>1 DEF LookAtPortfolio, TakeSnapshot, Goto, account
    <2>2. \A p \in Observers \ {o} : view'[p] = view[p] /\ cash'[p] = cash[p]
      BY <2>1 DEF Capture, TypeOK
    <2>3. (~paper => fills = <<>> /\ \A p \in Observers : view[p].equity = 0)'
      BY <2>1, <2>2, CaptureFacts DEF LookInv, NoView
    <2>4. (pc[Snapshots] \in {"marks", "record"} => Coherent(view[Snapshots]))'
      BY <1>0, <2>1, <2>2, CaptureFacts DEF LookInv, Coherent, TypeOK
    <2>5. ASSUME NEW c \in Cycles PROVE RealSoFar(c)'
      <3>1. CASE c = o
        BY <2>1, <3>1, CaptureFacts DEF RealSoFar, TypeOK
      <3>2. CASE c # o
        BY <1>0, <2>1, <2>2, <3>2 DEF LookInv, RealSoFar, TypeOK
      <3> QED
        BY <3>1, <3>2
    <2> QED
      BY <2>3, <2>4, <2>5 DEF LookInv
  <1>2. CASE Mark(o)
    <2>1. \A p \in Observers : /\ view'[p].equity = view[p].equity
                               /\ view'[p].usdt = view[p].usdt
                               /\ view'[p].pos = view[p].pos
      BY <1>2 DEF Mark, TypeOK
    <2> QED
      BY <1>0, <1>2, <2>1
      DEF Mark, LookInv, RealSoFar, Coherent, account
  <1>3. CASE o \in Cycles /\ Marked(o)
    <2>1. /\ \A p \in Observers : /\ view'[p].equity = view[p].equity
                                  /\ view'[p].pos = view[p].pos
          /\ \A p \in Observers \ {o} : view'[p] = view[p]
          /\ paper => view'[o].usdt = Usdt(acct)
      BY <1>3 DEF Marked, TypeOK
    <2>2. /\ UNCHANGED <<paper, acct, fills, cash>>
          /\ pc[o] = "marks" /\ pc' = [pc EXCEPT ![o] = "judge"]
      BY <1>3 DEF Marked, Goto, account
    <2>3. (~paper => fills = <<>> /\ \A p \in Observers : view[p].equity = 0)'
      BY <2>1, <2>2 DEF LookInv
    <2>4. (pc[Snapshots] \in {"marks", "record"} => Coherent(view[Snapshots]))'
      BY <1>0, <1>3, <2>1, <2>2 DEF LookInv, Coherent, TypeOK
    <2>5. ASSUME NEW c \in Cycles PROVE RealSoFar(c)'
      BY <1>0, <2>1, <2>2 DEF LookInv, RealSoFar, TypeOK
    <2> QED
      BY <2>3, <2>4, <2>5 DEF LookInv
  <1>4. CASE o \in Cycles /\ Trade(o)
    <2>1. /\ paper' = paper /\ pc' = [pc EXCEPT ![o] = "scan"]
          /\ view[o].equity > 0
          /\ \A p \in Observers : view'[p] = IF p = o THEN NoView ELSE view[p]
      BY <1>4 DEF Trade, Goto, Tradable, TypeOK
    <2>2. \A p \in Observers \ {o} :
            cash'[p] = IF cash[p] = {} THEN {} ELSE cash[p] \cup {Usdt(acct)'}
      BY <1>4 DEF Trade
    <2>3. paper
      BY <2>1 DEF LookInv
    <2>4. (pc[Snapshots] \in {"marks", "record"} => Coherent(view[Snapshots]))'
      BY <1>0, <1>4, <2>1 DEF LookInv, Coherent, TypeOK
    <2>5. ASSUME NEW c \in Cycles PROVE RealSoFar(c)'
      <3>1. CASE c = o
        BY <2>1, <3>1 DEF RealSoFar, TypeOK
      <3>2. CASE c # o
        BY <1>0, <2>1, <2>2, <2>3, <3>2 DEF LookInv, RealSoFar, TypeOK
      <3> QED
        BY <3>1, <3>2
    <2> QED
      BY <2>1, <2>3, <2>4, <2>5 DEF LookInv
  <1>5. CASE (o \in Cycles /\ NoTrade(o)) \/ (o = Snapshots /\ EndSnapshot)
    <2>1. /\ UNCHANGED <<paper, acct, fills>>
          /\ pc'[o] \in {"scan", "idle"} /\ pc' = [pc EXCEPT ![o] = pc'[o]]
          /\ \A p \in Observers : view'[p] = IF p = o THEN NoView ELSE view[p]
          /\ \A p \in Observers : cash'[p] = IF p = o THEN {} ELSE cash[p]
      BY <1>5 DEF NoTrade, EndSnapshot, Forget, Goto, TypeOK, account
    <2>2. (~paper => fills = <<>> /\ \A p \in Observers : view[p].equity = 0)'
      BY <2>1 DEF LookInv, NoView
    <2>3. (pc[Snapshots] \in {"marks", "record"} => Coherent(view[Snapshots]))'
      BY <1>0, <2>1 DEF LookInv, Coherent, TypeOK
    <2>4. ASSUME NEW c \in Cycles PROVE RealSoFar(c)'
      BY <1>0, <2>1 DEF LookInv, RealSoFar, TypeOK
    <2> QED
      BY <2>2, <2>3, <2>4 DEF LookInv
  <1>6. CASE o = Snapshots /\ SnapshotMarked
    BY <1>0, <1>6 DEF SnapshotMarked, Goto, LookInv, RealSoFar, TypeOK, account, look
  <1> QED
    BY <1>1, <1>2, <1>3, <1>4, <1>5, <1>6 DEF CycleStep, SnapshotStep

\* The invariant of the observers.
THEOREM LooksAreReal == Spec => []LookInv
  <1>1. TypeOK /\ LookInv /\ [Next]_vars => LookInv'
    <2> SUFFICES ASSUME TypeOK, LookInv, [Next]_vars PROVE LookInv'
      OBVIOUS
    <2>1. ASSUME NEW s \in Symbols, Subscribe(s) \/ Unsubscribe(s) PROVE LookInv'
      BY <2>1 DEF Subscribe, Unsubscribe, LookInv, RealSoFar, Coherent, account, look
    <2>2. CASE UNCHANGED vars
      BY <2>2 DEF vars, account, scan, look, LookInv, RealSoFar, Coherent
    <2> QED
      BY <2>1, <2>2, NextCases, ScanLookInv, LookLookInv
  <1> QED
    BY InitLookInv, <1>1, TypeCorrect, PTL DEF Spec

\* The row of portfolio_snapshots is the account of one moment.
THEOREM RowIsCoherent == Spec => []RecordedRowCoherent
  <1>1. LookInv => RecordedRowCoherent
    BY DEF LookInv, Coherent, RecordedRowCoherent
  <1> QED
    BY <1>1, LooksAreReal, PTL

\* A cycle decides on balances the account has had since it began to look.
THEOREM DecisionOnRealPortfolio == Spec => []DecidedOnRealPortfolio
  <1>1. LookInv => DecidedOnRealPortfolio
    BY DEF LookInv, RealSoFar, DecidedOnRealPortfolio
  <1> QED
    BY <1>1, LooksAreReal, PTL

\* In live trading no order is ever submitted.
THEOREM LiveSubmitsNothing == Spec => []LiveNeverTrades
  <1>1. LookInv => LiveNeverTrades
    BY DEF LookInv, LiveNeverTrades
  <1> QED
    BY <1>1, LooksAreReal, PTL

-----------------------------------------------------------------------------
(* The fills.                                                              *)

\* There are finitely many summands, and they are integers.
LEMMA SummandTypes ==
  ASSUME TypeOK
  PROVE  /\ IsFiniteSet(DOMAIN fills)
         /\ \A i \in DOMAIN fills : Coins[i] \in Int /\ Paid[i] \in Int
  <1>1. DOMAIN fills = 1 .. Len(fills) /\ Len(fills) \in Nat
    BY DEF TypeOK
  <1>2. ASSUME NEW i \in DOMAIN fills PROVE Coins[i] \in Int /\ Paid[i] \in Int
    <2>1. fills[i] \in Fill
      <3>1. fills \in Seq(Fill)
        BY DEF TypeOK, Fill
      <3> QED
        BY <1>1, <3>1
    <2>2. fills[i].order.quantity \in Int /\ fills[i].price \in Int
      BY <2>1, OrderTypes, TasksAssumption DEF Fill
    <2> QED
      BY <2>2 DEF Coins, Paid
  <1> QED
    BY <1>1, <1>2, FS_Interval

\* A fill adds one summand to what is paid, and one to the coins of its symbol.
LEMMA FillSums ==
  ASSUME TypeOK, NEW order \in Orders, NEW p \in Prices,
         fills' = Append(fills, [order |-> order, price |-> p])
  PROVE  /\ SumFunction(Paid)' = SumFunction(Paid) + Signed(order) * p
         /\ \A a \in Assets :
              SumFunctionOnSet(Coins, FillsOf(a))'
                = SumFunctionOnSet(Coins, FillsOf(a))
                    + IF a = BaseAsset[order.symbol] THEN Signed(order) ELSE 0
  <1> DEFINE n == Len(fills) + 1
  <1>1. /\ n \in Nat /\ DOMAIN fills = 1 .. n - 1
        /\ n \notin DOMAIN fills /\ DOMAIN fills' = DOMAIN fills \cup {n}
        /\ \A i \in DOMAIN fills : fills'[i] = fills[i]
        /\ fills'[n] = [order |-> order, price |-> p]
    BY DEF TypeOK
  <1>2. IsFiniteSet(DOMAIN fills)
    BY SummandTypes
  <1>3. \A i \in DOMAIN fills : Coins[i] \in Int /\ Paid[i] \in Int
    BY SummandTypes
  <1>4. /\ \A i \in DOMAIN fills : Coins'[i] = Coins[i] /\ Paid'[i] = Paid[i]
        /\ Coins'[n] = Signed(order) /\ Paid'[n] = Signed(order) * p
    BY <1>1 DEF Coins, Paid, Signed
  <1>5. \A i \in DOMAIN fills \cup {n} : Coins'[i] \in Int /\ Paid'[i] \in Int
    BY <1>3, <1>4, OrderTypes
  <1>6. DOMAIN Paid = DOMAIN fills /\ DOMAIN Paid' = DOMAIN fills \cup {n}
    BY <1>1 DEF Paid
  <1> HIDE DEF n
  <1>7. SumFunction(Paid)' = SumFunction(Paid) + Signed(order) * p
    <2>1. SumFunctionOnSet(Paid', DOMAIN fills \cup {n})
            = SumFunctionOnSet(Paid', DOMAIN fills) + Paid'[n]
      BY <1>1, <1>2, <1>5, SumAdd
    <2>2. SumFunctionOnSet(Paid', DOMAIN fills) = SumFunctionOnSet(Paid, DOMAIN fills)
      BY <1>2, <1>4, SumSame
    <2> QED
      BY <1>4, <1>6, <2>1, <2>2 DEF SumFunction
  <1>8. ASSUME NEW a \in Assets
        PROVE  SumFunctionOnSet(Coins, FillsOf(a))'
                 = SumFunctionOnSet(Coins, FillsOf(a))
                     + IF a = BaseAsset[order.symbol] THEN Signed(order) ELSE 0
    <2>1. FillsOf(a) \subseteq DOMAIN fills /\ IsFiniteSet(FillsOf(a))
      BY <1>2, FS_Subset DEF FillsOf
    <2>2. SumFunctionOnSet(Coins', FillsOf(a)) = SumFunctionOnSet(Coins, FillsOf(a))
      BY <1>4, <2>1, SumSame
    <2>3. SumFunctionOnSet(Coins, FillsOf(a)) \in Int
      BY <1>3, <2>1, SumInt
    <2>4. CASE a = BaseAsset[order.symbol]
      <3>1. FillsOf(a)' = FillsOf(a) \cup {n}
        BY <1>1, <2>4 DEF FillsOf
      <3>2. SumFunctionOnSet(Coins', FillsOf(a) \cup {n})
              = SumFunctionOnSet(Coins', FillsOf(a)) + Coins'[n]
        <4>1. n \notin FillsOf(a) /\ \A i \in FillsOf(a) \cup {n} : Coins'[i] \in Int
          BY <1>1, <1>5, <2>1
        <4> QED
          BY <2>1, <4>1, SumAdd
      <3> QED
        BY <1>4, <2>2, <2>4, <3>1, <3>2
    <2>5. CASE a # BaseAsset[order.symbol]
      <3>1. FillsOf(a)' = FillsOf(a)
        BY <1>1, <2>5 DEF FillsOf
      <3> QED
        BY <2>2, <2>3, <2>5, <3>1
    <2> QED
      BY <2>4, <2>5
  <1> QED
    BY <1>7, <1>8

\* The paper account is what its fills make of the initial equity.
THEOREM FillsRebuild == Spec => []FillsRebuildAccount
  <1>1. Init => FillsRebuildAccount
    <2> SUFFICES ASSUME Init PROVE FillsRebuildAccount
      OBVIOUS
    <2>1. fills = <<>> /\ acct = FreshAccount
      BY DEF Init
    <2>2. DOMAIN Paid = {} /\ \A a \in Assets : FillsOf(a) = {}
      BY <2>1 DEF Paid, FillsOf
    <2>3. /\ SumFunction(Paid) = 0
          /\ \A a \in Assets : SumFunctionOnSet(Coins, FillsOf(a)) = 0
      BY <2>2, SumEmpty DEF SumFunction
    <2> QED
      BY <2>1, <2>3, PaperAssumption DEF FillsRebuildAccount, FreshAccount
  <1>2. ASSUME TypeOK, FillsRebuildAccount, NEW k \in Cycles, Trade(k)
        PROVE  FillsRebuildAccount'
    <2>1. PICK order \in Orders, p \in Prices :
            /\ acct' = ApplyPaperFill(acct, order, p)
            /\ fills' = Append(fills, [order |-> order, price |-> p])
      BY <1>2 DEF Trade
    <2>2. Signed(order) \in Int /\ Signed(order) * p \in Int /\ acct \in Account
      BY <1>2, OrderTypes DEF TypeOK
    <2>3. \A a \in Assets :
            acct'.balances[a] = acct.balances[a]
                                  - (IF a = "USDT" THEN Signed(order) * p ELSE 0)
                                  + (IF a = BaseAsset[order.symbol] THEN Signed(order) ELSE 0)
      BY <2>1, <2>2, FillBalances
    <2>4. SumFunction(Paid) \in Int
      <3>1. DOMAIN Paid = DOMAIN fills
        BY DEF Paid
      <3> QED
        BY <1>2, <3>1, SummandTypes, SumInt DEF SumFunction
    <2>5. \A a \in Assets : SumFunctionOnSet(Coins, FillsOf(a)) \in Int
      <3>1. \A a \in Assets : FillsOf(a) \subseteq DOMAIN fills
        BY DEF FillsOf
      <3> QED
        BY <1>2, <3>1, SummandTypes, FS_Subset, SumInt
    <2>6. /\ SumFunction(Paid)' = SumFunction(Paid) + Signed(order) * p
          /\ \A a \in Assets :
               SumFunctionOnSet(Coins, FillsOf(a))'
                 = SumFunctionOnSet(Coins, FillsOf(a))
                     + IF a = BaseAsset[order.symbol] THEN Signed(order) ELSE 0
      BY <1>2, <2>1, FillSums
    <2>7. ASSUME NEW a \in Assets
          PROVE  acct'.balances[a]
                   = (IF a = "USDT" THEN InitialEquity - SumFunction(Paid)' ELSE 0)
                       + SumFunctionOnSet(Coins, FillsOf(a))'
      <3> DEFINE paid == SumFunction(Paid)
                 coins == SumFunctionOnSet(Coins, FillsOf(a))
                 more == IF a = BaseAsset[order.symbol] THEN Signed(order) ELSE 0
                 less == Signed(order) * p
      <3>1. /\ InitialEquity \in Int /\ paid \in Int /\ coins \in Int
            /\ more \in Int /\ less \in Int
        BY <2>2, <2>4, <2>5, PaperAssumption
      <3>2. acct.balances[a] = (IF a = "USDT" THEN InitialEquity - paid ELSE 0) + coins
        BY <1>2 DEF FillsRebuildAccount
      <3>3. acct'.balances[a] = acct.balances[a] - (IF a = "USDT" THEN less ELSE 0) + more
        BY <2>3
      <3>4. SumFunction(Paid)' = paid + less
        BY <2>6
      <3>5. SumFunctionOnSet(Coins, FillsOf(a))' = coins + more
        BY <2>6
      <3> HIDE DEF paid, coins, more, less
      <3> QED
        BY <3>1, <3>2, <3>3, <3>4, <3>5
    <2> QED
      BY <2>7 DEF FillsRebuildAccount
  <1>3. TypeOK /\ FillsRebuildAccount /\ [Next]_vars => FillsRebuildAccount'
    <2> SUFFICES ASSUME TypeOK, FillsRebuildAccount, [Next]_vars
                 PROVE  FillsRebuildAccount'
      OBVIOUS
    <2>1. UNCHANGED account \/ \E k \in Cycles : Trade(k)
      BY DEF Next, ScanStep, CycleStep, SnapshotStep, Subscribe, Unsubscribe, Begin,
             NextSymbol, FetchFails, StreamFetched, StreamRecorded, LookAtPortfolio,
             TakeSnapshot, Mark, Marked, SnapshotMarked, EndSnapshot, NoTrade, Abort, vars
    <2>2. CASE UNCHANGED account
      BY <2>2 DEF account, FillsRebuildAccount, Coins, Paid, FillsOf
    <2> QED
      BY <1>2, <2>1, <2>2
  <1> QED
    BY <1>1, <1>3, TypeCorrect, PTL DEF Spec

-----------------------------------------------------------------------------
(* Passes.                                                                 *)

Missed(k) == (Behind(k) \cap stayed[k]) \ got[k]
Ahead(k) == ToSet(subs) \ Behind(k)

\* The two parts of PassVisits, what counts as subscribed all through, and where a
\* pass begins.
PassInv(k) ==
    /\ stayed[k] \subseteq ToSet(subs)
    /\ pc[k] = "idle" => index[k] = 0 /\ stayed[k] = {} /\ got[k] = {}
    /\ Cardinality(Missed(k)) <= removals[k]
    /\ Ahead(k) \cap stayed[k] \cap got[k] = {}

\* A new symbol comes last; an iterator that is beyond the end has passed it.
LEMMA SubscribePassInv ==
  ASSUME TypeOK, NEW k \in Scanners, PassInv(k), NEW s \in Symbols, Subscribe(s)
  PROVE  PassInv(k)'
  <1>1. /\ subs \in Seq(Symbols) /\ subs' = Append(subs, s) /\ \A i \in 1 .. Len(subs) : subs[i] # s
        /\ UNCHANGED <<pc, index, stayed, got, removals>>
    BY DEF Subscribe, Contains, TypeOK, scan
  <1>2. ToSet(subs)' = ToSet(subs) \cup {s} /\ s \notin ToSet(subs)
    BY <1>1 DEF ToSet
  <1>3. Behind(k) \subseteq Behind(k)' /\ Behind(k)' \subseteq Behind(k) \cup {s}
    BY <1>1 DEF Behind, TypeOK
  <1>4. s \notin stayed[k]
    BY <1>2 DEF PassInv
  <1>5. Missed(k)' = Missed(k)
    BY <1>1, <1>3, <1>4 DEF Missed
  <1>6. Ahead(k)' \cap stayed[k] \subseteq Ahead(k) \cap stayed[k]
    BY <1>2, <1>3, <1>4 DEF Ahead
  <1> QED
    BY <1>1, <1>2, <1>5, <1>6 DEF PassInv

\* Without a symbol the iterator has passed, it has passed the next one instead.
LEMMA BehindAfterRemoval ==
  ASSUME TypeOK, NEW k \in Scanners, NEW s \in Symbols, Unsubscribe(s)
  PROVE  /\ ToSet(subs)' = ToSet(subs) \ {s}
         /\ Behind(k) \ {s} \subseteq Behind(k)'
         /\ s \notin Behind(k) => Behind(k)' = Behind(k)
         /\ \E t : Behind(k)' \subseteq (Behind(k) \ {s}) \cup {t}
  <1>1. PICK i \in 1 .. Len(subs) : subs[i] = s
    BY DEF Unsubscribe, Contains
  <1> DEFINE n == Len(subs)
             m == index[k]
  <1>2. /\ subs \in Seq(Symbols) /\ n \in Nat /\ m \in Nat /\ DOMAIN subs = 1 .. n
        /\ \A a, b \in 1 .. n : subs[a] = subs[b] => a = b
    BY DEF TypeOK, IsInjective
  <1>3. /\ DOMAIN subs' = 1 .. n - 1 /\ index' = index
        /\ \A j \in 1 .. n - 1 : subs'[j] = IF j < i THEN subs[j] ELSE subs[j + 1]
    <2>1. subs' = RemoveFirst(subs, subs[i]) /\ index' = index
      BY <1>1 DEF Unsubscribe
    <2>2. IsInjective(subs)
      BY DEF TypeOK
    <2>3. /\ subs' \in Seq(Symbols) /\ Len(subs') = n - 1
          /\ \A j \in 1 .. n - 1 : subs'[j] = IF j < i THEN subs[j] ELSE subs[j + 1]
      BY <1>1, <1>2, <2>1, <2>2, RemoveFirstFacts
    <2> HIDE DEF n
    <2>4. DOMAIN subs' = 1 .. Len(subs')
      BY <2>3
    <2> QED
      BY <2>1, <2>3, <2>4
  <1>4. /\ Behind(k) = {subs[j] : j \in {j \in 1 .. n : j <= m}}
        /\ Behind(k)' = {subs'[j] : j \in {j \in 1 .. n - 1 : j <= m}}
        /\ ToSet(subs) = {subs[j] : j \in 1 .. n}
        /\ ToSet(subs)' = {subs'[j] : j \in 1 .. n - 1}
    BY <1>2, <1>3 DEF Behind, ToSet
  <1> HIDE DEF n, m
  <1>5. \A j \in 1 .. n : j # i => \* where it is now
          LET h == IF j < i THEN j ELSE j - 1
          IN  h \in 1 .. n - 1 /\ h <= j /\ subs'[h] = subs[j]
    BY <1>1, <1>2, <1>3 DEF n
  <1>6. \A j \in 1 .. n - 1 : \* where it was
          LET h == IF j < i THEN j ELSE j + 1
          IN  h \in 1 .. n /\ h # i /\ subs'[j] = subs[h]
    BY <1>1, <1>2, <1>3 DEF n
  <1>7. ToSet(subs)' = ToSet(subs) \ {s}
    <2>1. \A x \in ToSet(subs) \ {s} : x \in ToSet(subs)'
      BY <1>1, <1>4, <1>5
    <2>2. \A x \in ToSet(subs)' : x \in ToSet(subs) /\ x # s
      BY <1>1, <1>2, <1>4, <1>6 DEF n
    <2> QED
      BY <2>1, <2>2
  <1>8. ASSUME NEW x \in Behind(k), x # s PROVE x \in Behind(k)'
    <2>1. PICK j \in 1 .. n : j <= m /\ x = subs[j]
      BY <1>4
    <2> DEFINE h == IF j < i THEN j ELSE j - 1
    <2>2. j # i
      BY <1>1, <1>8, <2>1
    <2>3. h \in 1 .. n - 1 /\ h <= j /\ subs'[h] = x
      BY <1>5, <2>1, <2>2
    <2>4. h <= m
      BY <1>2, <2>1, <2>3
    <2> QED
      BY <1>4, <2>3, <2>4
  <1>9. ASSUME NEW x \in Behind(k)', x \notin Behind(k) \ {s}
        PROVE  s \in Behind(k) /\ x = subs[m + 1]
    <2>1. PICK j \in 1 .. n - 1 : j <= m /\ x = subs'[j]
      BY <1>4
    <2>2. CASE j < i
      <3>1. x = subs[j] /\ j \in 1 .. n /\ j # i
        BY <1>6, <2>1, <2>2
      <3>2. x \in Behind(k) /\ x # s
        BY <1>1, <1>2, <1>4, <2>1, <3>1 DEF n
      <3> QED
        BY <1>9, <3>2
    <2>3. CASE ~(j < i)
      <3>1. x = subs[j + 1] /\ j + 1 \in 1 .. n /\ j + 1 # i
        BY <1>6, <2>1, <2>3
      <3>2. i <= m /\ s \in Behind(k)
        BY <1>1, <1>2, <1>4, <2>1, <2>3 DEF n
      <3>3. x # s
        BY <1>1, <1>2, <3>1 DEF n
      <3>4. ~(j + 1 <= m)
        BY <1>4, <1>9, <3>1, <3>3
      <3>5. j + 1 = m + 1
        BY <1>2, <2>1, <3>4
      <3> QED
        BY <3>1, <3>2, <3>5
    <2> QED
      BY <2>2, <2>3
  <1>10. Behind(k)' \subseteq (Behind(k) \ {s}) \cup {subs[m + 1]}
    BY <1>9
  <1>11. s \notin Behind(k) => Behind(k)' = Behind(k)
    BY <1>8, <1>9
  <1> QED
    BY <1>7, <1>8, <1>10, <1>11

\* A removal costs one symbol at most, and is counted.
LEMMA UnsubscribePassInv ==
  ASSUME TypeOK, NEW k \in Scanners, PassInv(k), NEW s \in Symbols, Unsubscribe(s)
  PROVE  PassInv(k)'
  <1>1. /\ UNCHANGED <<pc, index, got>>
        /\ stayed'[k] = stayed[k] \ {s}
        /\ removals'[k] = IF s \in Behind(k) /\ removals[k] + 1 < Cardinality(Symbols)
                          THEN removals[k] + 1 ELSE removals[k]
    BY DEF Unsubscribe
  <1>2. PICK t : Behind(k)' \subseteq (Behind(k) \ {s}) \cup {t}
    BY BehindAfterRemoval
  <1>3. /\ Missed(k) \subseteq Symbols /\ Missed(k)' \subseteq Symbols \ {s}
        /\ Missed(k)' \subseteq Missed(k) \cup {t}
        /\ s \notin Behind(k) => Missed(k)' \subseteq Missed(k)
    <2>1. Missed(k)' = (Behind(k)' \cap (stayed[k] \ {s})) \ got[k]
      BY <1>1 DEF Missed
    <2>2. stayed[k] \subseteq Symbols
      BY DEF TypeOK
    <2> QED
      BY <1>2, <2>1, <2>2, BehindAfterRemoval DEF Missed
  <1>4. /\ IsFiniteSet(Missed(k)) /\ IsFiniteSet(Missed(k)') /\ IsFiniteSet(Symbols)
        /\ Cardinality(Missed(k)) \in Nat /\ Cardinality(Missed(k)') \in Nat
        /\ Cardinality(Symbols) \in Nat /\ removals[k] \in Nat
    <2>1. IsFiniteSet(Missed(k)) /\ IsFiniteSet(Missed(k)') /\ IsFiniteSet(Symbols)
      BY <1>3, PaperAssumption, FS_Subset
    <2> QED
      BY <2>1, FS_CardinalityType DEF TypeOK
  <1>5. Cardinality(Missed(k)') <= removals'[k]
    <2>1. CASE s \notin Behind(k)
      <3>1. Cardinality(Missed(k)') <= Cardinality(Missed(k))
        BY <1>3, <1>4, <2>1, FS_Subset
      <3> QED
        BY <1>1, <1>4, <2>1, <3>1 DEF PassInv
    <2>2. CASE s \in Behind(k) /\ removals[k] + 1 < Cardinality(Symbols)
      <3>1. /\ IsFiniteSet(Missed(k) \cup {t})
            /\ Cardinality(Missed(k) \cup {t}) <= Cardinality(Missed(k)) + 1
        <4>1. /\ IsFiniteSet(Missed(k) \cup {t})
              /\ Cardinality(Missed(k) \cup {t})
                   = IF t \in Missed(k) THEN Cardinality(Missed(k)) ELSE Cardinality(Missed(k)) + 1
          BY <1>4, FS_AddElement
        <4> QED
          BY <1>4, <4>1
      <3>2. Cardinality(Missed(k)') <= Cardinality(Missed(k) \cup {t})
        BY <1>3, <3>1, FS_Subset
      <3>3. Cardinality(Missed(k) \cup {t}) \in Nat
        BY <3>1, FS_CardinalityType
      <3> QED
        BY <1>1, <1>4, <2>2, <3>1, <3>2, <3>3 DEF PassInv
    <2>3. CASE ~(removals[k] + 1 < Cardinality(Symbols))
      <3>1. IsFiniteSet(Symbols \ {s}) /\ Cardinality(Symbols \ {s}) = Cardinality(Symbols) - 1
        BY <1>4, FS_RemoveElement
      <3>2. Cardinality(Missed(k)') <= Cardinality(Symbols) - 1
        BY <1>3, <3>1, FS_Subset
      <3> QED
        BY <1>1, <1>4, <2>3, <3>2
    <2> QED
      BY <2>1, <2>2, <2>3
  <1>6. Ahead(k)' \subseteq Ahead(k)
    BY BehindAfterRemoval DEF Ahead
  <1>7. stayed'[k] \subseteq ToSet(subs)'
    BY <1>1, BehindAfterRemoval DEF PassInv
  <1> QED
    BY <1>1, <1>5, <1>6, <1>7 DEF PassInv

\* The symbol that is yielded is the first of those to come.
LEMMA YieldPassInv ==
  ASSUME TypeOK, NEW k \in Scanners, PassInv(k), index[k] < Len(subs),
         Yield(k, subs[index[k] + 1]), UNCHANGED subs
  PROVE  PassInv(k)'
  <1> DEFINE s == subs[index[k] + 1]
  <1>1. /\ pc'[k] = "fetch" /\ index'[k] = index[k] + 1 /\ got'[k] = got[k] \cup {s}
        /\ UNCHANGED <<subs, stayed, removals>>
    BY DEF Yield, Goto, TypeOK
  <1>2. Behind(k)' = Behind(k) \cup {s}
    <2>1. index[k] \in Nat /\ index[k] + 1 \in DOMAIN subs /\ DOMAIN subs = 1 .. Len(subs)
      BY DEF TypeOK
    <2>2. DOMAIN subs \cap 1 .. index[k] + 1 = (DOMAIN subs \cap 1 .. index[k]) \cup {index[k] + 1}
      BY <2>1
    <2> QED
      BY <1>1, <2>1, <2>2 DEF Behind
  <1> HIDE DEF s
  <1>3. Missed(k)' = Missed(k)
    <2>1. s \notin Behind(k)
      <3>1. index[k] \in Nat /\ index[k] + 1 \in DOMAIN subs /\ DOMAIN subs = 1 .. Len(subs)
        BY DEF TypeOK
      <3> QED
        BY <3>1 DEF Behind, TypeOK, IsInjective, s
    <2> QED
      BY <1>1, <1>2, <2>1 DEF Missed
  <1>4. (Ahead(k) \cap stayed[k] \cap got[k])' \subseteq Ahead(k) \cap stayed[k] \cap got[k]
    BY <1>1, <1>2 DEF Ahead
  <1> QED
    BY <1>1, <1>3, <1>4 DEF PassInv

\* Whatever else happens leaves the pass alone, begins it or ends it.
LEMMA OtherPassInv ==
  ASSUME TypeOK, TypeOK', NEW k \in Scanners, PassInv(k), UNCHANGED subs,
         \/ UNCHANGED scan /\ (pc'[k] = "idle" => pc[k] = "idle")
         \/ UNCHANGED <<index, got>> /\ pc[k] = "idle" /\ pc'[k] = "scan" /\ stayed'[k] = ToSet(subs)
         \/ index'[k] = 0 /\ stayed'[k] = {} /\ got'[k] = {}
         \/ UNCHANGED <<pc[k], index[k], got[k], stayed[k], removals[k]>>
  PROVE  PassInv(k)'
  <1>1. CASE UNCHANGED scan /\ (pc'[k] = "idle" => pc[k] = "idle")
    BY <1>1 DEF scan, PassInv, Missed, Ahead, Behind
  <1>2. CASE \/ index'[k] = 0 /\ stayed'[k] = {} /\ got'[k] = {}
             \/ UNCHANGED <<index, got>> /\ pc[k] = "idle" /\ pc'[k] = "scan" /\ stayed'[k] = ToSet(subs)
    <2>1. index'[k] = 0 /\ got'[k] = {} /\ stayed'[k] \subseteq ToSet(subs)
      BY <1>2 DEF PassInv
    <2>2. Cardinality(Missed(k)') = 0
      <3>1. Missed(k)' = {}
        BY <2>1 DEF Missed, Behind
      <3> QED
        BY <3>1, FS_EmptySet
    <2> QED
      BY <1>2, <2>1, <2>2 DEF PassInv, TypeOK
  <1>3. CASE UNCHANGED <<pc[k], index[k], got[k], stayed[k], removals[k]>>
    BY <1>3 DEF PassInv, Missed, Ahead, Behind
  <1> QED
    BY <1>1, <1>2, <1>3


\* How the list is gone through while it changes.
THEOREM PassesVisit == Spec => []PassVisits
  <1> DEFINE Inv == \A k \in Scanners : PassInv(k)
  <1>1. Init => Inv
    <2> SUFFICES ASSUME Init, NEW k \in Scanners PROVE PassInv(k)
      OBVIOUS
    <2>1. index[k] = 0 /\ stayed[k] = {} /\ got[k] = {} /\ removals[k] = 0
      BY DEF Init
    <2>2. Missed(k) = {} /\ Ahead(k) \cap stayed[k] \cap got[k] = {}
      BY <2>1 DEF Missed, Ahead
    <2> QED
      BY <2>1, <2>2, FS_EmptySet DEF PassInv
  <1>2. TypeOK /\ TypeOK' /\ Inv /\ [Next]_vars => Inv'
    <2> SUFFICES ASSUME TypeOK, TypeOK', Inv, [Next]_vars, NEW k \in Scanners
                 PROVE  PassInv(k)'
      OBVIOUS
    <2>0. PassInv(k)
      OBVIOUS
    <2> HIDE DEF Inv
    <2>1. ASSUME NEW s \in Symbols, Subscribe(s) \/ Unsubscribe(s) PROVE PassInv(k)'
      BY <2>0, <2>1, SubscribePassInv, UnsubscribePassInv
    <2>2. ASSUME NEW c \in Scanners, Begin(c) PROVE PassInv(k)'
      <3>1. /\ UNCHANGED <<subs, index, got, removals>> /\ pc[c] = "idle"
            /\ pc' = [pc EXCEPT ![c] = "scan"] /\ stayed' = [stayed EXCEPT ![c] = ToSet(subs)]
        BY <2>2 DEF Begin, Goto
      <3> QED
        BY <2>0, <3>1, OtherPassInv DEF TypeOK
    <2>3. ASSUME NEW c \in Scanners, NextSymbol(c), index[c] < Len(subs) PROVE PassInv(k)'
      <3>1. Yield(c, subs[index[c] + 1]) /\ UNCHANGED subs
        BY <2>3 DEF NextSymbol
      <3>2. CASE c = k
        BY <2>0, <2>3, <3>1, <3>2, YieldPassInv
      <3>3. CASE c # k
        <4>1. UNCHANGED <<pc[k], index[k], got[k], stayed[k], removals[k]>>
          BY <3>1, <3>3 DEF Yield, Goto, TypeOK
        <4> QED
          BY <2>0, <3>1, <4>1, OtherPassInv
      <3> QED
        BY <3>2, <3>3
    <2>4. ASSUME NEW c \in Scanners, EndPass(c), UNCHANGED subs PROVE PassInv(k)'
      <3>1. CASE c = k
        <4>1. index'[k] = 0 /\ stayed'[k] = {} /\ got'[k] = {}
          BY <2>4, <3>1 DEF EndPass, TypeOK
        <4> QED
          BY <2>0, <2>4, <4>1, OtherPassInv
      <3>2. CASE c # k
        <4>1. UNCHANGED <<pc[k], index[k], got[k], stayed[k], removals[k]>>
          BY <2>4, <3>2 DEF EndPass, Goto, TypeOK
        <4> QED
          BY <2>0, <2>4, <4>1, OtherPassInv
      <3> QED
        BY <3>1, <3>2
    <2>5. ASSUME NEW c \in Scanners,
                 FetchFails(c) \/ (c = Stream /\ (StreamFetched \/ StreamRecorded))
          PROVE  PassInv(k)'
      <3>1. UNCHANGED subs /\ UNCHANGED scan /\ (pc'[k] = "idle" => pc[k] = "idle")
        BY <2>5 DEF FetchFails, StreamFetched, StreamRecorded, Goto, TypeOK
      <3> QED
        BY <2>0, <3>1, OtherPassInv
    <2>6. ASSUME NEW o \in Observers,
                 (o \in Cycles /\ CycleStep(o)) \/ (o = Snapshots /\ SnapshotStep)
          PROVE  PassInv(k)'
      <3>1. UNCHANGED subs /\ UNCHANGED scan /\ (pc'[k] = "idle" => pc[k] = "idle")
        BY <2>6, TasksAssumption
        DEF CycleStep, SnapshotStep, LookAtPortfolio, TakeSnapshot, Mark, Marked, Trade,
            NoTrade, SnapshotMarked, EndSnapshot, Goto, TypeOK, Scanners
      <3> QED
        BY <2>0, <3>1, OtherPassInv
    <2>7. CASE UNCHANGED vars
      BY <2>0, <2>7, OtherPassInv DEF vars
    <2>8. ASSUME NEW c \in Scanners, NextSymbol(c), ~(index[c] < Len(subs)) PROVE PassInv(k)'
      BY <2>4, <2>8 DEF NextSymbol
    <2>9. ASSUME NEW c \in Scanners, Abort(c) PROVE PassInv(k)'
      BY <2>4, <2>9 DEF Abort
    <2> QED
      BY <2>1, <2>2, <2>3, <2>5, <2>6, <2>7, <2>8, <2>9, NextCases
  <1>3. Inv => PassVisits
    BY DEF PassVisits, PassInv, Missed, Ahead
  <1> HIDE DEF Inv
  <1> QED
    BY <1>1, <1>2, <1>3, TypeCorrect, PTL DEF Spec

=============================================================================
