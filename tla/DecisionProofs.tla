---------------------------- MODULE DecisionProofs ----------------------------
(***************************************************************************)
(* Theorems about Decision, for any symbols, indicators, prices, equities, *)
(* answers and settings.                                                   *)
(***************************************************************************)
EXTENDS Decision, TLAPS

-----------------------------------------------------------------------------
(* The signal is one.  The three predicates stay closed where lemmas are   *)
(* used, which keeps the solver from guessing sorts.                       *)

Whole(x) == x \in Int
Ordered(x, y) == x \in Int /\ y \in Int /\ x <= y
Within(x, lo, hi) == x \in lo .. hi

\* The greater of two integers is one of them and no less than each.
LEMMA MaxOfTwo ==
  ASSUME NEW a, NEW b, Whole(a), Whole(b)
  PROVE  Ordered(a, Max({a, b})) /\ Ordered(b, Max({a, b}))
  <1>1. \E x \in {a, b} : \A y \in {a, b} : x >= y
    BY DEF Whole
  <1>2. Max({a, b}) \in {a, b} /\ \A y \in {a, b} : Max({a, b}) >= y
    BY <1>1 DEF Max
  <1> QED BY <1>2 DEF Whole, Ordered

\* Clipping an integer to an interval ends in the interval.
LEMMA ClipWithin ==
  ASSUME NEW x, NEW lo, NEW hi, Whole(x), Ordered(lo, hi)
  PROVE  Within(Clip(x, lo, hi), lo, hi)
  <1> DEFINE m == Min({hi, x})
             c == Max({lo, m})
  <1>1. m \in Int /\ m <= hi
    <2>1. \E y \in {hi, x} : \A z \in {hi, x} : y =< z
      BY DEF Whole, Ordered
    <2> QED BY <2>1 DEF Min, Whole, Ordered
  <1> HIDE DEF m
  <1>2. c \in {lo, m} /\ c >= lo
    <2>1. \E y \in {lo, m} : \A z \in {lo, m} : y >= z
      BY <1>1 DEF Ordered
    <2> QED BY <2>1 DEF Max
  <1>3. Clip(x, lo, hi) = c
    BY DEF Clip, m
  <1> HIDE DEF c
  <1>4. c \in lo .. hi
    BY <1>1, <1>2 DEF Ordered
  <1> QED BY <1>3, <1>4 DEF Within

\* Rounding a quotient gives an integer.
LEMMA RoundedWhole ==
  ASSUME NEW n, NEW d, Whole(n), Ordered(1, d)
  PROVE  Whole(Rounded(n, d))
  BY DEF Rounded, Whole, Ordered

\* The score of a market is a number.
LEMMA ScoreWhole ==
  ASSUME NEW m \in Markets
  PROVE  Score(m) \in Int
  <1>1. /\ m.trend \in Int /\ m.momentum \in Int /\ m.volatility \in Nat
        /\ m.rsi \in 0 .. 100 \cup {None}
    BY DecisionAssumption DEF Markets
  <1>2. Rsi(m) \in Int
    BY <1>1 DEF Rsi
  <1>3. MeanRev(Rsi(m)) \in Int
    BY <1>2 DEF MeanRev
  <1> DEFINE v == Max({1000, m.volatility})
             q == (1000 * m.momentum) \div v
  <1>4. v \in Int /\ v > 0
    <2>1. Whole(1000) /\ Whole(m.volatility)
      BY <1>1 DEF Whole
    <2>2. Ordered(1000, v)
      BY <2>1, MaxOfTwo
    <2> QED BY <2>2 DEF Ordered
  <1> HIDE DEF v
  <1>5. Whole(q)
    BY <1>1, <1>4 DEF Whole
  <1> HIDE DEF q
  <1>6. Clip(q, -1000, 1000) \in Int
    <2>1. Ordered(-1000, 1000)
      BY DEF Ordered
    <2>2. Within(Clip(q, -1000, 1000), -1000, 1000)
      BY <1>5, <2>1, ClipWithin
    <2> QED BY <2>2 DEF Within
  <1> QED BY <1>1, <1>3, <1>6 DEF Score, q, v

Signals == [side : {"long", "short", "flat"}, strength : 0 .. 10000]

\* The strength of a signal is a fraction.
LEMMA StrengthWithin ==
  ASSUME NEW x, NEW t, NEW h, Whole(x), Whole(t), Whole(h), h - t > 0
  PROVE  Within(Strength(x, t, h), 0, 10000)
  <1> DEFINE n == 10000 * (x - t)
             d == h - t
  <1>1. Whole(n) /\ Ordered(1, d)
    BY DEF Whole, Ordered
  <1> HIDE DEF n, d
  <1>2. Whole(Rounded(n, d))
    BY <1>1, RoundedWhole
  <1>3. Ordered(0, 10000)
    BY DEF Ordered
  <1>4. Within(Clip(Rounded(n, d), 0, 10000), 0, 10000)
    BY <1>2, <1>3, ClipWithin
  <1> QED BY <1>4 DEF Strength, n, d

\* Whatever the market, the signal is a signal.
LEMMA SignalType ==
  ASSUME NEW m \in Markets
  PROVE  FromSnapshot(m) \in Signals
  <1> DEFINE t == Threshold(m)
             f == 4 * t
             h == Max({5000, f})
             p == Score(m)
             n == -Score(m)
  <1>1. t \in 200 .. 2000
    <2> DEFINE w == 10 * m.volatility
    <2>1. Whole(w) /\ Ordered(200, 2000)
      BY DecisionAssumption DEF Markets, Whole, Ordered
    <2> HIDE DEF w
    <2>2. Within(Clip(w, 200, 2000), 200, 2000)
      BY <2>1, ClipWithin
    <2> QED BY <2>2 DEF Threshold, Within, w
  <1> HIDE DEF t
  <1>2. Whole(5000) /\ Whole(f) /\ f > 0
    BY <1>1 DEF Whole
  <1>3. Whole(t) /\ Whole(h) /\ h - t > 0
    <2> HIDE DEF f
    <2>1. Ordered(5000, h) /\ Ordered(f, h)
      BY <1>2, MaxOfTwo
    <2> QED BY <1>1, <2>1 DEF Ordered, Whole
  <1>4. Whole(p) /\ Whole(n)
    BY ScoreWhole DEF Whole
  <1> HIDE DEF f, h, p, n
  <1>5. Within(Strength(p, t, h), 0, 10000) /\ Within(Strength(n, t, h), 0, 10000)
    BY <1>3, <1>4, StrengthWithin
  <1>6. \/ FromSnapshot(m) = [side |-> "long", strength |-> Strength(p, t, h)]
        \/ FromSnapshot(m) = [side |-> "short", strength |-> Strength(n, t, h)]
        \/ FromSnapshot(m) = [side |-> "flat", strength |-> 0]
    BY DEF FromSnapshot, t, f, h, p, n
  <1> QED BY <1>5, <1>6 DEF Signals, Within

-----------------------------------------------------------------------------
(* The mirrored market.                                                    *)

\* Clipping to an interval around zero is symmetric.
LEMMA ClipMirrored ==
  ASSUME NEW x \in Int
  PROVE  Clip(-x, -1000, 1000) = -Clip(x, -1000, 1000)
  <1>1. ASSUME NEW y \in Int
        PROVE  Clip(y, -1000, 1000)
                 = IF y < -1000 THEN -1000 ELSE IF y > 1000 THEN 1000 ELSE y
    <2> DEFINE m == IF y > 1000 THEN 1000 ELSE y
    <2>1. Min({1000, y}) = m
      <3>1. m \in {1000, y} /\ \A z \in {1000, y} : m =< z
        BY <1>1
      <3>2. \A z \in {1000, y} : (\A w \in {1000, y} : z =< w) => z = m
        BY <1>1
      <3> HIDE DEF m
      <3> QED
        BY <3>1, <3>2 DEF Min
    <2> DEFINE c == IF m < -1000 THEN -1000 ELSE m
    <2>2. Max({-1000, m}) = c
      <3>1. m \in Int
        BY <1>1
      <3> HIDE DEF m
      <3>2. c \in {-1000, m} /\ \A z \in {-1000, m} : c >= z
        BY <3>1
      <3>3. \A z \in {-1000, m} : (\A w \in {-1000, m} : z >= w) => z = c
        BY <3>1
      <3> HIDE DEF c
      <3> QED
        BY <3>2, <3>3 DEF Max
    <2>3. Clip(y, -1000, 1000) = c
      BY <2>1, <2>2 DEF Clip
    <2> QED
      BY <1>1, <2>3
  <1> QED
    BY <1>1

\* An exact quotient is symmetric.
LEMMA QuotientMirrored ==
  ASSUME NEW x \in Int, NEW d \in Nat \ {0}, d * (x \div d) = x
  PROVE  (-x) \div d = -(x \div d)
  <1> DEFINE q == x \div d
  <1>1. q \in Int /\ d * q = x
    OBVIOUS
  <1> HIDE DEF q
  <1>2. (d * (-q)) \div d = -q
    BY <1>1
  <1>3. d * (-q) = -x
    BY <1>1
  <1> QED
    BY <1>2, <1>3 DEF q

\* Away from the ends of the RSI the mirrored market has the opposite score.
LEMMA ScoreMirrored ==
  ASSUME NEW m \in Markets, m.rsi \notin {0, 100}
  PROVE  Score(Mirror(m)) = -Score(m)
  <1> DEFINE w == Mirror(m)
  <1>1. /\ m.trend \in Int /\ m.momentum \in Momenta /\ m.momentum \in Int
        /\ m.volatility \in Volatilities /\ m.volatility \in Nat
        /\ m.rsi = None \/ m.rsi \in 1 .. 99
    <2>1. m.rsi \in 0 .. 100 \cup {None}
      BY DecisionAssumption DEF Markets
    <2>2. m.rsi # None => m.rsi \in 1 .. 99
      BY <2>1
    <2> QED
      BY <2>2, DecisionAssumption DEF Markets
  <1>2. /\ w.trend = -m.trend /\ w.momentum = -m.momentum /\ w.volatility = m.volatility
        /\ w.rsi = IF m.rsi = None THEN None ELSE 100 - m.rsi
    BY DEF Mirror, Markets
  <1> HIDE DEF w
  <1>3. MeanRev(Rsi(w)) = -MeanRev(Rsi(m)) /\ MeanRev(Rsi(m)) \in Int
    <2>1. CASE m.rsi = None
      <3>1. Rsi(m) = 50 /\ Rsi(w) = 50
        BY <1>2, <2>1 DEF Rsi
      <3>2. MeanRev(50) = 0
        BY DEF MeanRev
      <3> QED
        BY <3>1, <3>2
    <2>2. CASE m.rsi # None
      <3>1. /\ Rsi(m) = m.rsi /\ m.rsi \in 1 .. 99
            /\ Rsi(w) = 100 - m.rsi
        BY <1>1, <1>2, <2>2, DecisionAssumption DEF Rsi
      <3> QED
        BY <3>1 DEF MeanRev
    <2> QED
      BY <2>1, <2>2
  <1> DEFINE d == Max({1000, m.volatility})
             x == 1000 * m.momentum
             q == x \div d
  <1>4. d \in Nat \ {0} /\ x \in Int /\ q \in Int /\ 1000 * (-m.momentum) = -x
    <2>1. Whole(1000) /\ Whole(m.volatility)
      BY <1>1 DEF Whole
    <2>2. Ordered(1000, d)
      BY <2>1, MaxOfTwo
    <2>3. d \in Nat \ {0}
      BY <2>2 DEF Ordered
    <2> HIDE DEF d
    <2> QED
      BY <1>1, <2>3
  <1>5. d * q = x
    BY <1>1, ExactAssumption
  <1> HIDE DEF d, x
  <1>6. (-x) \div d = -q
    BY <1>4, <1>5, QuotientMirrored
  <1> HIDE DEF q
  <1>7. Clip(-q, -1000, 1000) = -Clip(q, -1000, 1000) /\ Clip(q, -1000, 1000) \in Int
    <2>1. Ordered(-1000, 1000) /\ Whole(q)
      BY <1>4 DEF Ordered, Whole
    <2>2. Within(Clip(q, -1000, 1000), -1000, 1000)
      BY <2>1, ClipWithin
    <2> QED
      BY <1>4, <2>2, ClipMirrored DEF Within
  <1> DEFINE r == MeanRev(Rsi(m))
             c == Clip(q, -1000, 1000)
  <1>8. Score(m) = 5 * m.trend + r + 2 * c
    BY DEF Score, q, x, d
  <1>9. Score(w) = 5 * (-m.trend) + (-r) + 2 * (-c)
    <2>1. Score(w) = 5 * (-m.trend) + MeanRev(Rsi(w)) + 2 * Clip((-x) \div d, -1000, 1000)
      BY <1>2, <1>4 DEF Score, d
    <2> QED
      BY <1>3, <1>6, <1>7, <2>1
  <1>10. m.trend \in Int /\ r \in Int /\ c \in Int
    BY <1>1, <1>3, <1>7
  <1> HIDE DEF r, c
  <1> QED
    BY <1>8, <1>9, <1>10 DEF w

\* Its signal is the opposite one.
LEMMA SignalMirrored ==
  ASSUME NEW m \in Markets, m.rsi \notin {0, 100}
  PROVE  FromSnapshot(Mirror(m))
           = [side |-> Opposite(FromSnapshot(m).side), strength |-> FromSnapshot(m).strength]
  <1> DEFINE w == Mirror(m)
             p == Score(m)
             t == Threshold(m)
             strength(x) == Strength(x, t, Max({5000, 4 * t}))
  <1>1. Threshold(w) = t
    BY DEF Threshold, Mirror, Markets
  <1>2. p \in Int /\ Score(w) = -p /\ -(-p) = p
    <2>1. p \in Int
      BY ScoreWhole
    <2>2. Score(w) = -p
      BY ScoreMirrored
    <2> HIDE DEF p
    <2> QED
      BY <2>1, <2>2
  <1>3. t \in Int /\ t >= 0
    <2> DEFINE v == 10 * m.volatility
    <2>1. Whole(v) /\ Ordered(200, 2000)
      BY DecisionAssumption DEF Markets, Whole, Ordered
    <2> HIDE DEF v
    <2>2. Within(Clip(v, 200, 2000), 200, 2000)
      BY <2>1, ClipWithin
    <2> QED
      BY <2>2 DEF Threshold, Within, v
  <1>4. FromSnapshot(m)
          = CASE p > t  -> [side |-> "long", strength |-> strength(p)]
              [] p < -t -> [side |-> "short", strength |-> strength(-p)]
              [] OTHER  -> [side |-> "flat", strength |-> 0]
    BY DEF FromSnapshot
  <1>5. FromSnapshot(w)
          = CASE -p > t  -> [side |-> "long", strength |-> strength(-p)]
              [] -p < -t -> [side |-> "short", strength |-> strength(p)]
              [] OTHER   -> [side |-> "flat", strength |-> 0]
    BY <1>1, <1>2 DEF FromSnapshot
  <1> HIDE DEF w, p, t, strength
  <1>6. CASE p > t
    BY <1>2, <1>3, <1>4, <1>5, <1>6 DEF Opposite, w
  <1>7. CASE p < -t
    BY <1>2, <1>3, <1>4, <1>5, <1>7 DEF Opposite, w
  <1>8. CASE ~(p > t) /\ ~(p < -t)
    BY <1>2, <1>3, <1>4, <1>5, <1>8 DEF Opposite, w
  <1> QED
    BY <1>6, <1>7, <1>8

-----------------------------------------------------------------------------
(* The invariant: what each stage has established.                         *)

Observed ==
    stage # "idle" =>
        /\ sym \in Symbols /\ market \in Markets
        /\ signal = FromSnapshot(market) /\ signal \in Signals

\* What the decision was made of.
Decided ==
    /\ stage \in {"idle", "observed"} => answer = None
    /\ stage \in {"decided", "proposed", "approved"} =>
        /\ LET base == Baseline(signal, sym, market.price[sym], market.equity)
           IN  raw = IF answer = None THEN base ELSE Merged(base, answer)
        /\ raw.symbol \in Symbols \cup {Malformed}

\* What the intent was made of.
Proposed ==
    stage \in {"proposed", "approved"} =>
        /\ DecidedSide(raw) # "flat"
        /\ intent = [symbol |-> raw.symbol, side |-> DecidedSide(raw),
                     quantity |-> raw.quantity]
        /\ raw.quantity \in Nat \ {0}

IInv ==
    /\ stage \in {"idle", "observed", "decided", "proposed", "approved"}
    /\ stage = "idle" => sym = None /\ market = None
    /\ answer \in Answers \cup {None}
    /\ Observed /\ Decided /\ Proposed

\* The invariant holds initially.
LEMMA Initial == Init => IInv
  BY DEF Init, IInv, Observed, Decided, Proposed

\* Every stage of a decision keeps the invariant.
LEMMA NextKeeps == IInv /\ [Next]_vars => IInv'
  <1> SUFFICES ASSUME IInv, [Next]_vars PROVE IInv'
    OBVIOUS
  <1> USE DEF IInv, Observed, Decided, Proposed
  <1>1. ASSUME NEW s \in Symbols, NEW m \in Markets, Observe(s, m)
        PROVE  IInv'
    BY <1>1, SignalType DEF Observe
  <1>2. ASSUME NEW a \in Answers \cup {None}, Decide(a)
        PROVE  IInv'
    <2> DEFINE base == Baseline(signal, sym, market.price[sym], market.equity)
    <2>1. base.symbol = sym /\ sym \in Symbols
      BY <1>2 DEF Decide, Baseline
    <2>2. a # None => Merged(base, a).symbol \in Symbols \cup {Malformed}
      BY <2>1 DEF Merged, Baseline, Answers
    <2>3. raw' = IF a = None THEN base ELSE Merged(base, a)
      BY <1>2 DEF Decide
    <2> HIDE DEF base
    <2>4. raw'.symbol \in Symbols \cup {Malformed}
      BY <2>1, <2>2, <2>3
    <2> QED BY <1>2, <2>3, <2>4 DEF Decide, base
  <1>3. CASE ToIntent
    BY <1>3, DecisionAssumption DEF ToIntent
  <1>4. CASE Validate
    BY <1>4 DEF Validate
  <1>5. CASE Leave
    BY <1>5 DEF Leave, Finish
  <1>6. CASE UNCHANGED vars
    BY <1>6 DEF vars
  <1> QED
    BY <1>1, <1>2, <1>3, <1>4, <1>5, <1>6 DEF Next

\* The invariant holds in every reachable state.
LEMMA Invariance == Spec => []IInv
  BY Initial, NextKeeps, PTL DEF Spec

-----------------------------------------------------------------------------
(* The theorems.                                                           *)

\* Every variable of a decision keeps its type: in particular the strength of a
\* signal is a fraction, and an intent has a positive quantity.
THEOREM DecisionTypeCorrect == Spec => []TypeOK
  <1>1. IInv => TypeOK
    <2> SUFFICES ASSUME IInv PROVE TypeOK
      OBVIOUS
    <2>1. DecidedSide(raw) \in {"long", "short", "flat"}
      BY DEF DecidedSide
    <2>2. stage \in {"proposed", "approved"} =>
            intent \in [symbol : Symbols \cup {Malformed}, side : {"long", "short"},
                        quantity : Nat \ {0}]
      BY <2>1 DEF IInv, Decided, Proposed
    <2>3. /\ sym \in IF stage = "idle" THEN {None} ELSE Symbols
          /\ market \in IF stage = "idle" THEN {None} ELSE Markets
          /\ stage # "idle" =>
                signal \in [side : {"long", "short", "flat"}, strength : 0 .. 10000]
      BY DEF IInv, Observed, Signals
    <2> QED
      BY <2>2, <2>3 DEF IInv, TypeOK
  <1> QED BY <1>1, Invariance, PTL

\* No order comes from a decision that does not conform to the schema, whatever
\* the answer (decide, validate_decision).
THEOREM OrdersConform == Spec => []OnlyConformingTrades
  <1>1. IInv => OnlyConformingTrades
    <2>1. ~Conforms(raw) => DecidedSide(raw) = "flat"
      BY DEF DecidedSide
    <2> QED BY <2>1 DEF IInv, Proposed, OnlyConformingTrades
  <1> QED BY <1>1, Invariance, PTL

\* A signal that is not below the limit of the baseline reaches it.
LEMMA NotWeak ==
  ASSUME NEW s \in Signals, ~(s.strength < 1500)
  PROVE  s.strength >= 1500
  <1> DEFINE x == s.strength
  <1>1. x \in 0 .. 10000
    BY DEF Signals
  <1>2. ~(x < 1500)
    OBVIOUS
  <1> HIDE DEF x
  <1>3. x >= 1500
    BY <1>1, <1>2
  <1> QED BY <1>3 DEF x

\* Without an answer of the AI the order is the one the signal asks for
\* (_baseline_from_signal, to_intent).
THEOREM FallbackIsTheSignal == Spec => []FallbackFollowsSignal
  <1>1. IInv => FallbackFollowsSignal
    <2> SUFFICES ASSUME IInv, stage = "approved", answer = None
                 PROVE  /\ signal.strength >= 1500
                        /\ intent = [symbol |-> sym, side |-> signal.side,
                             quantity |-> BaselineQuantity(market.price[sym], market.equity)]
      BY DEF FallbackFollowsSignal
    <2>1. signal \in Signals
      BY DEF IInv, Observed
    <2>2. raw = Baseline(signal, sym, market.price[sym], market.equity)
      BY DEF IInv, Decided
    <2>3. DecidedSide(raw) # "flat"
          /\ intent = [symbol |-> raw.symbol, side |-> DecidedSide(raw),
                       quantity |-> raw.quantity]
      BY DEF IInv, Proposed
    <2>4. ~(signal.side = "flat" \/ signal.strength < 1500)
      BY <2>2, <2>3 DEF Baseline, DecidedSide
    <2>5. raw = [action |-> IF signal.side = "long" THEN "BUY" ELSE "SELL",
                 symbol |-> sym,
                 quantity |-> BaselineQuantity(market.price[sym], market.equity),
                 rest |-> TRUE]
      BY <2>2, <2>4 DEF Baseline
    <2>6. DecidedSide(raw) = signal.side
      BY <2>1, <2>3, <2>4, <2>5 DEF DecidedSide, Signals
    <2>7. raw.symbol = sym
          /\ raw.quantity = BaselineQuantity(market.price[sym], market.equity)
      BY <2>5
    <2>8. signal.strength >= 1500
      BY <2>1, <2>4, NotWeak
    <2> QED BY <2>3, <2>6, <2>7, <2>8
  <1> QED BY <1>1, Invariance, PTL

\* What an answer does not say comes from a signal that is strong enough
\* (decide, _baseline_from_signal, to_intent).
THEOREM GapsAreTheSignals == Spec => []SignalFillsGaps
  <1>1. IInv => SignalFillsGaps
    <2> DEFINE base == Baseline(signal, sym, market.price[sym], market.equity)
               size == BaselineQuantity(market.price[sym], market.equity)
    <2> SUFFICES ASSUME IInv, stage = "approved", answer # None,
                        None \in {answer.action, answer.quantity}
                 PROVE  /\ signal.strength >= 1500
                        /\ answer.action = None => intent.side = signal.side
                        /\ answer.quantity = None => intent.quantity = size
      BY DEF SignalFillsGaps
    <2>1. signal \in Signals
      BY DEF IInv, Observed
    <2>2. raw = Merged(base, answer)
      BY DEF IInv, Decided
    <2>3. /\ DecidedSide(raw) # "flat" /\ raw.quantity \in Nat
          /\ intent.side = DecidedSide(raw) /\ intent.quantity = raw.quantity
      BY DEF IInv, Proposed
    <2>4. /\ answer.action = None => raw.action = base.action
          /\ answer.quantity = None => raw.quantity = base.quantity
      BY <2>2 DEF Merged, Baseline
    <2>5. ~(signal.side = "flat" \/ signal.strength < 1500)
      <3> SUFFICES ASSUME signal.side = "flat" \/ signal.strength < 1500 PROVE FALSE
        OBVIOUS
      <3>1. base.action = "HOLD" /\ base.quantity = None
        BY DEF Baseline
      <3>2. answer.action # None
        BY <2>3, <2>4, <3>1 DEF DecidedSide
      <3>3. answer.quantity # None
        BY <2>3, <2>4, <3>1, DecisionAssumption
      <3> QED BY <3>2, <3>3
    <2>6. /\ base.action = IF signal.side = "long" THEN "BUY" ELSE "SELL"
          /\ base.quantity = size
      BY <2>5 DEF Baseline
    <2>7. answer.action = None => intent.side = signal.side
      BY <2>1, <2>3, <2>4, <2>5, <2>6 DEF DecidedSide, Signals
    <2>8. signal.strength >= 1500
      BY <2>1, <2>5, NotWeak
    <2> QED BY <2>3, <2>4, <2>6, <2>7, <2>8
  <1> QED BY <1>1, Invariance, PTL

\* Bulls and bears are treated alike (from_snapshot): no side of the market has
\* a lower threshold or a stronger signal.
THEOREM BullsAndBearsAlike == Spec => []MirroredSignals
  <1>1. IInv => MirroredSignals
    BY SignalMirrored DEF IInv, Observed, MirroredSignals
  <1> QED BY <1>1, Invariance, PTL
=============================================================================
