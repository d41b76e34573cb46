------------------------------- MODULE Decision -------------------------------
(***************************************************************************)
(* From what the market looks like to an order: the deterministic signal   *)
(* (trade_post/strategy/signals.py), the decision that merges it with the  *)
(* answer of the AI and is held against schema v1 (ai/brain.py,            *)
(* ai/schemas.py), the intent, and the caps and sizing of the risk engine  *)
(* (risk/engine.py), for one symbol of a cycle after the other.            *)
(*                                                                         *)
(* Numbers are integers.  Trend, momentum and volatility count thousandths,*)
(* score and strength ten-thousandths, quantities the eighth decimal, to   *)
(* which the code rounds; an indicator that is missing, other than RSI, is *)
(* 0 as it is to the code.  Amounts of money are in the unit that fits.  Of*)
(* an answer it matters what it says to do and whether it conforms.        *)
(***************************************************************************)
EXTENDS Integers, FiniteSetsExt

CONSTANTS
    Symbols,                                 \* symbols that are traded
    Rsis, Trends, Momenta, Volatilities,     \* values of the indicators
    Atrs,                                    \* average true ranges, 0 for none
    Prices,                                  \* last prices, 0 for none
    Equities,                                \* equities of the portfolio
    Quantities,                              \* numbers an answer has as quantity
    MaxPositionPct, HardCap,                 \* settings of the caps
    RiskPct, AtrMultiplier,                  \* settings of the sizing
    Text,                                    \* a string that is no number
    Malformed,                               \* a value of a type the schema forbids
    None                                     \* absent

ASSUME DecisionAssumption ==
    /\ Rsis \subseteq 0 .. 100 \cup {None}
    /\ Trends \cup Momenta \cup Quantities \subseteq Int
    /\ Volatilities \cup Prices \cup Atrs \cup Equities \subseteq Nat
    /\ {MaxPositionPct, HardCap, RiskPct, AtrMultiplier} \subseteq Nat
    /\ None \notin Symbols \cup Quantities \cup {Text, Malformed} /\ None \notin Nat
    /\ Malformed \notin Symbols \cup Quantities \cup {Text}
    /\ Text \notin Quantities

\* The unit of the momenta is fine enough for their quotients with volatilities.
ASSUME ExactAssumption ==
    \A x \in Momenta, v \in Volatilities :
        LET d == Max({1000, v})
        IN  d * ((1000 * x) \div d) = 1000 * x

VARIABLES
    stage,     \* how far the cycle is with the symbol
    sym,       \* the symbol it looks at
    market,    \* what the market looks like
    signal,    \* the deterministic signal
    answer,    \* the answer of the AI, or None
    raw,       \* raw_output of the decision
    intent     \* the intent, or None

vars == <<stage, sym, market, signal, answer, raw, intent>>

Markets == [rsi : Rsis, trend : Trends, momentum : Momenta,
            volatility : Volatilities, atr : Atrs, equity : Equities,
            price : [Symbols -> Prices]]

\* "buy" stands for the words that read as an action once in upper case, and
\* that the schema does not know.
Answers == [action : {None, "BUY", "SELL", "HOLD", "buy"},
            symbol : Symbols \cup {None, Malformed},
            quantity : Quantities \cup {None, Text, Malformed},
            rest : BOOLEAN]   \* confidence, prices and rationale conform

Init ==
    /\ stage = "idle"
    /\ sym = None
    /\ market = None
    /\ signal = None
    /\ answer = None
    /\ raw = None
    /\ intent = None

-----------------------------------------------------------------------------
(* The signal.                                                             *)

Clip(x, lo, hi) == Max({lo, Min({hi, x})})

\* n / d to the nearest integer.
Rounded(n, d) == (2 * n + d) \div (2 * d)

\* An RSI of 0 is false in Python and becomes 50, like one that is missing.
Rsi(ind) == IF ind.rsi \in {None, 0} THEN 50 ELSE ind.rsi

MeanRev(r) ==
    CASE r <= 30 -> 100 * (30 - r)
      [] r >= 70 -> -100 * (r - 70)
      [] OTHER   -> 0

Score(ind) ==
    5 * ind.trend + MeanRev(Rsi(ind))
        + 2 * Clip((1000 * ind.momentum) \div Max({1000, ind.volatility}), -1000, 1000)

Threshold(ind) == Clip(10 * ind.volatility, 200, 2000)

Strength(x, lo, hi) == Clip(Rounded(10000 * (x - lo), hi - lo), 0, 10000)

\* Mutant: the strength of a short is that of its negative score.
FromSnapshotOneSided(ind) ==
    LET score == Score(ind)
        threshold == Threshold(ind)
        strength == Strength(score, threshold, Max({5000, 4 * threshold}))
    IN  CASE score > threshold  -> [side |-> "long", strength |-> strength]
          [] score < -threshold -> [side |-> "short", strength |-> strength]
          [] OTHER              -> [side |-> "flat", strength |-> 0]

FromSnapshot(ind) ==
    LET score == Score(ind)
        threshold == Threshold(ind)
        strength(x) == Strength(x, threshold, Max({5000, 4 * threshold}))
    IN  CASE score > threshold  -> [side |-> "long", strength |-> strength(score)]
          [] score < -threshold -> [side |-> "short", strength |-> strength(-score)]
          [] OTHER              -> [side |-> "flat", strength |-> 0]

-----------------------------------------------------------------------------
(* The decision.                                                           *)

\* Half a percent of the equity.
BaselineQuantity(price, equity) ==
    IF price > 0 THEN Rounded(equity, 200 * price) ELSE 0

\* Mutant: a weak signal is traded like a strong one, and a flat one sold.
BaselineTrading(sig, symbol, price, equity) ==
    [action |-> IF sig.side = "long" THEN "BUY" ELSE "SELL",
     symbol |-> symbol, quantity |-> BaselineQuantity(price, equity), rest |-> TRUE]

\* Mutant: the size of the baseline does not depend on the signal.
BaselineSized(sig, symbol, price, equity) ==
    [action |-> IF sig.side = "flat" \/ sig.strength < 1500 THEN "HOLD"
                ELSE IF sig.side = "long" THEN "BUY" ELSE "SELL",
     symbol |-> symbol, quantity |-> BaselineQuantity(price, equity), rest |-> TRUE]

\* _baseline_from_signal.
Baseline(sig, symbol, price, equity) ==
    IF sig.side = "flat" \/ sig.strength < 1500
    THEN [action |-> "HOLD", symbol |-> symbol, quantity |-> None, rest |-> TRUE]
    ELSE [action |-> IF sig.side = "long" THEN "BUY" ELSE "SELL",
          symbol |-> symbol, quantity |-> BaselineQuantity(price, equity), rest |-> TRUE]

\* What the answer gives replaces what the baseline says.
Merged(base, a) ==
    [base EXCEPT !.action   = IF a.action = None THEN @ ELSE a.action,
                 !.symbol   = IF a.symbol = None THEN @ ELSE a.symbol,
                 !.quantity = IF a.quantity = None THEN @ ELSE a.quantity,
                 !.rest     = a.rest]

\* validate_decision, against DECISION_SCHEMA_V1.
Conforms(r) ==
    /\ r.action \in {"BUY", "SELL", "HOLD"}
    /\ r.symbol # Malformed
    /\ r.quantity # Malformed
    /\ r.rest

\* Mutant: a decision that does not conform is recorded as such, and used.
DecidedSideUnchecked(r) ==
    CASE r.action \in {"BUY", "buy"} -> "long"
      [] r.action = "SELL" -> "short"
      [] OTHER -> "flat"

\* The signal of the decision.
DecidedSide(r) ==
    CASE Conforms(r) /\ r.action = "BUY"  -> "long"
      [] Conforms(r) /\ r.action = "SELL" -> "short"
      [] OTHER -> "flat"

-----------------------------------------------------------------------------
(* The cycle.                                                              *)

\* Done with the symbol, or with the cycle.
Finish ==
    /\ stage' = "idle"
    /\ sym' = None
    /\ market' = None
    /\ signal' = None
    /\ answer' = None
    /\ raw' = None
    /\ intent' = None

Observe(s, m) ==
    /\ stage = "idle"
    /\ stage' = "observed"
    /\ sym' = s
    /\ market' = m
    /\ signal' = FromSnapshot(m)
    /\ UNCHANGED <<answer, raw, intent>>

\* decide, with the answer of the AI, or without one when the breaker is open
\* or chat_json has failed.
Decide(a) ==
    /\ stage = "observed"
    /\ stage' = "decided"
    /\ answer' = a
    /\ LET base == Baseline(signal, sym, market.price[sym], market.equity)
       IN  raw' = IF a = None THEN base ELSE Merged(base, a)
    /\ UNCHANGED <<sym, market, signal, intent>>

\* to_intent.  A quantity that is missing, no number, or not positive raises.
ToIntent ==
    /\ stage = "decided"
    /\ DecidedSide(raw) # "flat"
    /\ raw.quantity \in Quantities \cup Nat
    /\ raw.quantity > 0
    /\ stage' = "proposed"
    /\ intent' = [symbol |-> raw.symbol, side |-> DecidedSide(raw), quantity |-> raw.quantity]
    /\ UNCHANGED <<sym, market, signal, answer, raw>>

\* Quantity q at price p is within the caps of a position.
WithinCaps(q, p, equity) ==
    /\ 100 * q * p <= equity * MaxPositionPct
    /\ q * p <= HardCap

\* Losing the multiple of the ATR on quantity q costs no more than the risk of
\* a trade.
WithinRisk(q, atr, equity) == 100 * q * atr * AtrMultiplier <= equity * RiskPct

\* The checks of validate that are on the order itself; market is that of the
\* symbol the cycle looks at.  A quantity beyond the risk is assigned to the
\* frozen intent, which raises.
Validate ==
    /\ stage = "proposed"
    /\ market.equity > 0
    /\ WithinCaps(intent.quantity, market.price[sym], market.equity)
    /\ WithinRisk(intent.quantity, market.atr, market.equity)
    /\ stage' = "approved"
    /\ UNCHANGED <<sym, market, signal, answer, raw, intent>>

\* FLAT, rejected (also by the checks RiskEngine models), submitted, or any
\* exception, which ends the cycle.
Leave ==
    /\ stage # "idle"
    /\ Finish

Next ==
    \/ \E s \in Symbols, m \in Markets : Observe(s, m)
    \/ \E a \in Answers \cup {None} : Decide(a)
    \/ ToIntent
    \/ Validate
    \/ Leave

Spec == Init /\ [][Next]_vars

-----------------------------------------------------------------------------
(* Properties.                                                             *)

\* Every variable has the type its declaration says.
TypeOK ==
    /\ stage \in {"idle", "observed", "decided", "proposed", "approved"}
    /\ sym \in IF stage = "idle" THEN {None} ELSE Symbols
    /\ market \in IF stage = "idle" THEN {None} ELSE Markets
    /\ stage # "idle" =>
        signal \in [side : {"long", "short", "flat"}, strength : 0 .. 10000]
    /\ answer \in Answers \cup {None}
    /\ stage \in {"proposed", "approved"} =>
        intent \in [symbol : Symbols \cup {Malformed}, side : {"long", "short"},
                    quantity : Nat \ {0}]

\* Whatever part of it came from the AI, an order comes from a decision that
\* conforms to the schema.
OnlyConformingTrades == stage = "approved" => Conforms(raw)

\* Without an answer the order is the signal's: its symbol, its direction, and
\* half a percent of the equity; and no order comes from a weak signal.
FallbackFollowsSignal ==
    stage = "approved" /\ answer = None =>
        /\ signal.strength >= 1500
        /\ intent = [symbol |-> sym, side |-> signal.side,
                     quantity |-> BaselineQuantity(market.price[sym], market.equity)]

\* What an answer leaves out, the side or the size of the order, comes from the
\* signal, and a weak signal has neither: an answer that says BUY and not how much,
\* or how much and not what, makes an order of a strong signal only.
SignalFillsGaps ==
    stage = "approved" /\ answer # None /\ None \in {answer.action, answer.quantity} =>
        /\ signal.strength >= 1500
        /\ answer.action = None => intent.side = signal.side
        /\ answer.quantity = None =>
              intent.quantity = BaselineQuantity(market.price[sym], market.equity)

\* The caps at the price of symbol s, and the risk of a trade.
Bounded(s) ==
    /\ WithinCaps(intent.quantity, market.price[s], market.equity)
    /\ WithinRisk(intent.quantity, market.atr, market.equity)

Mirror(m) ==
    [m EXCEPT !.rsi = IF @ = None THEN None ELSE 100 - @,
              !.trend = -@, !.momentum = -@]

Opposite(side) ==
    CASE side = "long" -> "short" [] side = "short" -> "long" [] OTHER -> "flat"

\* Bulls and bears are treated alike: of the mirrored market the signal is the
\* opposite one and as strong, unless the RSI is at one of its ends.
MirroredSignals ==
    stage = "observed" /\ market.rsi \notin {0, 100} =>
        FromSnapshot(Mirror(market))
            = [side |-> Opposite(signal.side), strength |-> signal.strength]

\* What TRADEPOSTPRD.md:88 says of position_size: it is within the caps.
OrdersBounded == stage = "approved" => Bounded(intent.symbol)
=============================================================================
