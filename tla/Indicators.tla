------------------------------ MODULE Indicators ------------------------------
(***************************************************************************)
(* trade_post/market/indicators.py.  Prices are integers; each definition  *)
(* divides exactly if the prices are multiples of the powers it divides by *)
(* (Scaled).  A square root is left out: BandsSquared is the square of the *)
(* distance of the bands; the volatility, a number made of ratios, is left *)
(* out, not that its ratios can fail.                                      *)
(***************************************************************************)
EXTENDS Integers, FiniteSetsExt, SequencesExt

CONSTANTS
    Candles,              \* candles of the exchange: high, low, close, volume
    Limit,                \* settings.market_data_ohlcv_limit
    Periods,              \* periods of averages
    Fast, Slow, Signal,   \* periods of the MACD: 12, 26, 9
    RsiPeriod, AtrPeriod, BandPeriod,    \* 14, settings.atr_period, 20
    Missing,              \* what the code calls None
    Raised                \* an exception

ASSUME IndicatorsAssumption ==
    /\ Candles \subseteq [high : Nat, low : Nat, close : Nat, volume : Nat]
    /\ \A c \in Candles : c.low <= c.close /\ c.close <= c.high
    /\ Limit \in Nat \ {0} /\ Periods \subseteq Nat \ {0, 1}
    /\ {Fast, Slow, Signal} \subseteq Nat \ {0} /\ Fast <= Slow
    /\ {RsiPeriod, AtrPeriod, BandPeriod} \subseteq Nat
    /\ Missing \notin Int \cup (Int \X Int) \cup [macd : Int, signal : Int, histogram : Int]

VARIABLE candles    \* what fetch_ohlcv answers now

\* The exchange completes a candle; the answer holds the latest of them.
Feed ==
    \E c \in Candles :
        candles' = IF Len(candles) < Limit THEN Append(candles, c) ELSE Append(Tail(candles), c)

SeriesInit == candles = <<>>
SeriesSpec == SeriesInit /\ [][Feed]_candles

Total(xs) == FoldLeft(LAMBDA sum, x : sum + x, 0, xs)

Latest(xs, n) == SubSeq(xs, Len(xs) - n + 1, Len(xs))

Mapped(Op(_), xs) == [i \in DOMAIN xs |-> Op(xs[i])]

-----------------------------------------------------------------------------
(* Averages.                                                               *)

Sma(xs, period) ==
    IF period = 0 \/ Len(xs) < period
    THEN Missing ELSE Total(Latest(xs, period)) \div period

\* Mutant: the weights of the new and of the old value are swapped.
BlendSwapped(e, x, old, new) == (new * e + old * x) \div (old + new)

\* The average e and the next value x, weighted old to new.
Blend(e, x, old, new) == (old * e + new * x) \div (old + new)

Smoothed(xs, base, old, new) == FoldLeft(LAMBDA e, x : Blend(e, x, old, new), base, xs)

EmaFold(xs, period) == Smoothed(Tail(xs), Head(xs), period - 1, 2)

Ema(xs, period) ==
    IF period = 0 \/ Len(xs) < period THEN Missing ELSE EmaFold(xs, period)

\* The average of RSI and ATR: the mean of the first values, then smoothed.
Wilder(xs, period) ==
    Smoothed(SubSeq(xs, period + 1, Len(xs)),
             Total(SubSeq(xs, 1, period)) \div period, period - 1, 1)

-----------------------------------------------------------------------------
(* Indicators of closes.                                                   *)

Moves(xs) == [i \in 1 .. Len(xs) - 1 |-> xs[i + 1] - xs[i]]
Gains(xs) == Mapped(LAMBDA d : Max({d, 0}), Moves(xs))
Losses(xs) == Mapped(LAMBDA d : Max({-d, 0}), Moves(xs))

\* Mutant: without a loss RSI is 100.
FractionOfGainsOnly(gain, loss) ==
    IF loss = 0 THEN <<100, 1>> ELSE <<100 * gain, gain + loss>>

\* 100 - 100 / (1 + gain / loss).
FractionOfGains(gain, loss) ==
    IF loss = 0 THEN IF gain > 0 THEN <<100, 1>> ELSE <<50, 1>>
    ELSE <<100 * gain, gain + loss>>

\* A numerator and a denominator.
Rsi(xs, period) ==
    IF period = 0 \/ Len(xs) <= period THEN Missing
    ELSE FractionOfGains(Wilder(Gains(xs), period), Wilder(Losses(xs), period))

\* From the second close on.
MacdLine(xs) ==
    [i \in 1 .. Len(xs) - 1 |->
        LET prefix == SubSeq(xs, 1, i + 1)
        IN  EmaFold(prefix, Fast) - EmaFold(prefix, Slow)]

Macd(xs) ==
    IF Len(xs) < Slow + Signal THEN Missing
    ELSE LET line == MacdLine(xs)
             sig == EmaFold(line, Signal)
         IN  [macd |-> Last(line), signal |-> sig, histogram |-> Last(line) - sig]

\* Mutant: the bands want exactly one period of closes.
BandsSquaredExactly(xs, period) ==
    IF period <= 1 \/ Len(xs) # period THEN Missing
    ELSE LET mean == Total(xs) \div period
         IN  (4 * Total(Mapped(LAMBDA x : (x - mean) * (x - mean), xs))) \div period

\* Two standard deviations to each side of the mean.
BandsSquared(xs, period) ==
    IF period <= 1 \/ Len(xs) < period THEN Missing
    ELSE LET mean == Sma(xs, period)
         IN  (4 * Total(Mapped(LAMBDA x : (x - mean) * (x - mean), Latest(xs, period))))
               \div period

-----------------------------------------------------------------------------
(* Indicators of candles.                                                  *)

Closes == Mapped(LAMBDA c : c.close, candles)

Abs(x) == Max({x, -x})

\* Mutant: gaps between candles are not counted.
TrueRangeWithin(candle, before) == candle.high - candle.low

TrueRange(candle, before) ==
    Max({candle.high - candle.low, Abs(candle.high - before.close),
         Abs(candle.low - before.close)})

TrueRanges(cs) == [i \in 1 .. Len(cs) - 1 |-> TrueRange(cs[i + 1], cs[i])]

Atr(cs, period) ==
    IF period = 0 \/ Len(cs) < period + 1 THEN Missing ELSE Wilder(TrueRanges(cs), period)

\* A numerator and a denominator.
Vwap(cs) ==
    LET volume == Total(Mapped(LAMBDA c : c.volume, cs))
    IN  IF volume = 0 THEN Missing
        ELSE <<Total(Mapped(LAMBDA c : (c.high + c.low + c.close) * c.volume, cs)), 3 * volume>>

\* The returns, whatever is wanted of them, divide by every close but the last.
ComputeAll(cs) ==
    LET closes == Mapped(LAMBDA c : c.close, cs)
    IN  IF \E i \in 1 .. Len(closes) - 1 : closes[i] = 0 THEN Raised
        ELSE [rsi |-> Rsi(closes, RsiPeriod), macd |-> Macd(closes),
              ema_fast |-> Ema(closes, Fast), ema_slow |-> Ema(closes, Slow),
              sma |-> Sma(closes, BandPeriod), bollinger |-> BandsSquared(closes, BandPeriod),
              atr |-> Atr(cs, AtrPeriod), vwap |-> Vwap(cs)]

-----------------------------------------------------------------------------
(* Properties.                                                             *)

Scaled(xs, factor) == Mapped(LAMBDA x : factor * x, xs)
ScaledCandles(cs, factor) ==
    Mapped(LAMBDA c : [high |-> factor * c.high, low |-> factor * c.low,
                       close |-> factor * c.close, volume |-> c.volume], cs)

\* The same market upside down, and the same market at another price level.
Mirrored(xs) == Mapped(LAMBDA x : -x, xs)
Shifted(xs, by) == Mapped(LAMBDA x : x + by, xs)

Product(xs) == FoldLeft(LAMBDA product, x : product * x, 1, xs)
Power(b, n) == Product([i \in 1 .. n |-> b])

\* What the smoothed average of ys from base stands for, times (old + new)^Len(ys).
Weighted(ys, base, old, new) ==
    Power(old, Len(ys)) * base
      + Total([i \in DOMAIN ys |->
                 Power(old, Len(ys) - i) * new * Power(old + new, i - 1) * ys[i]])

\* The momentum indicators read moves alone, and rises as they read falls: RSI and
\* MACD do not change with the level of prices, and are mirrored when the market is
\* turned upside down.  RSI is 50 when the market does not move and an extreme, 0 or
\* 100, exactly when no close of the whole series goes the other way.
MomentumMirrored ==
    LET xs == Closes
        n == Len(xs)
        rises == \E d \in ToSet(Moves(xs)) : d > 0
        falls == \E d \in ToSet(Moves(xs)) : d < 0
    IN  /\ \A period \in Periods : n > period =>
            LET scaled == Scaled(xs, Power(period, n - period))
                r == Rsi(scaled, period)
                mirrored == Rsi(Mirrored(scaled), period)
            IN  /\ Rsi(Shifted(scaled, scaled[1]), period) = r
                /\ r[1] * mirrored[2] + mirrored[1] * r[2] = 100 * r[2] * mirrored[2]
                /\ r[1] = 0 <=> falls /\ ~rises
                /\ r[1] = 100 * r[2] <=> rises /\ ~falls
                /\ ~rises /\ ~falls => r[1] = 50 * r[2]
        /\ n >= Slow + Signal =>
            LET fine == Scaled(xs, Power(Fast + 1, n - 1) * Power(Slow + 1, n - 1)
                                     * Power(Signal + 1, n - 2))
                m == Macd(fine)
            IN  /\ Macd(Shifted(fine, fine[1])) = m
                /\ Macd(Mirrored(fine)) =
                     [macd |-> -m.macd, signal |-> -m.signal, histogram |-> -m.histogram]

\* The loops compute the weighted sums they stand for: every value of the series
\* counts, with a weight that shrinks geometrically into the past.
AveragesAreWeighted ==
    LET xs == Closes
        n == Len(xs)
    IN  \A period \in Periods : n >= period =>
            /\ Ema(Scaled(xs, Power(period + 1, n - 1)), period)
                 = Weighted(Tail(xs), Head(xs), period - 1, 2)
            /\ Wilder(Scaled(xs, Power(period, n - period + 1)), period)
                 = Weighted(Scaled(SubSeq(xs, period + 1, n), period),
                            Total(SubSeq(xs, 1, period)), period - 1, 1)

\* The ATR, which the size of a position is divided by, is no smaller than the
\* same average of the moves from close to close, gaps between candles included,
\* and no larger than the spread of all prices; the VWAP lies within that spread.
RangesCoverMoves ==
    \A period \in Periods : candles # <<>> =>
        LET factor == Power(period, Len(candles))
            scaled == ScaledCandles(candles, factor)
            atr == Atr(scaled, period)
            high == Max({c.high : c \in ToSet(scaled)})
            low == Min({c.low : c \in ToSet(scaled)})
            moves == Mapped(Abs, Moves(Scaled(Closes, factor)))
            vwap == Vwap(scaled)
        IN  /\ atr # Missing => Wilder(moves, period) <= atr /\ atr <= high - low
            /\ vwap # Missing => low * vwap[2] <= vwap[1] /\ vwap[1] <= high * vwap[2]

Known(indicators) == {k \in DOMAIN indicators : indicators[k] # Missing}

\* An indicator that is there does not go missing when the next candles come,
\* save the VWAP of a window without volume; only while a close of zero is in the
\* window, and not the last, there are none at all.
WarmsUpOnce ==
    [][LET before == ComputeAll(candles)
           after == ComputeAll(candles')
       IN  before # Raised /\ after # Raised =>
             Known(before) \ {"vwap"} \subseteq Known(after)]_candles
=============================================================================
