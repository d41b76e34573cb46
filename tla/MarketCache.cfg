\* Two tasks; requests take up to one step of the clock.  Series of up to five
\* candles of three prices.
SPECIFICATION MCSpec
CONSTANTS
    Tasks = {t1, t2}
    MaxStale = 2
    Latency = 1
    MaxTime = 7
    None = None
    Candles <- MCCandles
    Limit = 5
    Periods = {2, 3}
    Fast = 1
    Slow = 2
    Signal = 3
    RsiPeriod = 2
    AtrPeriod = 3
    BandPeriod = 3
    Missing = Missing
    Raised = Raised
INVARIANTS
    PassedAgeBounded
    MomentumMirrored
    AveragesAreWeighted
    RangesCoverMoves
PROPERTIES
    CacheSetbackBounded
    WarmsUpOnce
