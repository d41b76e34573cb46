\* Two cycles, the market stream and the snapshot loop over three symbols.
SPECIFICATION MCSpec
CONSTANTS
    Symbols = {"BTC/USDT", "BTC/EUR", "SOL/USDT"}
    BaseAsset <- MCBaseAsset
    InitialEquity = 2
    Cycles = {k1, k2}
    Stream = Stream
    Snapshots = Snapshots
    Quantities = {1}
    Prices = {1, 2}
    MaxFills = 2
INVARIANTS
    FillsRebuildAccount
    RecordedRowCoherent
    DecidedOnRealPortfolio
    LiveNeverTrades
    PassVisits
PROPERTIES
    StreamComesBack
