\* Two symbols, of which one may have no price; no equity or 2000.
SPECIFICATION Spec
CONSTANTS
    Symbols = {btc, eth}
    Rsis <- MCRsis
    Trends <- MCTrends
    Momenta <- MCMomenta
    Volatilities <- MCVolatilities
    Atrs = {0, 3}
    Prices = {0, 1, 4}
    Equities = {0, 2000}
    Quantities <- MCQuantities
    MaxPositionPct = 1
    HardCap = 12
    RiskPct = 1
    AtrMultiplier = 1
    Text = Text
    Malformed = Malformed
    None = None
SYMMETRY MCSymmetry
INVARIANTS
    OnlyConformingTrades
    FallbackFollowsSignal
    SignalFillsGaps
    MirroredSignals
