\* Two cycles of two symbols each, one operator.
SPECIFICATION Spec
CONSTANTS
    FailureThreshold = 1
    Cycles = {k1, k2}
    Operators = {op}
    Callers = {k1, k2, op}
    Equities <- MCEquities
    MaxLossPct = 10
    MaxSymbols = 2
    None = None
    NoCycle = NoCycle
PROPERTIES
    OnlyDisarms
    BreakerStaysOpen
    QuietWhenDisabled
