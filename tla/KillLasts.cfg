\* An answered kill across a restart, with no database fault but the lock.
SPECIFICATION HistorySpec
CONSTANTS
    FailureThreshold = 1
    Cycles = {k1}
    Operators = {op}
    Callers = {k1, op}
    Equities <- MCEquities
    MaxLossPct = 10
    MaxSymbols = 1
    None = None
    NoCycle = NoCycle
INVARIANTS
    KillLasts
