\* The dedup table across a restart: one intent, one task.
SPECIFICATION Spec
CONSTANTS
    FailureThreshold = 1
    Symbols = {"BTC"}
    BaseAsset <- MCBaseAsset
    InitialEquity = 10
    Tasks = {t1}
    Ids = {"buy1"}
    Intent <- MCIntent
    Prices = {3}
    NoTask = NoTask
    NoId = NoId
INVARIANTS
    AckedIsDurable
