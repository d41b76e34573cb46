\* Two intents with one idempotency key, two tasks, paper and live trading.
SPECIFICATION Spec
CONSTANTS
    FailureThreshold = 2
    Symbols = {"BTC"}
    BaseAsset <- MCBaseAsset
    InitialEquity = 10
    Tasks = {t1, t2}
    Ids = {"buy1", "buy2"}
    Intent <- MCIntent
    Prices = {3}
    NoTask = NoTask
    NoId = NoId
INVARIANTS
    OneExecutionPerKey
    SettledOrdersAgree
PROPERTIES
    OnlyOrphansCancelled
    CallsReturn
    LostOrdersCancelled
    ImplementsOrderBook
