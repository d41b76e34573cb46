\* Two versions of one and two statements, three requests, of which one changes nothing, two passwords.
SPECIFICATION Spec
CONSTANTS
    BaseSize = 2
    Versions = 2
    Size <- MCSize
    Passwords = {p1, p2}
    Requests = {r1, r2, r3}
    Empty = {r3}
    Cash <- MCCash
    None = None
INVARIANTS
    SchemaWhole
    LastShownIsValid
    AnsweredIsAudited
    ReconciliationBlind
PROPERTIES
    LockedOutOnceTrading
    EveryStartEnds
