\* Three tasks that validate, kill and record, their writes in any order.
SPECIFICATION RiskSpec
SYMMETRY MCSymmetry
CONSTANTS
    FailureThreshold = 1
    Callers = {c1, c2, c3}
    Equities <- MCEquities
    MaxLossPct = 10
    None = None
INVARIANTS
    OneLateApproval
    LossLimitEnforced
    SealedKillSurvives
