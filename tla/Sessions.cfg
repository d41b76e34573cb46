\* Two tasks, an administrator and one more account, two sessions.
SPECIFICATION Spec
CONSTANTS
    Tasks = {t1, t2}
    Users = {root, user}
    Admin = root
    Sids = {s1, s2}
    Roles = {"viewer", "admin"}
    MaxAttempts = 1
    None = None
SYMMETRY MCSymmetry
INVARIANTS
    OnlyLiveSessionsAct
    OnlyEntitledAct
    AttemptsBounded
