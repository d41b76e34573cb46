--------------------------- MODULE MCOrchestrator ---------------------------
(* Small instances of Orchestrator: a scan loop and an on-demand analysis, *)
(* and the requests of one operator.                                       *)
EXTENDS Orchestrator

MCEquities == {9, 10}

\* No fault of the database but the write lock: a write fails only when locked.
LockOnlyNext == Next /\ (locked \/ \A c \in Callers : WriteFails(c) => row = writes[c])

LockOnlySpec == Init /\ [][LockOnlyNext]_vars
=============================================================================
