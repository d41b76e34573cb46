--------------------------- MODULE KillDurability ---------------------------
(* Orchestrator with the history of the operators' kill requests.          *)
EXTENDS MCOrchestrator

VARIABLE acknowledged    \* some kill request was answered with success

\* After the kill the request records an event in a session of its own, and
\* answers with an error when that fails.
HistoryNext ==
    /\ LockOnlyNext
    /\ acknowledged' = (acknowledged \/ \E o \in Operators : Answer(o) /\ ~locked)

HistorySpec ==
    Init /\ acknowledged = FALSE /\ [][HistoryNext]_<<vars, acknowledged>>

\* A kill that was answered with success holds until somebody clears it; no code
\* clears it, so that it holds for ever.
KillLasts == acknowledged => risk.killed
=============================================================================
