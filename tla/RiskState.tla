----------------------------- MODULE RiskState -----------------------------
(***************************************************************************)
(* The in-memory RiskState of trade_post/risk/engine.py and what each call *)
(* of the risk engine does to it, as operators on a record, so that every  *)
(* module that composes the risk engine with another part uses the same.   *)
(*                                                                         *)
(* failures stands for failures_in_window saturated at the threshold: the  *)
(* code only compares it with >= threshold and resets it to 0.             *)
(* baseline stands for starting_equity, 0 for None.                        *)
(***************************************************************************)
EXTENDS Integers

CONSTANT FailureThreshold    \* settings.circuit_breaker_failure_threshold

ASSUME FailureThresholdAssumption == FailureThreshold \in Nat \ {0}

RiskRecord ==
    [killed : BOOLEAN, failures : 0 .. FailureThreshold,
     circuitOpen : BOOLEAN, baseline : Nat]

FreshRisk ==
    [killed |-> FALSE, failures |-> 0, circuitOpen |-> FALSE, baseline |-> 0]

\* Mutant: check_state looks at the kill switch only.
StateOkIgnoringBreaker(risk) == ~risk.killed

\* check_state, and the guard of the AI cycle: neither kill switch nor breaker.
StateOk(risk) == ~risk.killed /\ ~risk.circuitOpen

\* kill before its _persist.
WithKill(risk) == [risk EXCEPT !.killed = TRUE]

\* record_failure before its _persist: the breaker opens at the threshold.
WithFailure(risk) ==
    LET n == IF risk.failures < FailureThreshold
             THEN risk.failures + 1 ELSE FailureThreshold
    IN  [risk EXCEPT !.failures = n,
                     !.circuitOpen = @ \/ n = FailureThreshold]

\* record_success before its _persist. cooled: recovery_cooloff_sec have gone
\* by since last_failure_at, which is set whenever the breaker is open.
WithSuccess(risk, cooled) ==
    [risk EXCEPT !.failures = 0, !.circuitOpen = @ /\ ~cooled]
=============================================================================
