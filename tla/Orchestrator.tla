---------------------------- MODULE Orchestrator ----------------------------
(***************************************************************************)
(* trade_post/orchestrator/runtime.py: the AI trading cycle, run by the    *)
(* scan loop and by any number of on-demand analyses at once, against the  *)
(* risk engine, the lock of the execution engine, the operators' start,    *)
(* stop and kill, and the one write lock of the SQLite database.           *)
(*                                                                         *)
(* The risk engine is that of RiskEngine, step by step.  Of the execution  *)
(* engine only what others notice is kept: its lock, the database lock its *)
(* session takes with the first order and never gives back, whether the    *)
(* order executes, and the call of the risk engine it ends with.           *)
(***************************************************************************)
EXTENDS RiskEngine

CONSTANTS
    Cycles, Operators,    \* tasks that run cycles, tasks of operators' requests
    MaxSymbols,           \* bound on the symbols of one cycle
    NoCycle

ASSUME CallersAssumption ==
    /\ Callers = Cycles \cup Operators
    /\ Cycles \cap Operators = {}
    /\ MaxSymbols \in Nat
    /\ NoCycle \notin Cycles

VARIABLES
    autonomous,    \* autonomous_enabled
    pc,            \* per cycle: where it stands
    left,          \* per cycle: symbols it still has to look at
    seen,          \* per cycle: total_equity of the portfolio it decides on
    funds,         \* execution.paper_equity; always 0 in live trading
    holder         \* the cycle that holds ExecutionEngine._lock

cycleVars == <<pc, left, seen>>
vars == <<riskVars, autonomous, cycleVars, funds, holder>>

\* Where a cycle stands: in its loop, in validate, or in submit.
Looping    == {"scan", "decide", "record", "propose"}
Validating == {"validate"}
Submitting == {"queued", "insert", "work", "filled", "refused", "report"}

Init ==
    /\ RiskInit
    /\ autonomous = FALSE
    /\ pc = [k \in Cycles |-> "idle"]
    /\ left = [k \in Cycles |-> 0]
    /\ seen = [k \in Cycles |-> 0]
    /\ funds \in Equities
    /\ holder = NoCycle

-----------------------------------------------------------------------------
(* One cycle: _run_one_ai_cycle.                                           *)

Goto(k, label) == pc' = [pc EXCEPT ![k] = label]

\* The cycle returns, or an exception leaves it and its caller logs it.
Leave(k) ==
    /\ Goto(k, "idle")
    /\ left' = [left EXCEPT ![k] = 0]
    /\ seen' = [seen EXCEPT ![k] = 0]

\* Mutant: the flags of the risk state are not looked at.
BeginUnchecked(k) ==
    /\ pc[k] = "idle"
    /\ autonomous
    /\ Goto(k, "scan")
    /\ \E n \in 0 .. MaxSymbols : left' = [left EXCEPT ![k] = n]
    /\ UNCHANGED <<riskVars, autonomous, seen, funds, holder>>

\* The only look at the flags: a stop or a kill from here on is not seen.
Begin(k) ==
    /\ pc[k] = "idle"
    /\ autonomous /\ StateOk(risk)
    /\ Goto(k, "scan")
    /\ \E n \in 0 .. MaxSymbols : left' = [left EXCEPT ![k] = n]
    /\ UNCHANGED <<riskVars, autonomous, seen, funds, holder>>

\* A symbol whose snapshot cannot be fetched is skipped.  The portfolio is what
\* the paper account holds now; the decision on it may take a minute.
NextSymbol(k) ==
    /\ pc[k] = "scan"
    /\ \/ left[k] = 0 /\ Leave(k)
       \/ /\ left[k] > 0
          /\ left' = [left EXCEPT ![k] = @ - 1]
          /\ \/ UNCHANGED <<pc, seen>>
             \/ Goto(k, "decide") /\ seen' = [seen EXCEPT ![k] = funds]
    /\ UNCHANGED <<riskVars, autonomous, funds, holder>>

\* brain.decide: a decision, or an error of the HTTP client it does not catch.
Decide(k) ==
    /\ pc[k] = "decide"
    /\ \/ Goto(k, "record") /\ UNCHANGED <<left, seen>>
       \/ Leave(k)
    /\ UNCHANGED <<riskVars, autonomous, funds, holder>>

\* insert_ai_decision in a session of its own: "database is locked" ends the
\* cycle, as would any other error of the database.
RecordDecision(k) ==
    /\ pc[k] = "record"
    /\ \/ ~locked /\ Goto(k, "propose") /\ UNCHANGED <<left, seen>>
       \/ Leave(k)
    /\ UNCHANGED <<riskVars, autonomous, funds, holder>>

\* FLAT goes on to the next symbol; to_intent raises when there is no positive
\* quantity; otherwise validate starts, in the same step.
Propose(k) ==
    /\ pc[k] = "propose"
    /\ \/ Goto(k, "scan") /\ UNCHANGED <<riskVars, left, seen>>
       \/ Leave(k) /\ UNCHANGED riskVars
       \/ Goto(k, "validate") /\ Validate(k, seen[k]) /\ UNCHANGED <<left, seen>>
    /\ UNCHANGED <<autonomous, funds, holder>>

\* Mutant: a rejection is logged, and the order submitted all the same.
JudgedLoosely(k) ==
    /\ pc[k] = "validate"
    /\ Take(k)
    /\ \/ call[k] \in {"approved", "rejected"} /\ Goto(k, "queued") /\ UNCHANGED <<left, seen>>
       \/ call[k] = "raised" /\ Leave(k)
    /\ UNCHANGED <<autonomous, funds, holder>>

\* What the cycle does with the verdict of validate.
Judged(k) ==
    /\ pc[k] = "validate"
    /\ Take(k)
    /\ \/ call[k] = "approved" /\ Goto(k, "queued") /\ UNCHANGED <<left, seen>>
       \/ call[k] = "rejected" /\ Goto(k, "scan") /\ UNCHANGED <<left, seen>>
       \/ call[k] = "raised" /\ Leave(k)
    /\ UNCHANGED <<autonomous, funds, holder>>

-----------------------------------------------------------------------------
(* ExecutionEngine.submit, as far as others notice it.                     *)

Acquire(k) ==
    /\ pc[k] = "queued"
    /\ holder = NoCycle
    /\ holder' = k
    /\ Goto(k, "insert")
    /\ UNCHANGED <<riskVars, autonomous, left, seen, funds>>

\* insert_order: the engine's session begins to write, and is never committed.
Insert(k) ==
    /\ pc[k] = "insert"
    /\ Lock \/ (locked /\ UNCHANGED riskVars)
    /\ Goto(k, "work")
    /\ UNCHANGED <<autonomous, left, seen, funds, holder>>

\* The order executes, and the paper equity becomes whatever the fill makes it;
\* or the fetch fails or the price has slipped, and the order is rejected.
Work(k) ==
    /\ pc[k] = "work"
    /\ \/ Goto(k, "filled") /\ \E e \in Equities : funds' = e
       \/ Goto(k, "refused") /\ UNCHANGED funds
    /\ UNCHANGED <<riskVars, autonomous, left, seen, holder>>

Report(k) ==
    /\ \/ pc[k] = "filled" /\ RecordSuccess(k)
       \/ pc[k] = "refused" /\ RecordFailure(k)
    /\ Goto(k, "report")
    /\ UNCHANGED <<autonomous, left, seen, funds, holder>>

Reported(k) ==
    /\ pc[k] = "report" /\ call[k] = "done"
    /\ Take(k)
    /\ holder' = NoCycle
    /\ Goto(k, "scan")
    /\ UNCHANGED <<autonomous, left, seen, funds>>

\* An exception in a database call of submit releases the lock and ends the
\* cycle; so does one in list_recent_ai_decisions at its start.
Abort(k) ==
    /\ pc[k] \in {"scan", "queued", "insert", "work", "filled", "refused"}
    /\ holder' = IF holder = k THEN NoCycle ELSE holder
    /\ Leave(k)
    /\ UNCHANGED <<riskVars, autonomous, funds>>

-----------------------------------------------------------------------------
(* Operators, the rest of the risk engine, and a restart.                  *)

Enable ==
    /\ autonomous' = TRUE
    /\ UNCHANGED <<riskVars, cycleVars, funds, holder>>

Disable ==
    /\ autonomous' = FALSE
    /\ UNCHANGED <<riskVars, cycleVars, funds, holder>>

OperatorKill(o) ==
    /\ Kill(o)
    /\ UNCHANGED <<autonomous, cycleVars, funds, holder>>

Answer(o) ==
    /\ Take(o)
    /\ UNCHANGED <<autonomous, cycleVars, funds, holder>>

RiskGoesOn(c) ==
    /\ RiskStep(c)
    /\ UNCHANGED <<autonomous, cycleVars, funds, holder>>

\* autonomous_enabled starts as FALSE and the paper account as new.
NewProcess ==
    /\ Restart
    /\ autonomous' = FALSE
    /\ pc' = [k \in Cycles |-> "idle"]
    /\ left' = [k \in Cycles |-> 0]
    /\ seen' = [k \in Cycles |-> 0]
    /\ funds' \in Equities
    /\ holder' = NoCycle

CycleStep(k) ==
    \/ NextSymbol(k) \/ Decide(k) \/ RecordDecision(k) \/ Propose(k) \/ Judged(k)
    \/ Acquire(k) \/ Insert(k) \/ Work(k) \/ Report(k) \/ Reported(k)

Next ==
    \/ \E k \in Cycles : Begin(k) \/ CycleStep(k) \/ Abort(k)
    \/ \E o \in Operators : OperatorKill(o) \/ Answer(o)
    \/ \E c \in Callers : RiskGoesOn(c)
    \/ Enable \/ Disable
    \/ NewProcess

\* Every await ends: fetches and the AI call by their timeouts, a write by its
\* commit or the database's busy timeout, the lock by the end of its holder.
Fairness ==
    /\ \A k \in Cycles : WF_vars(CycleStep(k))
    /\ \A c \in Callers : WF_vars(RiskGoesOn(c))

Spec == Init /\ [][Next]_vars /\ Fairness

-----------------------------------------------------------------------------
(* Properties.                                                             *)

\* Every variable has the type its declaration says.
TypeOK ==
    /\ RiskTypeOK
    /\ autonomous \in BOOLEAN
    /\ pc \in [Cycles -> {"idle"} \cup Looping \cup Validating \cup Submitting]
    /\ left \in [Cycles -> 0 .. MaxSymbols]
    /\ seen \in [Cycles -> Equities \cup {0}]
    /\ funds \in Equities
    /\ holder \in Cycles \cup {NoCycle}

\* Cycles that may still execute an order without another look at the risk
\* state: validated, or about to be after the write of the baseline.
Armed ==
    {k \in Cycles : \/ call[k] \in {"baseline", "approved"}
                    \/ pc[k] \in {"queued", "insert", "work"}}

\* While the kill switch or the breaker is on, no cycle becomes able to execute
\* an order that was not when it went on, and one that executes no longer is.
OnlyDisarms == [][~StateOk(risk) /\ ~StateOk(risk)' => Armed' \subseteq Armed]_vars

\* An open breaker with no order under way stays open, and no order gets under
\* way, for the rest of the process: only an order's success can close it.
BreakerLatched ==
    risk.circuitOpen /\ Armed = {} /\ \A k \in Cycles : pc[k] # "filled"

BreakerStaysOpen == [][BreakerLatched => BreakerLatched' \/ NewProcess]_vars

\* Once trading is killed or stopped for good every cycle ends, and no cycle
\* runs again.
QuietWhenDisabled ==
    <>[](risk.killed \/ ~autonomous) => <>[](\A k \in Cycles : pc[k] = "idle")
=============================================================================
