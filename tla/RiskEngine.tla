------------------------------ MODULE RiskEngine ------------------------------
(***************************************************************************)
(* trade_post/risk/engine.py: validate, kill, record_failure and           *)
(* record_success, called by any number of asyncio tasks.  Every one of    *)
(* them runs without an await up to _persist, which hands the state it     *)
(* finds to a database session of its own and awaits the commit.  The      *)
(* commits of several calls land in any order, or fail, and a failed one   *)
(* is only logged.                                                         *)
(***************************************************************************)
EXTENDS RiskState

CONSTANTS
    Callers,       \* tasks that call the risk engine
    Equities,      \* values of portfolio.total_equity
    MaxLossPct,    \* settings.max_daily_loss_pct
    None           \* no row, no write under way

ASSUME RiskAssumption ==
    /\ Equities \subseteq Nat
    /\ MaxLossPct \in 1 .. 100
    /\ None \notin RiskRecord

\* Where a call awaits its _persist, and how a call can end.
Saving  == {"baseline", "drawdown", "kill", "failure", "success"}
Results == {"approved", "rejected", "raised", "done"}

VARIABLES
    risk,       \* self._state
    row,        \* the committed risk_state row
    writes,     \* per caller: the state its _persist is writing
    call,       \* per caller: idle, where its call awaits, or how it ended
    equity,     \* per caller: total_equity of the portfolio it validates with
    locked,     \* another session keeps the database's write lock
    late,       \* history: approvals given after the kill, in this process life
    sealed      \* history: a kill has landed and no older state can land after it

riskVars == <<risk, row, writes, call, equity, locked, late, sealed>>

RiskInit ==
    /\ risk = FreshRisk
    /\ row = None
    /\ writes = [c \in Callers |-> None]
    /\ call = [c \in Callers |-> "idle"]
    /\ equity = [c \in Callers |-> 0]
    /\ locked = FALSE
    /\ late = 0
    /\ sealed = FALSE

-----------------------------------------------------------------------------
(* Changes of the state, and the end of a call.                            *)

\* The state becomes r, and _persist captures it before its first await.
Change(c, r, at) ==
    /\ risk' = r
    /\ writes' = [writes EXCEPT ![c] = r]
    /\ call' = [call EXCEPT ![c] = at]
    /\ UNCHANGED late

End(c, result) ==
    /\ call' = [call EXCEPT ![c] = result]
    /\ late' = IF result = "approved" /\ risk.killed THEN late + 1 ELSE late
    /\ UNCHANGED <<risk, writes>>

\* The drawdown against the baseline has reached the limit.
Breach(baseline, e) == (baseline - e) * 100 >= MaxLossPct * baseline

-----------------------------------------------------------------------------
(* validate.                                                               *)

\* From the drawdown check on.  Position cap, hard cap, open orders and price
\* deviation reject; sizing by ATR assigns to the frozen intent and raises.
Assess(c, e) ==
    \/ Breach(risk.baseline, e) /\ Change(c, WithKill(risk), "drawdown")
    \/ /\ ~Breach(risk.baseline, e)
       /\ \E result \in {"approved", "rejected", "raised"} : End(c, result)

\* Mutant: the baseline follows the equity of the latest validation.
ValidateRebasing(c, e) ==
    /\ call[c] = "idle"
    /\ equity' = [equity EXCEPT ![c] = e]
    /\ \/ End(c, "rejected")
       \/ /\ StateOk(risk) /\ e > 0
          /\ IF risk.baseline < e THEN Change(c, [risk EXCEPT !.baseline = e], "baseline")
             ELSE Assess(c, e)
    /\ UNCHANGED <<row, locked, sealed>>

\* Mutant: the baseline goes to the row only, and not into the state.
ValidateForgetting(c, e) ==
    /\ call[c] = "idle"
    /\ equity' = [equity EXCEPT ![c] = e]
    /\ \/ End(c, "rejected")
       \/ /\ StateOk(risk) /\ e > 0
          /\ IF risk.baseline = 0
             THEN /\ writes' = [writes EXCEPT ![c] = [risk EXCEPT !.baseline = e]]
                  /\ call' = [call EXCEPT ![c] = "baseline"]
                  /\ UNCHANGED <<risk, late>>
             ELSE Assess(c, e)
    /\ UNCHANGED <<row, locked, sealed>>

\* Stale data and a wide spread reject at any time; the kill switch, an open
\* breaker and no equity always do.  The first validation of a process that
\* loaded no baseline sets it, and awaits _persist.
Validate(c, e) ==
    /\ call[c] = "idle"
    /\ equity' = [equity EXCEPT ![c] = e]
    /\ \/ End(c, "rejected")
       \/ /\ StateOk(risk) /\ e > 0
          /\ IF risk.baseline = 0 THEN Change(c, [risk EXCEPT !.baseline = e], "baseline")
             ELSE Assess(c, e)
    /\ UNCHANGED <<row, locked, sealed>>

\* The state is not checked again after the await.
BaselineSaved(c) ==
    /\ call[c] = "baseline" /\ writes[c] = None
    /\ Assess(c, equity[c])
    /\ UNCHANGED <<row, equity, locked, sealed>>

DrawdownSaved(c) ==
    /\ call[c] = "drawdown" /\ writes[c] = None
    /\ End(c, "rejected")
    /\ UNCHANGED <<row, equity, locked, sealed>>

-----------------------------------------------------------------------------
(* The other calls, the database, and a restart.                           *)

Kill(c) ==
    /\ call[c] = "idle"
    /\ Change(c, WithKill(risk), "kill")
    /\ UNCHANGED <<row, equity, locked, sealed>>

RecordFailure(c) ==
    /\ call[c] = "idle"
    /\ Change(c, WithFailure(risk), "failure")
    /\ UNCHANGED <<row, equity, locked, sealed>>

\* Whether recovery_cooloff_sec have passed is the clock's choice.
RecordSuccess(c) ==
    /\ call[c] = "idle"
    /\ \E cooled \in BOOLEAN : Change(c, WithSuccess(risk, cooled), "success")
    /\ UNCHANGED <<row, equity, locked, sealed>>

CallSaved(c) ==
    /\ call[c] \in {"kill", "failure", "success"} /\ writes[c] = None
    /\ End(c, "done")
    /\ UNCHANGED <<row, equity, locked, sealed>>

\* The caller takes the result and goes on.
Take(c) ==
    /\ call[c] \in Results
    /\ call' = [call EXCEPT ![c] = "idle"]
    /\ equity' = [equity EXCEPT ![c] = 0]
    /\ UNCHANGED <<risk, row, writes, locked, late, sealed>>

\* Some kill is in what lands, and in everything that may still land after it.
Seals(c) == \A d \in Callers : writes[d] # None => writes[c].killed /\ writes[d].killed

Land(c) ==
    /\ writes[c] # None
    /\ ~locked
    /\ row' = writes[c]
    /\ writes' = [writes EXCEPT ![c] = None]
    /\ sealed' = (sealed \/ Seals(c))
    /\ UNCHANGED <<risk, call, equity, locked, late>>

\* Any exception of the session, "database is locked" after 30 s among them.
WriteFails(c) ==
    /\ writes[c] # None
    /\ writes' = [writes EXCEPT ![c] = None]
    /\ UNCHANGED <<risk, row, call, equity, locked, late, sealed>>

\* Another session starts to write and does not commit.
Lock ==
    /\ ~locked
    /\ locked' = TRUE
    /\ UNCHANGED <<risk, row, writes, call, equity, late, sealed>>

\* Mutant: load runs before bind_database and so returns at once.
RestartUnloaded ==
    /\ risk' = FreshRisk
    /\ writes' = [c \in Callers |-> None]
    /\ call' = [c \in Callers |-> "idle"]
    /\ equity' = [c \in Callers |-> 0]
    /\ locked' = FALSE
    /\ late' = 0
    /\ UNCHANGED <<row, sealed>>

\* A new process loads the row, if there is one.
Restart ==
    /\ risk' = IF row = None THEN FreshRisk ELSE row
    /\ writes' = [c \in Callers |-> None]
    /\ call' = [c \in Callers |-> "idle"]
    /\ equity' = [c \in Callers |-> 0]
    /\ locked' = FALSE
    /\ late' = 0
    /\ UNCHANGED <<row, sealed>>

RiskStep(c) ==
    \/ BaselineSaved(c) \/ DrawdownSaved(c) \/ CallSaved(c)
    \/ Land(c) \/ WriteFails(c)

RiskNext ==
    \/ \E c \in Callers :
        \/ \E e \in Equities : Validate(c, e)
        \/ Kill(c) \/ RecordFailure(c) \/ RecordSuccess(c)
        \/ RiskStep(c)
        \/ Take(c)
    \/ Lock
    \/ Restart

RiskSpec == RiskInit /\ [][RiskNext]_riskVars

-----------------------------------------------------------------------------
(* Properties.                                                             *)

\* Every variable has the type its declaration says.
RiskTypeOK ==
    /\ risk \in RiskRecord
    /\ row \in RiskRecord \cup {None}
    /\ writes \in [Callers -> RiskRecord \cup {None}]
    /\ call \in [Callers -> {"idle"} \cup Saving \cup Results]
    /\ equity \in [Callers -> Nat]
    /\ locked \in BOOLEAN
    /\ late \in Nat
    /\ sealed \in BOOLEAN

\* validate does not look at the kill switch again after its await.  Still no
\* more than one validation of a process life, the one that set the baseline,
\* is approved after the kill.
OneLateApproval == late <= 1

\* However validations, their awaits and their writes interleave: what was just
\* approved is within the daily loss limit of the baseline in force now, and a
\* breach leaves the kill switch on.
LossLimitEnforced ==
    \A c \in Callers :
        /\ call[c] = "approved" => ~Breach(risk.baseline, equity[c])
        /\ call[c] = "drawdown" => risk.killed /\ Breach(risk.baseline, equity[c])

\* A kill whose write lands while no older state is on its way to the database
\* holds in every process from then on: no later write undoes it, and every
\* restart loads it.
SealedKillSurvives == sealed => risk.killed /\ row # None /\ row.killed
=============================================================================
