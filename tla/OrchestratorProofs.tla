------------------------- MODULE OrchestratorProofs -------------------------
(***************************************************************************)
(* Theorems about RiskEngine, for any callers, equities and limit, and any *)
(* order of calls, commits, failed commits and restarts; and about         *)
(* Orchestrator, for any cycles, operators and symbols: its types, that    *)
(* what it does to the risk engine is what RiskEngine allows, so that      *)
(* every theorem about RiskEngine holds of it, and what the kill switch    *)
(* and the breaker stop.                                                   *)
(***************************************************************************)
EXTENDS Orchestrator, TLAPS

USE RiskAssumption, CallersAssumption

-----------------------------------------------------------------------------
(* What the changes of the risk state keep and what they change.           *)

\* Every change of the risk state yields a risk state.
LEMMA RiskTypes ==
    ASSUME NEW r \in RiskRecord, NEW c \in BOOLEAN
    PROVE  /\ WithKill(r) \in RiskRecord
           /\ WithFailure(r) \in RiskRecord
           /\ WithSuccess(r, c) \in RiskRecord
<1>1. WithKill(r) \in RiskRecord
  BY DEF RiskRecord, WithKill
<1>2. WithFailure(r) \in RiskRecord
  <2> DEFINE n == IF r.failures < FailureThreshold
                  THEN r.failures + 1 ELSE FailureThreshold
  <2>1. n \in 0 .. FailureThreshold
    BY FailureThresholdAssumption DEF RiskRecord
  <2>2. (r.circuitOpen \/ n = FailureThreshold) \in BOOLEAN
    OBVIOUS
  <2>3. WithFailure(r) = [r EXCEPT !.failures = n,
                                   !.circuitOpen = @ \/ n = FailureThreshold]
    BY DEF WithFailure
  <2> HIDE DEF n
  <2> QED
    BY <2>1, <2>2, <2>3 DEF RiskRecord
<1>3. WithSuccess(r, c) \in RiskRecord
  <2>1. (r.circuitOpen /\ ~c) \in BOOLEAN /\ 0 \in 0 .. FailureThreshold
    BY FailureThresholdAssumption
  <2> QED
    BY <2>1 DEF RiskRecord, WithSuccess
<1> QED
  BY <1>1, <1>2, <1>3

\* Only a kill changes the kill switch, only a success closes the breaker, and
\* nothing here changes the baseline.
LEMMA RiskFields ==
    ASSUME NEW r \in RiskRecord, NEW c \in BOOLEAN
    PROVE  /\ WithKill(r).killed /\ WithKill(r).baseline = r.baseline
           /\ WithFailure(r).killed = r.killed /\ WithFailure(r).baseline = r.baseline
           /\ WithSuccess(r, c).killed = r.killed
           /\ WithSuccess(r, c).baseline = r.baseline
           /\ WithKill(r).circuitOpen = r.circuitOpen
           /\ r.circuitOpen => WithFailure(r).circuitOpen
BY DEF RiskRecord, WithKill, WithFailure, WithSuccess

\* A process without a risk row begins with a risk record.
LEMMA FreshRiskType == FreshRisk \in RiskRecord
BY FailureThresholdAssumption DEF FreshRisk, RiskRecord

-----------------------------------------------------------------------------
(* The inductive invariant.                                                *)

\* At most one validation of a process awaits the write of the baseline, and the
\* baseline is there when it does.
BaselineInv ==
    /\ \A c \in Callers : call[c] = "baseline" => risk.baseline # 0
    /\ \A c, d \in Callers : call[c] = "baseline" /\ call[d] = "baseline" => c = d

\* The one late approval was given to that validation.
LateInv ==
    /\ late \in {0, 1}
    /\ late = 1 => /\ risk.killed /\ risk.baseline # 0
                   /\ \A c \in Callers : call[c] # "baseline"

\* A verdict that rests on the baseline was given after the baseline was set.
LossInv ==
    \A c \in Callers :
        /\ call[c] = "approved" =>
             risk.baseline # 0 /\ ~Breach(risk.baseline, equity[c])
        /\ call[c] = "drawdown" =>
             risk.baseline # 0 /\ risk.killed /\ Breach(risk.baseline, equity[c])

\* What is being written was the state of this process.
WriteInv == \A c \in Callers : writes[c] # None /\ writes[c].killed => risk.killed

SealInv ==
    sealed => /\ risk.killed
              /\ row # None /\ row.killed
              /\ \A c \in Callers : writes[c] # None => writes[c].killed

RiskInv == BaselineInv /\ LateInv /\ LossInv /\ WriteInv /\ SealInv

\* Types and invariant hold initially.
LEMMA RiskInitial == RiskInit => RiskTypeOK /\ RiskInv
<1> SUFFICES ASSUME RiskInit
             PROVE  RiskTypeOK /\ RiskInv
  OBVIOUS
<1>1. RiskTypeOK
  BY FreshRiskType DEF RiskInit, RiskTypeOK, Saving, Results
<1>2. RiskInv
  BY DEF RiskInit, RiskInv, BaselineInv, LateInv, LossInv, WriteInv, SealInv
<1> QED
  BY <1>1, <1>2

-----------------------------------------------------------------------------
(* Steps of a call.                                                        *)

\* Assess, from where validate calls it: unblocked, or as the validation that
\* has set the baseline.
LEMMA AssessStep ==
    ASSUME RiskTypeOK, RiskInv, NEW c \in Callers, NEW e \in Nat,
           Assess(c, e), equity' = [equity EXCEPT ![c] = e],
           UNCHANGED <<row, locked, sealed>>,
           risk.baseline # 0,
           call[c] = "baseline" \/ (call[c] = "idle" /\ ~risk.killed)
    PROVE  RiskTypeOK' /\ RiskInv'
<1> USE DEF RiskTypeOK, RiskInv, BaselineInv, LateInv, LossInv, WriteInv, SealInv,
         Saving, Results
<1>1. CASE Breach(risk.baseline, e) /\ Change(c, WithKill(risk), "drawdown")
  <2>1. /\ risk' \in RiskRecord /\ risk'.killed /\ risk'.baseline = risk.baseline
        /\ writes' = [writes EXCEPT ![c] = risk']
        /\ call' = [call EXCEPT ![c] = "drawdown"]
        /\ late' = late
    BY <1>1, RiskTypes, RiskFields DEF Change
  <2> QED
    BY <1>1, <2>1
<1>2. CASE /\ ~Breach(risk.baseline, e)
           /\ \E result \in {"approved", "rejected", "raised"} : End(c, result)
  BY <1>2 DEF End
<1> QED
  BY <1>1, <1>2 DEF Assess

\* A change of the state by kill, record_failure or record_success.
LEMMA ChangeStep ==
    ASSUME RiskTypeOK, RiskInv, NEW c \in Callers, NEW r \in RiskRecord,
           NEW at \in {"kill", "failure", "success"},
           call[c] = "idle", Change(c, r, at),
           UNCHANGED <<row, equity, locked, sealed>>,
           r.baseline = risk.baseline, risk.killed => r.killed
    PROVE  RiskTypeOK' /\ RiskInv'
BY DEF Change, RiskTypeOK, RiskInv, BaselineInv, LateInv, LossInv, WriteInv, SealInv,
       Saving, Results

\* Every step of a call, a write or a restart keeps types and invariant.
LEMMA RiskStepInv ==
    ASSUME RiskTypeOK, RiskInv, [RiskNext]_riskVars
    PROVE  RiskTypeOK' /\ RiskInv'
<1> USE DEF RiskTypeOK, RiskInv, BaselineInv, LateInv, LossInv, WriteInv, SealInv,
         Saving, Results
<1>1. ASSUME NEW c \in Callers, NEW e \in Equities, Validate(c, e)
      PROVE  RiskTypeOK' /\ RiskInv'
  <2>1. e \in Nat
    OBVIOUS
  <2>2. CASE End(c, "rejected")
    BY <1>1, <2>1, <2>2 DEF Validate, End
  <2>3. CASE /\ StateOk(risk) /\ e > 0 /\ risk.baseline = 0
             /\ Change(c, [risk EXCEPT !.baseline = e], "baseline")
    <3>1. /\ risk' \in RiskRecord /\ risk'.killed = risk.killed /\ risk'.baseline = e
          /\ ~risk.killed
          /\ writes' = [writes EXCEPT ![c] = risk']
          /\ call' = [call EXCEPT ![c] = "baseline"]
          /\ late' = late
      BY <2>1, <2>3 DEF Change, StateOk, RiskRecord
    <3> QED
      BY <1>1, <2>1, <2>3, <3>1 DEF Validate
  <2>4. CASE StateOk(risk) /\ e > 0 /\ risk.baseline # 0 /\ Assess(c, e)
    BY <1>1, <2>1, <2>4, AssessStep DEF Validate, StateOk
  <2> QED
    BY <1>1, <2>2, <2>3, <2>4 DEF Validate
<1>2. ASSUME NEW c \in Callers, BaselineSaved(c)
      PROVE  RiskTypeOK' /\ RiskInv'
  <2>1. equity[c] \in Nat /\ equity' = [equity EXCEPT ![c] = equity[c]]
    BY <1>2 DEF BaselineSaved
  <2> QED
    BY <1>2, <2>1, AssessStep DEF BaselineSaved
<1>3. ASSUME NEW c \in Callers, DrawdownSaved(c) \/ CallSaved(c)
      PROVE  RiskTypeOK' /\ RiskInv'
  BY <1>3 DEF DrawdownSaved, CallSaved, End
<1>4. ASSUME NEW c \in Callers, Kill(c)
      PROVE  RiskTypeOK' /\ RiskInv'
  BY <1>4, ChangeStep, RiskTypes, RiskFields DEF Kill
<1>5. ASSUME NEW c \in Callers, RecordFailure(c)
      PROVE  RiskTypeOK' /\ RiskInv'
  BY <1>5, ChangeStep, RiskTypes, RiskFields DEF RecordFailure
<1>6. ASSUME NEW c \in Callers, RecordSuccess(c)
      PROVE  RiskTypeOK' /\ RiskInv'
  BY <1>6, ChangeStep, RiskTypes, RiskFields DEF RecordSuccess
<1>7. ASSUME NEW c \in Callers, Take(c)
      PROVE  RiskTypeOK' /\ RiskInv'
  BY <1>7 DEF Take
<1>8. ASSUME NEW c \in Callers, Land(c)
      PROVE  RiskTypeOK' /\ RiskInv'
  BY <1>8 DEF Land, Seals
<1>9. ASSUME NEW c \in Callers, WriteFails(c)
      PROVE  RiskTypeOK' /\ RiskInv'
  BY <1>9 DEF WriteFails
<1>10. ASSUME Lock
       PROVE  RiskTypeOK' /\ RiskInv'
  BY <1>10 DEF Lock
<1>11. ASSUME Restart
       PROVE  RiskTypeOK' /\ RiskInv'
  <2>1. RiskTypeOK'
    BY <1>11, FreshRiskType DEF Restart
  <2>2. (BaselineInv /\ LateInv /\ LossInv /\ WriteInv)'
    BY <1>11 DEF Restart
  <2>3. SealInv'
    BY <1>11 DEF Restart
  <2> QED
    BY <2>1, <2>2, <2>3
<1>12. ASSUME UNCHANGED riskVars
       PROVE  RiskTypeOK' /\ RiskInv'
  BY <1>12 DEF riskVars
<1> QED
  BY <1>1, <1>2, <1>3, <1>4, <1>5, <1>6, <1>7, <1>8, <1>9, <1>10, <1>11, <1>12
     DEF RiskNext, RiskStep

\* Every reachable state of the risk engine satisfies the types and the invariant.
THEOREM RiskInvariance == RiskSpec => [](RiskTypeOK /\ RiskInv)
<1>1. RiskTypeOK /\ RiskInv /\ [RiskNext]_riskVars => (RiskTypeOK /\ RiskInv)'
  BY RiskStepInv
<1> QED
  BY <1>1, RiskInitial, PTL DEF RiskSpec

-----------------------------------------------------------------------------
(* What follows from it.                                                   *)

\* Every variable keeps its type.
THEOREM RiskTypeCorrect == RiskSpec => []RiskTypeOK
BY RiskInvariance, PTL

\* At most one validation of a process is approved after the kill.
THEOREM ApprovesOnceAfterKill == RiskSpec => []OneLateApproval
<1>1. RiskInv => OneLateApproval
  BY DEF RiskInv, LateInv, OneLateApproval
<1> QED
  BY <1>1, RiskInvariance, PTL

\* Approvals are within the loss limit, and a breach trips the kill switch.
THEOREM EnforcesLossLimit == RiskSpec => []LossLimitEnforced
<1>1. RiskInv => LossLimitEnforced
  BY DEF RiskInv, LossInv, LossLimitEnforced
<1> QED
  BY <1>1, RiskInvariance, PTL

\* A kill that landed last survives every write and every restart.
THEOREM KillSurvives == RiskSpec => []SealedKillSurvives
<1>1. RiskInv => SealedKillSurvives
  BY DEF RiskInv, SealInv, SealedKillSurvives
<1> QED
  BY <1>1, RiskInvariance, PTL

-----------------------------------------------------------------------------
(* Types, and the risk engine within the orchestrator.                     *)

\* A cycle that decides or validates does so on an equity it has read.
SeenInv ==
    \A k \in Cycles :
        pc[k] \in {"decide", "record", "propose", "validate"} => seen[k] \in Equities

CycleTypeOK ==
    /\ autonomous \in BOOLEAN
    /\ pc \in [Cycles -> {"idle"} \cup Looping \cup Validating \cup Submitting]
    /\ left \in [Cycles -> 0 .. MaxSymbols]
    /\ seen \in [Cycles -> Equities \cup {0}]
    /\ funds \in Equities
    /\ holder \in Cycles \cup {NoCycle}

\* Every step of the orchestrator is a step of the risk engine or leaves it alone.
LEMMA RiskSimulation ==
    ASSUME SeenInv, [Next]_vars
    PROVE  [RiskNext]_riskVars
<1>1. ASSUME NEW k \in Cycles, Propose(k)
      PROVE  [RiskNext]_riskVars
  BY <1>1 DEF Propose, SeenInv, RiskNext
<1>2. ASSUME NEW k \in Cycles, Judged(k) \/ Reported(k)
      PROVE  [RiskNext]_riskVars
  BY <1>2 DEF Judged, Reported, RiskNext
<1>3. ASSUME NEW k \in Cycles, Report(k)
      PROVE  [RiskNext]_riskVars
  BY <1>3 DEF Report, RiskNext
<1>4. ASSUME NEW k \in Cycles, Insert(k)
      PROVE  [RiskNext]_riskVars
  BY <1>4 DEF Insert, RiskNext
<1>5. ASSUME NEW o \in Operators, OperatorKill(o) \/ Answer(o)
      PROVE  [RiskNext]_riskVars
  BY <1>5 DEF OperatorKill, Answer, RiskNext
<1>6. ASSUME NEW c \in Callers, RiskGoesOn(c)
      PROVE  [RiskNext]_riskVars
  BY <1>6 DEF RiskGoesOn, RiskNext
<1>7. ASSUME NewProcess
      PROVE  [RiskNext]_riskVars
  BY <1>7 DEF NewProcess, RiskNext
<1>8. ASSUME UNCHANGED riskVars
      PROVE  [RiskNext]_riskVars
  BY <1>8
<1> QED
  BY <1>1, <1>2, <1>3, <1>4, <1>5, <1>6, <1>7, <1>8
     DEF Next, CycleStep, Begin, NextSymbol, Decide, RecordDecision, Acquire, Work,
         Abort, Enable, Disable, vars

\* Every step keeps the types of the cycles and what they have seen.
LEMMA CycleTypeStep ==
    ASSUME CycleTypeOK, SeenInv, [Next]_vars
    PROVE  CycleTypeOK' /\ SeenInv'
<1> USE DEF CycleTypeOK, SeenInv, Looping, Validating, Submitting, Goto, Leave
<1>1. ASSUME NEW k \in Cycles, Begin(k)
      PROVE  CycleTypeOK' /\ SeenInv'
  BY <1>1 DEF Begin
<1>2. ASSUME NEW k \in Cycles, NextSymbol(k)
      PROVE  CycleTypeOK' /\ SeenInv'
  <2>1. CASE left[k] = 0 /\ Leave(k)
    BY <1>2, <2>1 DEF NextSymbol
  <2>2. CASE left[k] > 0 /\ left' = [left EXCEPT ![k] = @ - 1]
    <3>1. left[k] - 1 \in 0 .. MaxSymbols
      BY <2>2
    <3>2. left' \in [Cycles -> 0 .. MaxSymbols]
      BY <2>2, <3>1
    <3> QED
      BY <1>2, <3>2 DEF NextSymbol
  <2> QED
    BY <1>2, <2>1, <2>2 DEF NextSymbol
<1>3. ASSUME NEW k \in Cycles, Decide(k) \/ RecordDecision(k)
      PROVE  CycleTypeOK' /\ SeenInv'
  BY <1>3 DEF Decide, RecordDecision
<1>4. ASSUME NEW k \in Cycles, Propose(k) \/ Judged(k)
      PROVE  CycleTypeOK' /\ SeenInv'
  <2>1. CASE Leave(k) /\ UNCHANGED <<autonomous, funds, holder>>
    BY <2>1
  <2>2. CASE /\ Goto(k, "scan") \/ Goto(k, "queued")
             /\ UNCHANGED <<autonomous, left, seen, funds, holder>>
    BY <2>2
  <2>3. CASE /\ pc[k] = "propose" /\ Goto(k, "validate")
             /\ UNCHANGED <<autonomous, left, seen, funds, holder>>
    BY <2>3
  <2> QED
    BY <1>4, <2>1, <2>2, <2>3 DEF Propose, Judged
<1>5. ASSUME NEW k \in Cycles, Acquire(k) \/ Insert(k)
      PROVE  CycleTypeOK' /\ SeenInv'
  BY <1>5 DEF Acquire, Insert
<1>6. ASSUME NEW k \in Cycles, Work(k) \/ Report(k) \/ Reported(k)
      PROVE  CycleTypeOK' /\ SeenInv'
  BY <1>6 DEF Work, Report, Reported
<1>7. ASSUME NEW k \in Cycles, Abort(k)
      PROVE  CycleTypeOK' /\ SeenInv'
  BY <1>7 DEF Abort
<1>8. ASSUME NEW o \in Operators, OperatorKill(o) \/ Answer(o)
      PROVE  CycleTypeOK' /\ SeenInv'
  BY <1>8 DEF OperatorKill, Answer, cycleVars
<1>9. ASSUME NEW c \in Callers, RiskGoesOn(c)
      PROVE  CycleTypeOK' /\ SeenInv'
  BY <1>9 DEF RiskGoesOn, cycleVars
<1>10. ASSUME Enable \/ Disable
       PROVE  CycleTypeOK' /\ SeenInv'
  BY <1>10 DEF Enable, Disable, cycleVars
<1>11. ASSUME NewProcess
       PROVE  CycleTypeOK' /\ SeenInv'
  <2>1. 0 \in 0 .. MaxSymbols
    OBVIOUS
  <2> QED
    BY <1>11, <2>1 DEF NewProcess
<1>12. ASSUME UNCHANGED vars
       PROVE  CycleTypeOK' /\ SeenInv'
  BY <1>12 DEF vars, cycleVars
<1> QED
  BY <1>1, <1>2, <1>3, <1>4, <1>5, <1>6, <1>7, <1>8, <1>9, <1>10, <1>11, <1>12
     DEF Next, CycleStep

\* The types of the cycles hold in every reachable state.
LEMMA CycleInvariance == Spec => [](CycleTypeOK /\ SeenInv)
<1>1. Init => CycleTypeOK /\ SeenInv
  <2>1. 0 \in 0 .. MaxSymbols
    OBVIOUS
  <2> QED
    BY <2>1 DEF Init, CycleTypeOK, SeenInv, Looping, Validating, Submitting
<1>2. CycleTypeOK /\ SeenInv /\ [Next]_vars => (CycleTypeOK /\ SeenInv)'
  BY CycleTypeStep
<1> QED
  BY <1>1, <1>2, PTL DEF Spec

\* The orchestrator uses the risk engine as RiskEngine says.
THEOREM UsesRiskEngine == Spec => RiskSpec
<1>1. Init => RiskInit
  BY DEF Init
<1>2. SeenInv /\ [Next]_vars => [RiskNext]_riskVars
  BY RiskSimulation
<1> QED
  BY <1>1, <1>2, CycleInvariance, PTL DEF Spec, RiskSpec

\* Every variable keeps its type.
THEOREM OrchestratorTypeCorrect == Spec => []TypeOK
<1>1. RiskTypeOK /\ CycleTypeOK => TypeOK
  BY DEF TypeOK, CycleTypeOK
<1> QED
  BY <1>1, UsesRiskEngine, RiskTypeCorrect, CycleInvariance, PTL

\* In the running system at most one order is approved after the kill, approvals
\* keep the loss limit, and a kill that landed last survives restarts.
THEOREM RiskPromisesKept ==
    Spec => [](OneLateApproval /\ LossLimitEnforced /\ SealedKillSurvives)
BY UsesRiskEngine, ApprovesOnceAfterKill, EnforcesLossLimit, KillSurvives, PTL

-----------------------------------------------------------------------------
(* What the kill switch and the breaker stop.                              *)

\* Under a kill or an open breaker no cycle becomes able to execute an order.
LEMMA Disarming ==
    ASSUME RiskTypeOK, CycleTypeOK, Next, ~StateOk(risk)
    PROVE  Armed' \subseteq Armed
<1> USE DEF RiskTypeOK, CycleTypeOK, Armed, Goto, Leave, Saving, Results
<1>1. ASSUME NEW k \in Cycles, Begin(k) \/ NextSymbol(k) \/ Decide(k) \/ RecordDecision(k)
      PROVE  Armed' \subseteq Armed
  BY <1>1 DEF Begin, NextSymbol, Decide, RecordDecision, riskVars
<1>2. ASSUME NEW k \in Cycles, Propose(k)
      PROVE  Armed' \subseteq Armed
  BY <1>2 DEF Propose, Validate, End, riskVars
<1>3. ASSUME NEW k \in Cycles, Judged(k)
      PROVE  Armed' \subseteq Armed
  BY <1>3 DEF Judged, Take
<1>4. ASSUME NEW k \in Cycles, Acquire(k) \/ Insert(k) \/ Work(k)
      PROVE  Armed' \subseteq Armed
  BY <1>4 DEF Acquire, Insert, Lock, Work, riskVars
<1>5. ASSUME NEW k \in Cycles, Report(k)
      PROVE  Armed' \subseteq Armed
  BY <1>5 DEF Report, RecordSuccess, RecordFailure, Change
<1>6. ASSUME NEW k \in Cycles, Reported(k)
      PROVE  Armed' \subseteq Armed
  BY <1>6 DEF Reported, Take
<1>7. ASSUME NEW k \in Cycles, Abort(k)
      PROVE  Armed' \subseteq Armed
  BY <1>7 DEF Abort, riskVars
<1>8. ASSUME NEW o \in Operators, OperatorKill(o) \/ Answer(o)
      PROVE  Armed' \subseteq Armed
  BY <1>8 DEF OperatorKill, Answer, Kill, Change, Take, cycleVars
<1>9. ASSUME NEW c \in Callers, RiskGoesOn(c)
      PROVE  Armed' \subseteq Armed
  BY <1>9 DEF RiskGoesOn, RiskStep, BaselineSaved, DrawdownSaved, CallSaved, Land,
     WriteFails, Assess, Change, End, cycleVars
<1>10. ASSUME Enable \/ Disable
       PROVE  Armed' \subseteq Armed
  BY <1>10 DEF Enable, Disable, cycleVars, riskVars
<1>11. ASSUME NewProcess
       PROVE  Armed' \subseteq Armed
  BY <1>11 DEF NewProcess, Restart
<1> QED
  BY <1>1, <1>2, <1>3, <1>4, <1>5, <1>6, <1>7, <1>8, <1>9, <1>10, <1>11
     DEF Next, CycleStep

\* The set of cycles that may still execute an order only shrinks while the kill
\* switch or the breaker is on.
THEOREM KillDisarms == Spec => OnlyDisarms
<1>1. RiskTypeOK /\ CycleTypeOK /\ [Next]_vars
        => [~StateOk(risk) /\ ~StateOk(risk)' => Armed' \subseteq Armed]_vars
  BY Disarming
<1> QED
  BY <1>1, UsesRiskEngine, RiskTypeCorrect, CycleInvariance, PTL DEF Spec, OnlyDisarms
\* What a step under an open breaker leaves as it is, when no order is under way.
LEMMA LatchedStep ==
    ASSUME RiskTypeOK, CycleTypeOK, Next, BreakerLatched, ~NewProcess
    PROVE  BreakerLatched'
<1> USE DEF RiskTypeOK, CycleTypeOK, Goto, Leave
<1>1. ~StateOk(risk) /\ Armed = {} /\ \A k \in Cycles : pc[k] # "filled"
  BY DEF BreakerLatched, StateOk
<1>2. Armed' = {}
  BY <1>1, Disarming
<1>3. risk'.circuitOpen
  <2>1. ASSUME NEW c \in Callers, NEW r \in {WithKill(risk), WithFailure(risk)}, NEW at,
               Change(c, r, at)
        PROVE  risk'.circuitOpen
    BY <2>1, RiskFields DEF Change, BreakerLatched
  <2>2. CASE UNCHANGED risk
    BY <2>2 DEF BreakerLatched
  <2>3. ASSUME NEW c \in Callers, NEW e, Assess(c, e)
        PROVE  risk'.circuitOpen
    BY <2>1, <2>2, <2>3 DEF Assess, End
  <2>4. ASSUME NEW k \in Cycles, Propose(k)
        PROVE  risk'.circuitOpen
    BY <1>1, <2>2, <2>4 DEF Propose, Validate, End, riskVars
  <2>5. ASSUME NEW k \in Cycles, Report(k)
        PROVE  risk'.circuitOpen
    BY <1>1, <2>1, <2>5 DEF Report, RecordFailure
  <2>6. ASSUME NEW o \in Operators, OperatorKill(o)
        PROVE  risk'.circuitOpen
    BY <2>1, <2>6 DEF OperatorKill, Kill
  <2>7. ASSUME NEW c \in Callers, RiskGoesOn(c)
        PROVE  risk'.circuitOpen
    BY <2>2, <2>3, <2>7
       DEF RiskGoesOn, RiskStep, BaselineSaved, DrawdownSaved, CallSaved, Land, WriteFails, End
  <2> QED
    BY <2>2, <2>4, <2>5, <2>6, <2>7
       DEF Next, CycleStep, Begin, NextSymbol, Decide, RecordDecision, Judged, Take, Acquire,
           Insert, Lock, Work, Reported, Abort, Answer, Enable, Disable, riskVars
<1>4. ASSUME NEW k \in Cycles
      PROVE  pc'[k] # "filled"
  <2>1. pc[k] # "filled" /\ pc[k] # "work"
    BY <1>1 DEF Armed
  <2>2. ASSUME NEW j \in Cycles, Begin(j) \/ CycleStep(j) \/ Abort(j)
        PROVE  pc'[k] # "filled"
    BY <2>1, <2>2 DEF CycleStep, Begin, NextSymbol, Decide, RecordDecision, Propose, Judged,
       Acquire, Insert, Work, Report, Reported, Abort
  <2>3. CASE UNCHANGED pc
    BY <2>1, <2>3
  <2> QED
    BY <2>2, <2>3 DEF Next, OperatorKill, Answer, RiskGoesOn, Enable, Disable, cycleVars
<1> QED
  BY <1>2, <1>3, <1>4 DEF BreakerLatched

\* Once the breaker is open and no order is under way, it stays open, and no
\* order gets under way, for the rest of the process.
THEOREM BreakerLatches == Spec => BreakerStaysOpen
<1>1. RiskTypeOK /\ CycleTypeOK /\ [Next]_vars
        => [BreakerLatched => BreakerLatched' \/ NewProcess]_vars
  BY LatchedStep
<1> QED
  BY <1>1, UsesRiskEngine, RiskTypeCorrect, CycleInvariance, PTL DEF Spec, BreakerStaysOpen
=============================================================================
