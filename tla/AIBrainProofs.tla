---------------------------- MODULE AIBrainProofs ----------------------------
(***************************************************************************)
(* Theorems about AIBrain, for any finite set of tasks, any semaphore, any *)
(* number of retries and any threshold of the breaker.                     *)
(***************************************************************************)
EXTENDS AIBrain, FiniteSetTheorems, TLAPS

USE AIBrainAssumption

-----------------------------------------------------------------------------
(* The inductive invariant.                                                *)

\* What the breaker remembers has been given up.
LostInv == failures <= lost /\ OpensOnLostCalls

\* While the breaker is open, a task has sent no more than it has failed in the
\* call it is in, and the request under way.
BudgetInv ==
    breaker = "open" =>
        \A t \in Tasks :
            /\ sent[t] <= MaxRetries + 1
            /\ pc[t] = "queued" => sent[t] = 0
            /\ pc[t] = "post" => sent[t] <= attempt[t] + 1
            /\ pc[t] = "backoff" => sent[t] <= attempt[t]

IInv == TypeOK /\ PermitsBalance /\ LostInv /\ BudgetInv

-----------------------------------------------------------------------------
(* Tasks inside the semaphore.                                             *)

\* The tasks inside the semaphore are a finite set.
LEMMA InsideFinite == IsFiniteSet(Inside) /\ Cardinality(Inside) \in Nat
<1>1. Inside \in SUBSET Tasks
  BY DEF Inside
<1> QED
  BY <1>1, FS_Subset, FS_CardinalityType

\* So they are after a step.
LEMMA PrimedInsideFinite ==
    ASSUME TRUE
    PROVE  IsFiniteSet(Inside') /\ Cardinality(Inside') \in Nat
<1>1. Inside' \in SUBSET Tasks
  BY DEF Inside
<1> QED
  BY <1>1, FS_Subset, FS_CardinalityType

\* A step of one task that takes a permit.
LEMMA TakesPermit ==
    ASSUME TypeOK, PermitsBalance, NEW t \in Tasks, NEW s,
           pc' = [pc EXCEPT ![t] = s], permits' = permits - 1,
           pc[t] \notin Holding, s \in Holding
    PROVE  PermitsBalance'
<1>1. Inside' = Inside \cup {t} /\ t \notin Inside
  BY DEF Inside, TypeOK
<1>2. Cardinality(Inside') = Cardinality(Inside) + 1
  BY <1>1, InsideFinite, FS_AddElement
<1> QED
  BY <1>2, InsideFinite DEF PermitsBalance, TypeOK

\* A step of one task that gives its permit back.
LEMMA GivesPermit ==
    ASSUME TypeOK, PermitsBalance, NEW t \in Tasks, NEW s,
           pc' = [pc EXCEPT ![t] = s], permits' = permits + 1,
           pc[t] \in Holding, s \notin Holding
    PROVE  PermitsBalance'
<1>1. Inside' = Inside \ {t} /\ t \in Inside
  BY DEF Inside, TypeOK
<1>2. Cardinality(Inside') = Cardinality(Inside) - 1
  BY <1>1, InsideFinite, FS_RemoveElement
<1> QED
  BY <1>2, InsideFinite DEF PermitsBalance, TypeOK

\* A step of one task that does neither.
LEMMA KeepsPermit ==
    ASSUME TypeOK, PermitsBalance, NEW t \in Tasks, NEW s,
           pc' = [pc EXCEPT ![t] = s], permits' = permits,
           pc[t] \in Holding <=> s \in Holding
    PROVE  PermitsBalance'
<1>1. Inside' = Inside
  BY DEF Inside, TypeOK
<1> QED
  BY <1>1 DEF PermitsBalance

-----------------------------------------------------------------------------
(* Every action keeps the invariant.                                       *)

\* The invariant holds initially.
LEMMA Initial == Init => IInv
<1> SUFFICES ASSUME Init
             PROVE  IInv
  OBVIOUS
<1>1. TypeOK
  BY DEF Init, TypeOK
<1>2. PermitsBalance
  <2>1. Inside = {}
    BY DEF Init, Inside, Holding
  <2> QED
    BY <2>1, FS_EmptySet DEF Init, PermitsBalance
<1>3. LostInv /\ BudgetInv
  BY DEF Init, LostInv, OpensOnLostCalls, BudgetInv
<1> QED
  BY <1>1, <1>2, <1>3 DEF IInv

\* Where a task can go, and what it does to the requests counted.
LEMMA GotoTypes ==
    ASSUME TypeOK, NEW t \in Tasks, NEW s \in {"idle"} \cup Engaged \cup Outcomes,
           Goto(t, s)
    PROVE  /\ pc' \in [Tasks -> {"idle"} \cup Engaged \cup Outcomes]
           /\ sent' \in [Tasks -> Nat]
           /\ pc' = [pc EXCEPT ![t] = s]
  BY DEF TypeOK, Goto

\* A call that ends gives its permit back.
LEMMA LeaveKeeps ==
    ASSUME TypeOK, PermitsBalance, NEW t \in Tasks, NEW s \in Outcomes,
           pc[t] \in Holding, Leave(t, s),
           breaker' \in {"closed", "open", "cooled"},
           failures' \in 0 .. BreakerThreshold, lost' \in 0 .. BreakerThreshold
    PROVE  TypeOK' /\ PermitsBalance'
<1>1. /\ pc' \in [Tasks -> {"idle"} \cup Engaged \cup Outcomes]
      /\ sent' \in [Tasks -> Nat]
      /\ pc' = [pc EXCEPT ![t] = s]
  BY GotoTypes DEF Leave
<1>2. PermitsBalance'
  <2>1. s \notin Holding
    BY DEF Outcomes, Holding
  <2> QED
    BY <1>1, <2>1, GivesPermit DEF Leave
<1>3. permits' \in 0 .. MaxConcurrent
  BY <1>2, PrimedInsideFinite DEF Leave, PermitsBalance, TypeOK
<1> QED
  BY <1>1, <1>2, <1>3 DEF Leave, TypeOK

\* Every step of a decision or of the clock keeps the invariant.
LEMMA NextKeeps == IInv /\ [Next]_vars => IInv'
<1> SUFFICES ASSUME IInv, [Next]_vars
             PROVE  IInv'
  OBVIOUS
<1> USE DEF IInv
<1>1. ASSUME NEW t \in Tasks, UseBaseline(t)
      PROVE  IInv'
  <2>1. TypeOK'
    BY <1>1, GotoTypes DEF UseBaseline, Outcomes, TypeOK
  <2>2. PermitsBalance'
    <3>1. pc' = [pc EXCEPT ![t] = "fallback"] /\ permits' = permits
      BY <1>1 DEF UseBaseline, Goto
    <3>2. pc[t] \in Holding <=> "fallback" \in Holding
      BY <1>1 DEF UseBaseline, Holding
    <3> QED
      BY <3>1, <3>2, KeepsPermit
  <2>3. LostInv'
    BY <1>1 DEF UseBaseline, LostInv, OpensOnLostCalls
  <2>4. BudgetInv'
    BY <1>1 DEF UseBaseline, Goto, BudgetInv, TypeOK
  <2> QED
    BY <2>1, <2>2, <2>3, <2>4
<1>2. ASSUME NEW t \in Tasks, Ask(t)
      PROVE  IInv'
  <2>1. TypeOK'
    <3>1. pc' \in [Tasks -> {"idle"} \cup Engaged \cup Outcomes] /\ sent' \in [Tasks -> Nat]
      BY <1>2, GotoTypes DEF Ask, Engaged, Holding
    <3>2. permits' \in 0 .. MaxConcurrent
      BY <1>2 DEF Ask, TypeOK
    <3>3. failures' \in 0 .. BreakerThreshold /\ lost' \in 0 .. BreakerThreshold
      BY <1>2 DEF Ask, TypeOK
    <3>4. attempt' \in [Tasks -> 0 .. MaxRetries] /\ breaker' = "closed"
      BY <1>2 DEF Ask, TypeOK
    <3> QED
      BY <3>1, <3>2, <3>3, <3>4 DEF TypeOK
  <2>2. PermitsBalance'
    <3>1. pc[t] \notin Holding /\ "post" \in Holding /\ "queued" \notin Holding
      BY <1>2 DEF Ask, Holding
    <3>2. CASE Goto(t, "post") /\ permits' = permits - 1
      BY <3>1, <3>2, TakesPermit DEF Goto
    <3>3. CASE Goto(t, "queued") /\ permits' = permits
      BY <3>1, <3>3, KeepsPermit DEF Goto
    <3> QED
      BY <1>2, <3>2, <3>3 DEF Ask
  <2>3. LostInv'
    BY <1>2 DEF Ask, LostInv, OpensOnLostCalls, TypeOK
  <2>4. BudgetInv'
    BY <1>2 DEF Ask, BudgetInv
  <2> QED
    BY <2>1, <2>2, <2>3, <2>4
<1>3. ASSUME NEW t \in Tasks, Enter(t)
      PROVE  IInv'
  <2>1. TypeOK'
    <3>1. pc' \in [Tasks -> {"idle"} \cup Engaged \cup Outcomes] /\ sent' \in [Tasks -> Nat]
      BY <1>3, GotoTypes DEF Enter, Engaged, Holding
    <3> QED
      BY <1>3, <3>1 DEF Enter, TypeOK
  <2>2. PermitsBalance'
    <3>1. pc' = [pc EXCEPT ![t] = "post"] /\ permits' = permits - 1
      BY <1>3 DEF Enter, Goto
    <3>2. pc[t] \notin Holding /\ "post" \in Holding
      BY <1>3 DEF Enter, Holding
    <3> QED
      BY <3>1, <3>2, TakesPermit
  <2>3. LostInv'
    BY <1>3 DEF Enter, LostInv, OpensOnLostCalls
  <2>4. BudgetInv'
    BY <1>3 DEF Enter, Goto, BudgetInv, TypeOK
  <2> QED
    BY <2>1, <2>2, <2>3, <2>4
<1>4. ASSUME NEW t \in Tasks, Answer(t)
      PROVE  IInv'
  <2>1. TypeOK' /\ PermitsBalance'
    BY <1>4, LeaveKeeps DEF Answer, Outcomes, Holding, TypeOK
  <2>2. LostInv' /\ BudgetInv'
    BY <1>4 DEF Answer, LostInv, OpensOnLostCalls, BudgetInv
  <2> QED
    BY <2>1, <2>2
<1>5. ASSUME NEW t \in Tasks, Retry(t)
      PROVE  IInv'
  <2>1. TypeOK'
    <3>1. pc' \in [Tasks -> {"idle"} \cup Engaged \cup Outcomes] /\ sent' \in [Tasks -> Nat]
      BY <1>5, GotoTypes DEF Retry, Engaged, Holding
    <3>2. attempt' \in [Tasks -> 0 .. MaxRetries]
      BY <1>5 DEF Retry, TypeOK
    <3> QED
      BY <1>5, <3>1, <3>2 DEF Retry, TypeOK
  <2>2. PermitsBalance'
    <3>1. pc' = [pc EXCEPT ![t] = "backoff"] /\ permits' = permits
      BY <1>5 DEF Retry, Goto
    <3>2. pc[t] \in Holding <=> "backoff" \in Holding
      BY <1>5 DEF Retry, Holding
    <3> QED
      BY <3>1, <3>2, KeepsPermit
  <2>3. LostInv'
    BY <1>5 DEF Retry, LostInv, OpensOnLostCalls
  <2>4. BudgetInv'
    BY <1>5 DEF Retry, Goto, BudgetInv, TypeOK
  <2> QED
    BY <2>1, <2>2, <2>3, <2>4
<1>6. ASSUME NEW t \in Tasks, Resend(t)
      PROVE  IInv'
  <2>1. TypeOK'
    <3>1. pc' \in [Tasks -> {"idle"} \cup Engaged \cup Outcomes] /\ sent' \in [Tasks -> Nat]
      BY <1>6, GotoTypes DEF Resend, Engaged, Holding
    <3> QED
      BY <1>6, <3>1 DEF Resend, TypeOK
  <2>2. PermitsBalance'
    <3>1. pc' = [pc EXCEPT ![t] = "post"] /\ permits' = permits
      BY <1>6 DEF Resend, Goto
    <3>2. pc[t] \in Holding <=> "post" \in Holding
      BY <1>6 DEF Resend, Holding
    <3> QED
      BY <3>1, <3>2, KeepsPermit
  <2>3. LostInv'
    BY <1>6 DEF Resend, LostInv, OpensOnLostCalls
  <2>4. BudgetInv'
    BY <1>6 DEF Resend, Goto, BudgetInv, TypeOK
  <2> QED
    BY <2>1, <2>2, <2>3, <2>4
<1>7. ASSUME NEW t \in Tasks, GiveUp(t)
      PROVE  IInv'
  <2>1. PICK outcome \in {"fallback", "httpError"} : Leave(t, outcome)
    BY <1>7 DEF GiveUp
  <2>2. PICK kept \in 0 .. failures : failures' = AtMost(kept + 1)
    BY <1>7 DEF GiveUp
  <2>3. TypeOK' /\ PermitsBalance'
    <3>1. breaker' \in {"closed", "open", "cooled"}
      BY <1>7 DEF GiveUp, TypeOK
    <3>2. failures' \in 0 .. BreakerThreshold /\ lost' \in 0 .. BreakerThreshold
      BY <1>7, <2>2 DEF GiveUp, AtMost, TypeOK
    <3> QED
      BY <1>7, <2>1, <3>1, <3>2, LeaveKeeps DEF GiveUp, Outcomes, Holding
  <2>4. LostInv'
    BY <1>7, <2>2 DEF GiveUp, AtMost, LostInv, OpensOnLostCalls, TypeOK
  <2>5. BudgetInv'
    <3>1. CASE breaker = "open"
      BY <1>7, <2>1, <3>1 DEF GiveUp, Leave, Goto, BudgetInv, TypeOK
    <3>2. CASE breaker # "open"
      <4>1. sent' = [u \in Tasks |-> 0] /\ attempt' = attempt
        BY <2>1, <3>2 DEF Leave, Goto
      <4> QED
        BY <4>1 DEF BudgetInv, TypeOK
    <3> QED
      BY <3>1, <3>2
  <2> QED
    BY <2>3, <2>4, <2>5
<1>8. ASSUME NEW t \in Tasks, Crash(t)
      PROVE  IInv'
  <2>1. TypeOK' /\ PermitsBalance'
    BY <1>8, LeaveKeeps DEF Crash, Outcomes, TypeOK
  <2>2. LostInv'
    BY <1>8 DEF Crash, LostInv, OpensOnLostCalls
  <2>3. BudgetInv'
    BY <1>8 DEF Crash, Leave, Goto, BudgetInv, TypeOK
  <2> QED
    BY <2>1, <2>2, <2>3
<1>9. ASSUME NEW t \in Tasks, CancelWaiting(t)
      PROVE  IInv'
  <2>1. TypeOK'
    BY <1>9, GotoTypes DEF CancelWaiting, Outcomes, TypeOK
  <2>2. PermitsBalance'
    <3>1. pc' = [pc EXCEPT ![t] = "crashed"] /\ permits' = permits
      BY <1>9 DEF CancelWaiting, Goto
    <3>2. pc[t] \in Holding <=> "crashed" \in Holding
      BY <1>9 DEF CancelWaiting, Holding
    <3> QED
      BY <3>1, <3>2, KeepsPermit
  <2>3. LostInv'
    BY <1>9 DEF CancelWaiting, LostInv, OpensOnLostCalls
  <2>4. BudgetInv'
    BY <1>9 DEF CancelWaiting, Goto, BudgetInv, TypeOK
  <2> QED
    BY <2>1, <2>2, <2>3, <2>4
<1>10. ASSUME NEW t \in Tasks, Take(t)
       PROVE  IInv'
  <2>1. TypeOK'
    BY <1>10, GotoTypes DEF Take, TypeOK
  <2>2. PermitsBalance'
    <3>1. pc' = [pc EXCEPT ![t] = "idle"] /\ permits' = permits
      BY <1>10 DEF Take, Goto
    <3>2. pc[t] \in Holding <=> "idle" \in Holding
      BY <1>10 DEF Take, Holding, Outcomes
    <3> QED
      BY <3>1, <3>2, KeepsPermit
  <2>3. LostInv'
    BY <1>10 DEF Take, LostInv, OpensOnLostCalls
  <2>4. BudgetInv'
    BY <1>10 DEF Take, Goto, BudgetInv, TypeOK
  <2> QED
    BY <2>1, <2>2, <2>3, <2>4
<1>11. CASE Cool
  <2>1. PermitsBalance'
    BY <1>11 DEF Cool, PermitsBalance, Inside
  <2> QED
    BY <1>11, <2>1 DEF Cool, TypeOK, LostInv, OpensOnLostCalls, BudgetInv
<1>12. CASE UNCHANGED vars
  BY <1>12 DEF vars, TypeOK, PermitsBalance, Inside, LostInv, OpensOnLostCalls, BudgetInv
<1> QED
  BY <1>1, <1>2, <1>3, <1>4, <1>5, <1>6, <1>7, <1>8, <1>9, <1>10, <1>11, <1>12
     DEF Next, Step

-----------------------------------------------------------------------------
(* The theorems.                                                           *)

\* The inductive invariant holds in every reachable state.
THEOREM Invariance == Spec => []IInv
  BY Initial, NextKeeps, PTL DEF Spec

\* Every variable keeps its type: no call is tried more than MaxRetries + 1
\* times, and the semaphore never has more permits than it began with.
THEOREM BrainTypeCorrect == Spec => []TypeOK
<1>1. IInv => TypeOK
  BY DEF IInv
<1> QED
  BY <1>1, Invariance, PTL

\* No permit of the semaphore is lost or gained, however calls end.
THEOREM KeepsPermits == Spec => []PermitsBalance
<1>1. IInv => PermitsBalance
  BY DEF IInv
<1> QED
  BY <1>1, Invariance, PTL

\* The breaker opens on calls that were given up and not on their retries.
THEOREM OpensOnCalls == Spec => []OpensOnLostCalls
<1>1. IInv => OpensOnLostCalls
  BY DEF IInv, LostInv
<1> QED
  BY <1>1, Invariance, PTL

\* While the breaker stays open, a task sends no more than one call's requests.
THEOREM Drains == Spec => []OpenBreakerDrains
<1>1. IInv => OpenBreakerDrains
  BY DEF IInv, BudgetInv, OpenBreakerDrains
<1> QED
  BY <1>1, Invariance, PTL
=============================================================================
