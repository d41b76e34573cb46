------------------------ MODULE ExecutionEngineProofs ------------------------
(***************************************************************************)
(* Theorems about ExecutionEngine: its types, the agreement of row, fill   *)
(* and execution, one execution per idempotency key, and the refinement of *)
(* OrderBook, for any tasks, intents and prices.                           *)
(***************************************************************************)
EXTENDS ExecutionEngine, TLAPS

USE IntentAssumption

-----------------------------------------------------------------------------
(* The inductive invariant.                                                *)

\* Where a submit stands between its first write of the row and its last.
Working == {"mark", "fetch", "place", "fill", "finish", "reject"}

\* A task is inside a locked block exactly if it holds the lock, and a task
\* whose call has not returned has an order.
LockInv ==
    /\ \A t \in Tasks : pc[t] \in Holding <=> holder = t
    /\ \A t \in Tasks : pc[t] # "idle" => cur[t] \in Ids

\* What the place of a submit says of the row of its order.
PhaseInv ==
    \A t \in Tasks :
        /\ pc[t] = "insert" =>
             \A o \in Ids : KeyOf(o) = KeyOf(cur[t]) => status[o] = "none"
        /\ pc[t] = "mark" => status[cur[t]] = "pending"
        /\ pc[t] \in {"fetch", "place", "fill", "finish", "reject"} =>
             status[cur[t]] = "submitted"
        /\ pc[t] \in {"mark", "fetch", "place"} =>
             executed[cur[t]] = 0 /\ fills[cur[t]] = 0 /\ cur[t] \notin exId
        /\ pc[t] = "fill" =>
             executed[cur[t]] = 1 /\ fills[cur[t]] = 0 /\ cur[t] \notin exId
        /\ pc[t] = "finish" =>
             executed[cur[t]] = 1 /\ fills[cur[t]] = 1 /\ cur[t] \notin exId
        /\ pc[t] = "reject" /\ cur[t] \notin loose =>
             executed[cur[t]] = 0 /\ fills[cur[t]] = 0 /\ cur[t] \notin exId

\* What the row of an order says of its execution.
RowInv ==
    \A o \in Ids :
        /\ executed[o] \in {0, 1}
        /\ status[o] = "none" =>
             executed[o] = 0 /\ fills[o] = 0 /\ o \notin exId /\ o \notin loose
        /\ status[o] = "pending" => executed[o] = 0
        /\ status[o] = "filled" => executed[o] = 1
        /\ o \in exId => status[o] = "filled"

\* One row per idempotency key.
KeyInv ==
    \A o, p \in Ids :
        KeyOf(o) = KeyOf(p) /\ status[o] # "none" /\ status[p] # "none" => o = p

\* An open row is either being worked on or lost; a closed one that is not lost
\* agrees with its fill and its execution.
SettledInv ==
    \A o \in Ids \ loose :
        /\ status[o] \in {"pending", "submitted"} =>
             \E t \in Tasks : cur[t] = o /\ pc[t] \in Working
        /\ status[o] = "filled" => fills[o] = 1 /\ o \in exId
        /\ status[o] \in {"rejected", "cancelled"} =>
             executed[o] = 0 /\ fills[o] = 0 /\ o \notin exId

\* Nothing the engine writes is ever committed.
DiskInv == disk = EmptyTables

\* An order the exchange knows already is not on its way to the exchange; one
\* that is old enough, or in the hands of the reconcile loop, is not being
\* recorded either, and no row knows the one in the loop's hands.
OrphanInv ==
    /\ \A t \in Tasks :
        /\ pc[t] # "idle" /\ status[cur[t]] = "none" => book[cur[t]] = "none"
        /\ pc[t] \in {"mark", "fetch", "place"} => book[cur[t]] = "none"
        /\ pc[t] \in {"fill", "finish"} =>
             book[cur[t]] # "aged" /\ cancelling # cur[t]
    /\ cancelling # NoId =>
        cancelling \notin exId /\ book[cancelling] \in {"aged", "cancelled"}

IInv == LockInv /\ PhaseInv /\ RowInv /\ KeyInv /\ SettledInv /\ DiskInv /\ OrphanInv

-----------------------------------------------------------------------------
(* Types.                                                                  *)

\* Every change of the risk state yields a risk state.
LEMMA RiskTypes ==
    ASSUME NEW r \in RiskRecord, NEW c \in BOOLEAN
    PROVE  /\ WithKill(r) \in RiskRecord
           /\ WithFailure(r) \in RiskRecord
           /\ WithSuccess(r, c) \in RiskRecord
<1>1. WithKill(r) \in RiskRecord
  BY DEF RiskRecord, WithKill
<1>2. WithFailure(r) \in RiskRecord
  <2> DEFINE n == IF r.failures < FailureThreshold
                  THEN r.failures + 1 ELSE FailureThreshold
  <2>1. n \in 0 .. FailureThreshold
    BY FailureThresholdAssumption DEF RiskRecord
  <2>2. (r.circuitOpen \/ n = FailureThreshold) \in BOOLEAN
    OBVIOUS
  <2>3. WithFailure(r) = [r EXCEPT !.failures = n,
                                   !.circuitOpen = @ \/ n = FailureThreshold]
    BY DEF WithFailure
  <2> HIDE DEF n
  <2> QED
    BY <2>1, <2>2, <2>3 DEF RiskRecord
<1>3. WithSuccess(r, c) \in RiskRecord
  <2>1. (r.circuitOpen /\ ~c) \in BOOLEAN /\ 0 \in 0 .. FailureThreshold
    BY FailureThresholdAssumption
  <2> QED
    BY <2>1 DEF RiskRecord, WithSuccess
<1> QED
  BY <1>1, <1>2, <1>3

\* A process without a risk row begins with a risk record.
LEMMA FreshRiskType == FreshRisk \in RiskRecord
BY FailureThresholdAssumption DEF FreshRisk, RiskRecord

\* A fill keeps the type of the paper account.
LEMMA AccountType ==
    ASSUME NEW a \in Account, NEW o \in Ids, NEW p \in Prices
    PROVE  ApplyPaperFill(a, Intent[o], p) \in Account
<1> DEFINE i == Intent[o]
<1>1. i \in IntentRecord
  OBVIOUS
<1>2. p \in Nat /\ Signed(i) \in Int
  BY <1>1 DEF IntentRecord, Signed
<1> DEFINE paid == [a.balances EXCEPT !["USDT"] = @ - Signed(i) * p]
<1>3. paid \in [Assets -> Int]
  <2>1. Signed(i) * p \in Int
    BY <1>2
  <2> QED
    BY <2>1 DEF Account, Assets
<1>4. [paid EXCEPT ![BaseAsset[i.symbol]] = @ + Signed(i)] \in [Assets -> Int]
  <2> HIDE DEF paid
  <2>1. BaseAsset[i.symbol] \in Assets
    BY <1>1 DEF IntentRecord, Assets
  <2> QED
    BY <1>2, <1>3, <2>1
<1>5. (IF i.signal = "flat" THEN NoPosition
       ELSE [side |-> i.signal, quantity |-> i.quantity, entry |-> p]) \in Position
  BY <1>1, <1>2 DEF IntentRecord, Position, NoPosition
<1>6. [a.pos EXCEPT ![i.symbol] =
         IF i.signal = "flat" THEN NoPosition
         ELSE [side |-> i.signal, quantity |-> i.quantity, entry |-> p]]
        \in [Symbols -> Position]
  BY <1>1, <1>5 DEF Account, IntentRecord
<1> QED
  BY <1>4, <1>6 DEF ApplyPaperFill, Account

\* What a new process has in memory and tables has its type.
LEMMA FreshTypes ==
    /\ FreshRisk \in RiskRecord
    /\ FreshAccount \in Account
    /\ EmptyTables \in [status : [Ids -> OrderStatus], exId : SUBSET Ids,
                        fills : [Ids -> Nat], risk : RiskRecord]
BY FreshRiskType, PaperAssumption
   DEF FreshAccount, Account, Position, NoPosition,
       EmptyTables, OrderStatus

\* The types hold initially.
LEMMA TypeInit == Init => TypeOK
BY FreshTypes DEF Init, TypeOK, Waiting, Holding, OrderStatus, EmptyTables

\* Every step keeps the types.
LEMMA TypeStep ==
    ASSUME TypeOK, LockInv, [Next]_vars
    PROVE  TypeOK'
<1> USE DEF TypeOK, Waiting, Holding, OrderStatus
<1>1. ASSUME NEW t \in Tasks, NEW o \in Ids, Submit(t, o) \/ CancelCall(t, o)
      PROVE  TypeOK'
  BY <1>1 DEF Submit, CancelCall, Call, Goto, tables, account, orphan, history
<1>2. ASSUME NEW t \in Tasks, Acquire(t)
      PROVE  TypeOK'
  BY <1>2 DEF Acquire, Goto, tables, account, orphan, history
<1>3. ASSUME NEW t \in Tasks, Lookup(t)
      PROVE  TypeOK'
  BY <1>3 DEF Lookup, Goto, Return, tables, account, orphan
<1>4. ASSUME NEW t \in Tasks, Insert(t)
      PROVE  TypeOK'
  BY <1>4 DEF Insert, Goto, account, orphan, history
<1>5. ASSUME NEW t \in Tasks, Mark(t)
      PROVE  TypeOK'
  BY <1>5 DEF Mark, Goto, account, orphan, history
<1>6. ASSUME NEW o \in Ids, NEW p \in Prices, Execute(o, p)
      PROVE  /\ acct' \in Account
             /\ price' \in [Ids -> Nat]
             /\ executed' \in [Ids -> Nat]
  <2>1. acct' \in Account
    BY <1>6, AccountType DEF Execute
  <2> QED
    BY <1>6, <2>1 DEF Execute
<1>7. ASSUME NEW t \in Tasks, Fetch(t)
      PROVE  TypeOK'
  <2>1. cur[t] \in Ids
    BY <1>7 DEF Fetch, LockInv
  <2>2. acct' \in Account /\ price' \in [Ids -> Nat] /\ executed' \in [Ids -> Nat]
    BY <1>6, <1>7, <2>1 DEF Fetch, account
  <2> QED
    BY <1>7, <2>2 DEF Fetch, Goto, tables, orphan, history
<1>8. ASSUME NEW t \in Tasks, Place(t)
      PROVE  TypeOK'
  <2>1. cur[t] \in Ids
    BY <1>8 DEF Place, LockInv
  <2>2. acct' \in Account /\ price' \in [Ids -> Nat] /\ executed' \in [Ids -> Nat]
    BY <1>6, <1>8, <2>1 DEF Place, account
  <2> QED
    BY <1>8, <2>1, <2>2 DEF Place, Goto, Return, tables, orphan
<1>9. ASSUME NEW t \in Tasks, Reject(t)
      PROVE  TypeOK'
  BY <1>9 DEF Reject, Goto, account, orphan, history
<1>10. ASSUME NEW t \in Tasks, Fail(t) \/ Succeed(t)
       PROVE  TypeOK'
  <2>1. risk' \in RiskRecord
    BY <1>10, RiskTypes DEF Fail, Succeed
  <2> QED
    BY <1>10, <2>1 DEF Fail, Succeed, Goto, tables, account, orphan, history
<1>11. ASSUME NEW t \in Tasks, InsertFill(t)
       PROVE  TypeOK'
  <2>1. cur[t] \in Ids
    BY <1>11 DEF InsertFill, LockInv
  <2> QED
    BY <1>11, <2>1 DEF InsertFill, Goto, account, orphan, history
<1>12. ASSUME NEW t \in Tasks, MarkFilled(t)
       PROVE  TypeOK'
  <2>1. cur[t] \in Ids
    BY <1>12 DEF MarkFilled, LockInv
  <2> QED
    BY <1>12, <2>1 DEF MarkFilled, Goto, account, orphan, history
<1>13. ASSUME NEW t \in Tasks, Saved(t)
       PROVE  TypeOK'
  <2>1. cur[t] \in Ids
    BY <1>13 DEF Saved, LockInv
  <2> QED
    BY <1>13, <2>1 DEF Saved, Return, tables, account, orphan
<1>14. ASSUME NEW t \in Tasks, CancelOrder(t)
       PROVE  TypeOK'
  BY <1>14 DEF CancelOrder, Return, account, orphan, history
<1>15. ASSUME NEW t \in Tasks, Abort(t)
       PROVE  TypeOK'
  <2>1. cur[t] \in Ids
    BY <1>15 DEF Abort, LockInv
  <2> QED
    BY <1>15, <2>1 DEF Abort, tables, account, orphan
<1>16. ASSUME NEW o \in Ids, OrphanCheck(o) \/ Age(o)
       PROVE  TypeOK'
  BY <1>16 DEF OrphanCheck, Age, callVars, tables, account, orphan, history
<1>17. ASSUME OrphanStep
       PROVE  TypeOK'
  BY <1>17 DEF OrphanStep, OrphanFetch, OrphanCancel, OrphanCancelFails, OrphanAbort, callVars,
       tables, account, history
<1>18. ASSUME Restart
       PROVE  TypeOK'
  BY <1>18, FreshTypes DEF Restart
<1>19. ASSUME UNCHANGED vars
       PROVE  TypeOK'
  BY <1>19 DEF vars, callVars, tables, account, orphan, history
<1> QED
  BY <1>1, <1>2, <1>3, <1>4, <1>5, <1>7, <1>8, <1>9, <1>10, <1>11, <1>12, <1>13,
     <1>14, <1>15, <1>16, <1>17, <1>18, <1>19 DEF Next, SubmitStep

-----------------------------------------------------------------------------
(* The inductive invariant is inductive.                                   *)

\* Every step keeps the lock with the task that is inside.
LEMMA LockStep ==
    ASSUME TypeOK, LockInv, [Next]_vars
    PROVE  LockInv'
<1> USE DEF TypeOK, LockInv, Waiting, Holding
<1>1. ASSUME NEW t \in Tasks, NEW o \in Ids, Submit(t, o) \/ CancelCall(t, o)
      PROVE  LockInv'
  BY <1>1 DEF Submit, CancelCall, Call, Goto
<1>2. ASSUME NEW t \in Tasks, Acquire(t)
      PROVE  LockInv'
  BY <1>2 DEF Acquire, Goto
<1>3. ASSUME NEW t \in Tasks, Lookup(t)
      PROVE  LockInv'
  BY <1>3 DEF Lookup, Goto, Return
<1>4. ASSUME NEW t \in Tasks, Insert(t) \/ Mark(t)
      PROVE  LockInv'
  BY <1>4 DEF Insert, Mark, Goto
<1>5. ASSUME NEW t \in Tasks, Fetch(t) \/ Reject(t)
      PROVE  LockInv'
  BY <1>5 DEF Fetch, Reject, Goto
<1>6. ASSUME NEW t \in Tasks, Place(t)
      PROVE  LockInv'
  BY <1>6 DEF Place, Goto, Return
<1>7. ASSUME NEW t \in Tasks, Fail(t) \/ Succeed(t)
      PROVE  LockInv'
  BY <1>7 DEF Fail, Succeed, Goto
<1>8. ASSUME NEW t \in Tasks, InsertFill(t) \/ MarkFilled(t)
      PROVE  LockInv'
  BY <1>8 DEF InsertFill, MarkFilled, Goto
<1>9. ASSUME NEW t \in Tasks, Saved(t) \/ CancelOrder(t)
      PROVE  LockInv'
  BY <1>9 DEF Saved, CancelOrder, Return
<1>10. ASSUME NEW t \in Tasks, Abort(t)
       PROVE  LockInv'
  BY <1>10 DEF Abort
<1>11. ASSUME NEW o \in Ids, OrphanCheck(o) \/ Age(o)
       PROVE  LockInv'
  BY <1>11 DEF OrphanCheck, Age, callVars
<1>12. ASSUME OrphanStep
       PROVE  LockInv'
  BY <1>12 DEF OrphanStep, OrphanFetch, OrphanCancel, OrphanCancelFails, OrphanAbort, callVars
<1>13. ASSUME Restart
       PROVE  LockInv'
  BY <1>13 DEF Restart
<1>14. ASSUME UNCHANGED vars
       PROVE  LockInv'
  BY <1>14 DEF vars, callVars
<1> QED
  BY <1>1, <1>2, <1>3, <1>4, <1>5, <1>6, <1>7, <1>8, <1>9, <1>10, <1>11, <1>12, <1>13, <1>14 DEF Next, SubmitStep

Core == PhaseInv /\ RowInv /\ KeyInv /\ SettledInv /\ DiskInv

\* Every step keeps what ties the position of the task inside to its order.
LEMMA CoreStep ==
    ASSUME TypeOK, IInv, [Next]_vars
    PROVE  Core'
<1> USE DEF TypeOK, IInv, LockInv, PhaseInv, RowInv, KeyInv, SettledInv, DiskInv,
         Waiting, Holding, Working, OrderStatus
<1>1. ASSUME NEW t \in Tasks, NEW o \in Ids, Submit(t, o) \/ CancelCall(t, o)
      PROVE  Core'
  BY <1>1 DEF Core, Submit, CancelCall, Call, Goto, tables, account, history
<1>2. ASSUME NEW t \in Tasks, Acquire(t)
      PROVE  Core'
  BY <1>2 DEF Core, Acquire, Goto, tables, account, history
<1>3. ASSUME NEW t \in Tasks, Lookup(t)
      PROVE  Core'
  BY <1>3 DEF Core, Lookup, Goto, Return, tables, account
<1>4. ASSUME NEW t \in Tasks, Insert(t)
      PROVE  Core'
  BY <1>4 DEF Core, Insert, Goto, account, history
<1>5. ASSUME NEW t \in Tasks, Mark(t)
      PROVE  Core'
  BY <1>5 DEF Core, Mark, Goto, account, history
<1>6. ASSUME NEW t \in Tasks, Fetch(t)
      PROVE  Core'
  BY <1>6 DEF Core, Fetch, Execute, Goto, tables, account, history
<1>7. ASSUME NEW t \in Tasks, Place(t)
      PROVE  Core'
  BY <1>7 DEF Core, Place, Execute, Goto, Return, tables, account
<1>8. ASSUME NEW t \in Tasks, Reject(t)
      PROVE  Core'
  BY <1>8 DEF Core, Reject, Goto, account, history
<1>9. ASSUME NEW t \in Tasks, Fail(t) \/ Succeed(t)
      PROVE  Core'
  BY <1>9 DEF Core, Fail, Succeed, Goto, tables, account, history
<1>10. ASSUME NEW t \in Tasks, InsertFill(t)
       PROVE  Core'
  BY <1>10 DEF Core, InsertFill, Goto, account, history
<1>11. ASSUME NEW t \in Tasks, MarkFilled(t)
       PROVE  Core'
  BY <1>11 DEF Core, MarkFilled, Goto, account, history
<1>12. ASSUME NEW t \in Tasks, Saved(t)
       PROVE  Core'
  BY <1>12 DEF Core, Saved, Return, tables, account
<1>13. ASSUME NEW t \in Tasks, CancelOrder(t)
       PROVE  Core'
  BY <1>13 DEF Core, CancelOrder, Cancellable, Return, account, history
<1>14. ASSUME NEW t \in Tasks, Abort(t)
       PROVE  Core'
  BY <1>14 DEF Core, Abort, tables, account
<1>15. ASSUME NEW o \in Ids, OrphanCheck(o) \/ Age(o)
       PROVE  Core'
  BY <1>15 DEF Core, OrphanCheck, Age, callVars, tables, account, history
<1>16. ASSUME OrphanStep
       PROVE  Core'
  BY <1>16 DEF Core, OrphanStep, OrphanFetch, OrphanCancel, OrphanCancelFails, OrphanAbort, callVars, tables, account, history
<1>17. ASSUME Restart
       PROVE  Core'
  BY <1>17 DEF Core, Restart, EmptyTables
<1>18. ASSUME UNCHANGED vars
       PROVE  Core'
  BY <1>18 DEF Core, vars, callVars, tables, account, history
<1> QED
  BY <1>1, <1>2, <1>3, <1>4, <1>5, <1>6, <1>7, <1>8, <1>9, <1>10, <1>11, <1>12, <1>13, <1>14, <1>15, <1>16, <1>17, <1>18 DEF Next, SubmitStep

\* Every step keeps what reconcile_orphans knows of the orders of the exchange.
LEMMA OrphanInvStep ==
    ASSUME TypeOK, IInv, [Next]_vars
    PROVE  OrphanInv'
<1> USE DEF TypeOK, IInv, LockInv, PhaseInv, RowInv, OrphanInv, Waiting, Holding,
         OrderStatus
<1>1. ASSUME NEW t \in Tasks, NEW o \in Ids, Callable(o),
             Submit(t, o) \/ CancelCall(t, o)
      PROVE  OrphanInv'
  BY <1>1 DEF Callable, Submit, CancelCall, Call, Goto, tables, orphan
<1>2. ASSUME NEW t \in Tasks, Acquire(t)
      PROVE  OrphanInv'
  BY <1>2 DEF Acquire, Goto, tables, orphan
<1>3. ASSUME NEW t \in Tasks, Lookup(t)
      PROVE  OrphanInv'
  BY <1>3 DEF Lookup, Goto, Return, tables, orphan
<1>4. ASSUME NEW t \in Tasks, Insert(t)
      PROVE  OrphanInv'
  BY <1>4 DEF Insert, Goto, orphan
<1>5. ASSUME NEW t \in Tasks, Mark(t)
      PROVE  OrphanInv'
  BY <1>5 DEF Mark, Goto, orphan
<1>6. ASSUME NEW t \in Tasks, Fetch(t)
      PROVE  OrphanInv'
  BY <1>6 DEF Fetch, Execute, Goto, tables, orphan
<1>7. ASSUME NEW t \in Tasks, Place(t)
      PROVE  OrphanInv'
  BY <1>7 DEF Place, Execute, Goto, Return, tables, orphan
<1>8. ASSUME NEW t \in Tasks, Reject(t)
      PROVE  OrphanInv'
  BY <1>8 DEF Reject, Goto, orphan
<1>9. ASSUME NEW t \in Tasks, Fail(t) \/ Succeed(t)
      PROVE  OrphanInv'
  BY <1>9 DEF Fail, Succeed, Goto, tables, orphan
<1>10. ASSUME NEW t \in Tasks, InsertFill(t)
       PROVE  OrphanInv'
  BY <1>10 DEF InsertFill, Goto, orphan
<1>11. ASSUME NEW t \in Tasks, MarkFilled(t)
       PROVE  OrphanInv'
  BY <1>11 DEF MarkFilled, Goto, orphan
<1>12. ASSUME NEW t \in Tasks, Saved(t)
       PROVE  OrphanInv'
  BY <1>12 DEF Saved, Return, tables, orphan
<1>13. ASSUME NEW t \in Tasks, CancelOrder(t)
       PROVE  OrphanInv'
  BY <1>13 DEF CancelOrder, Cancellable, Return, orphan
<1>14. ASSUME NEW t \in Tasks, Abort(t)
       PROVE  OrphanInv'
  BY <1>14 DEF Abort, tables, orphan
<1>15. ASSUME NEW o \in Ids, OrphanCheck(o) \/ Age(o)
       PROVE  OrphanInv'
  <2>1. CASE OrphanCheck(o)
    BY <2>1 DEF OrphanCheck, callVars, tables
  <2>2. CASE Age(o)
    BY <2>2 DEF Age, callVars, tables, orphan
  <2> QED
    BY <1>15, <2>1, <2>2
<1>16. ASSUME OrphanStep
       PROVE  OrphanInv'
  BY <1>16 DEF OrphanStep, OrphanFetch, OrphanCancel, OrphanCancelFails, OrphanAbort, callVars, tables
<1>17. ASSUME Restart
       PROVE  OrphanInv'
  BY <1>17 DEF Restart, EmptyTables
<1>18. ASSUME UNCHANGED vars
       PROVE  OrphanInv'
  BY <1>18 DEF vars, callVars, tables, orphan
<1> QED
  BY <1>1, <1>2, <1>3, <1>4, <1>5, <1>6, <1>7, <1>8, <1>9, <1>10, <1>11, <1>12, <1>13, <1>14, <1>15, <1>16, <1>17, <1>18 DEF Next, SubmitStep

\* Every reachable state of the engine satisfies the types and the invariant.
THEOREM Invariance == Spec => [](TypeOK /\ IInv)
<1>1. Init => TypeOK /\ IInv
  BY TypeInit DEF Init, IInv, LockInv, PhaseInv, RowInv, KeyInv, SettledInv, DiskInv,
     OrphanInv, Waiting, Holding, Working, EmptyTables
<1>2. TypeOK /\ IInv /\ [Next]_vars => (TypeOK /\ IInv)'
  <2> SUFFICES ASSUME TypeOK, IInv, [Next]_vars
               PROVE  (TypeOK /\ IInv)'
    OBVIOUS
  <2>1. TypeOK' /\ LockInv'
    BY TypeStep, LockStep DEF IInv
  <2> QED
    BY <2>1, CoreStep, OrphanInvStep DEF IInv, Core
<1> QED
  BY <1>1, <1>2, PTL DEF Spec

-----------------------------------------------------------------------------
(* What follows from it.                                                   *)

\* Every variable keeps its type.
THEOREM TypeCorrect == Spec => []TypeOK
BY Invariance, PTL

\* An intent, retried or submitted under another id with the same idempotency
\* key, executes at most once in a process life.
THEOREM ExecutesOnce == Spec => []OneExecutionPerKey
<1>1. TypeOK /\ IInv => OneExecutionPerKey
  BY DEF TypeOK, IInv, RowInv, KeyInv, OneExecutionPerKey
<1> QED
  BY <1>1, Invariance, PTL

\* Row, exchange id, fill and execution agree on every settled order.
THEOREM SettledAgree == Spec => []SettledOrdersAgree
<1>1. TypeOK /\ IInv => SettledOrdersAgree
  <2> SUFFICES ASSUME TypeOK, IInv, NEW o \in Ids \ loose,
                      \A t \in Tasks : cur[t] = o => pc[t] \notin Holding
               PROVE  /\ status[o] \notin {"pending", "submitted"}
                      /\ executed[o] = IF status[o] = "filled" THEN 1 ELSE 0
                      /\ fills[o] = executed[o]
                      /\ o \in exId <=> status[o] = "filled"
    BY DEF SettledOrdersAgree
  <2>1. status[o] \notin {"pending", "submitted"}
    BY DEF IInv, SettledInv, Working, Holding
  <2> QED
    BY <2>1 DEF TypeOK, OrderStatus, IInv, RowInv, SettledInv
<1> QED
  BY <1>1, Invariance, PTL

\* The reconcile loop never cancels an exchange order that a row records.
THEOREM CancelsOnlyOrphans == Spec => OnlyOrphansCancelled
<1> DEFINE Recorded == \A o \in Ids :
               book[o] # "cancelled" /\ book'[o] = "cancelled" => o \notin exId
<1>1. TypeOK /\ IInv /\ [Next]_vars => [Recorded]_vars
  <2> SUFFICES ASSUME TypeOK, IInv, Next, NEW o \in Ids,
                      book[o] # "cancelled", book'[o] = "cancelled"
               PROVE  o \notin exId
    OBVIOUS
  <2>1. ASSUME NEW t \in Tasks, CancelOrder(t)
        PROVE  o \notin exId
    BY <2>1 DEF CancelOrder, Cancellable, TypeOK, IInv, LockInv, RowInv
  <2>2. ASSUME OrphanStep
        PROVE  o \notin exId
    BY <2>2 DEF OrphanStep, OrphanFetch, OrphanCancel, OrphanCancelFails, OrphanAbort, TypeOK,
       IInv, OrphanInv
  <2>3. ASSUME NEW t \in Tasks, Place(t)
        PROVE  o \notin exId
    BY <2>3 DEF Place, TypeOK
  <2>4. ASSUME NEW p \in Ids, OrphanCheck(p) \/ Age(p)
        PROVE  o \notin exId
    BY <2>4 DEF OrphanCheck, Age, TypeOK
  <2>5. ASSUME UNCHANGED book
        PROVE  o \notin exId
    BY <2>5
  <2> QED
    BY <2>1, <2>2, <2>3, <2>4, <2>5 DEF Next, SubmitStep, Submit, CancelCall, Call,
       Acquire, Lookup, Insert, Mark, Fetch, Reject, Fail, InsertFill, MarkFilled,
       Succeed, Saved, Abort, Restart
<1> QED
  BY <1>1, Invariance, PTL DEF OnlyOrphansCancelled, Spec

-----------------------------------------------------------------------------
(* Refinement.                                                             *)

\* Every step of the engine is a step of the order book or leaves it alone.
LEMMA BookStep ==
    ASSUME TypeOK, IInv, [Next]_vars
    PROVE  [Book!Next]_Book!vars
<1> USE DEF TypeOK, IInv, LockInv, PhaseInv, RowInv, Waiting, Holding, OrderStatus,
         BookStatus, BookExecuted
<1>1. ASSUME NEW t \in Tasks, Insert(t)
      PROVE  Book!Open(cur[t])
  <2>1. /\ cur[t] \in Ids
        /\ status' = [status EXCEPT ![cur[t]] = "pending"]
        /\ UNCHANGED executed
        /\ pc[t] = "insert"
    BY <1>1 DEF Insert, account
  <2>2. \A p \in Ids : KeyOf(p) = KeyOf(cur[t]) => BookStatus[p] = "none"
    BY <2>1
  <2>3. BookStatus' = [BookStatus EXCEPT ![cur[t]] = "open"]
    BY <2>1
  <2> QED
    BY <2>1, <2>2, <2>3 DEF Book!Open
<1>2. ASSUME NEW t \in Tasks, Reject(t)
      PROVE  Book!Close(cur[t], "rejected")
  BY <1>2 DEF Reject, account, Book!Close
<1>3. ASSUME NEW t \in Tasks, MarkFilled(t)
      PROVE  Book!Close(cur[t], "filled")
  BY <1>3 DEF MarkFilled, account, Book!Close
<1>4. ASSUME NEW t \in Tasks, CancelOrder(t)
      PROVE  Book!Close(cur[t], "cancelled") \/ UNCHANGED <<BookStatus, BookExecuted>>
  BY <1>4 DEF CancelOrder, Cancellable, account, Book!Close
<1>5. ASSUME NEW t \in Tasks, Fetch(t) \/ Place(t)
      PROVE  Book!Execute(cur[t]) \/ UNCHANGED <<BookStatus, BookExecuted>>
  <2>1. /\ cur[t] \in Ids /\ status[cur[t]] = "submitted" /\ executed[cur[t]] = 0
        /\ UNCHANGED status
    BY <1>5 DEF Fetch, Place, tables
  <2>2. (\E p \in Prices : Execute(cur[t], p)) \/ UNCHANGED executed
    BY <1>5 DEF Fetch, Place, account
  <2>3. CASE UNCHANGED executed
    BY <2>1, <2>3
  <2>4. CASE \E p \in Prices : Execute(cur[t], p)
    <3>1. PICK p \in Prices : Execute(cur[t], p)
      BY <2>4
    <3>2. Book!Execute(cur[t])
      BY <2>1, <3>1 DEF Execute, Book!Execute
    <3> QED
      BY <3>2
  <2> QED
    BY <2>2, <2>3, <2>4
<1>6. ASSUME Restart
      PROVE  Book!Restart
  BY <1>6 DEF Restart, DiskInv, EmptyTables, Book!Restart
<1>7. ASSUME NEW t \in Tasks, Mark(t)
      PROVE  UNCHANGED <<BookStatus, BookExecuted>>
  BY <1>7 DEF Mark, account
<1>8. ASSUME UNCHANGED <<status, executed>>
      PROVE  UNCHANGED <<BookStatus, BookExecuted>>
  BY <1>8
<1>9. ASSUME NEW t \in Tasks
       PROVE  pc[t] # "idle" => cur[t] \in Ids
  BY DEF LockInv
<1>10. ASSUME NEW o \in Ids,
              \/ Book!Open(o) \/ Book!Execute(o)
              \/ \E how \in {"filled", "rejected", "cancelled"} : Book!Close(o, how)
       PROVE  Book!Next
  BY <1>10 DEF Book!Next
<1>11. ASSUME Book!Restart
       PROVE  Book!Next
  BY <1>11 DEF Book!Next
<1> HIDE DEF TypeOK, IInv, LockInv, PhaseInv, RowInv, BookStatus, BookExecuted
<1>12. ASSUME NEW t \in Tasks, SubmitStep(t) \/ CancelOrder(t)
       PROVE  Book!Next \/ UNCHANGED <<BookStatus, BookExecuted>>
  <2>1. cur[t] \in Ids
    BY <1>9, <1>12 DEF SubmitStep, Lookup, Insert, Mark, Fetch, Place, Reject, Fail,
       InsertFill, MarkFilled, Succeed, Saved, CancelOrder
  <2>2. CASE Insert(t)
    BY <1>1, <1>10, <2>1, <2>2
  <2>3. CASE Reject(t)
    BY <1>2, <1>10, <2>1, <2>3
  <2>4. CASE MarkFilled(t)
    BY <1>3, <1>10, <2>1, <2>4
  <2>5. CASE CancelOrder(t)
    BY <1>4, <1>10, <2>1, <2>5
  <2>6. CASE Fetch(t) \/ Place(t)
    BY <1>5, <1>10, <2>1, <2>6
  <2>7. CASE Mark(t)
    BY <1>7, <2>7
  <2>8. CASE Lookup(t) \/ Fail(t) \/ InsertFill(t) \/ Succeed(t) \/ Saved(t)
    BY <1>8, <2>8 DEF Lookup, Fail, InsertFill, Succeed, Saved, tables, account
  <2> QED
    BY <1>12, <2>2, <2>3, <2>4, <2>5, <2>6, <2>7, <2>8 DEF SubmitStep
<1>13. ASSUME NEW t \in Tasks, NEW o \in Ids, Submit(t, o) \/ CancelCall(t, o)
       PROVE  UNCHANGED <<status, executed>>
  BY <1>13 DEF Submit, CancelCall, Call, tables, account
<1>14. ASSUME NEW t \in Tasks, Acquire(t) \/ Abort(t)
      PROVE  UNCHANGED <<status, executed>>
  BY <1>14 DEF Acquire, Abort, tables, account
<1>15. ASSUME OrphanStep \/ UNCHANGED vars \/ \E o \in Ids : OrphanCheck(o) \/ Age(o)
       PROVE  UNCHANGED <<status, executed>>
  BY <1>15 DEF OrphanCheck, Age, OrphanStep, OrphanFetch, OrphanCancel, OrphanCancelFails, OrphanAbort, vars, tables,
     account
<1> SUFFICES Book!Next \/ UNCHANGED <<BookStatus, BookExecuted>>
  BY DEF Book!vars
<1>16. CASE UNCHANGED <<status, executed>>
  BY <1>8, <1>16
<1>17. CASE Restart
  BY <1>6, <1>11, <1>17
<1>18. CASE \E t \in Tasks : SubmitStep(t) \/ CancelOrder(t)
  BY <1>12, <1>18
<1> QED
  BY <1>14, <1>13, <1>15, <1>16, <1>17, <1>18 DEF Next

\* The engine implements the order book: under every interleaving of calls,
\* exceptions, reconcile steps and restarts.
THEOREM Refinement == Spec => ImplementsOrderBook
<1>1. Init => Book!Init
  BY DEF Init, EmptyTables, BookStatus, BookExecuted, Book!Init
<1>2. TypeOK /\ IInv /\ [Next]_vars => [Book!Next]_Book!vars
  BY BookStep
<1> QED
  BY <1>1, <1>2, Invariance, PTL DEF Spec, ImplementsOrderBook, Book!Spec
=============================================================================
