--------------------------- MODULE ExecutionEngine ---------------------------
(***************************************************************************)
(* trade_post/execution/engine.py: submit, cancel and reconcile_orphans,   *)
(* called by any number of asyncio tasks.  A step is what runs between two *)
(* awaits.  submit and cancel run under one asyncio.Lock, reconcile_orphans *)
(* does not.  Every await may end the call early (Abort), and the process  *)
(* may stop and start again at any point (Restart).                        *)
(*                                                                         *)
(* The orders and fills tables are what the engine's own session sees.     *)
(* That session is the one startup_core opened: nothing commits it after   *)
(* startup, so disk, what another process would find, never changes.  The  *)
(* risk row does not either: from its first insert on that session holds   *)
(* SQLite's write lock (Database), so that _persist, which has a session   *)
(* of its own, fails after every submit, and logs that.                    *)
(***************************************************************************)
EXTENDS RiskState, PaperAccount, FiniteSets

CONSTANTS
    Tasks,        \* asyncio tasks that call the engine
    Ids,          \* intent ids; an order takes the id of its intent
    Intent,       \* Intent[o]: the OrderIntent that carries the id
    Prices,       \* fill prices within the slippage limit
    NoTask, NoId  \* outside Tasks, outside Ids

IntentRecord ==
    [key : STRING, symbol : Symbols, side : {"buy", "sell"},
     signal : {"long", "short", "flat"}, quantity : Nat \ {0}]

ASSUME IntentAssumption ==
    /\ Intent \in [Ids -> IntentRecord]
    /\ Prices \subseteq Nat \ {0}
    /\ NoTask \notin Tasks /\ NoId \notin Ids

KeyOf(o) == Intent[o].key

\* Nothing in the program sets PARTIALLY_FILLED or EXPIRED.
OrderStatus == {"none", "pending", "submitted", "filled", "rejected", "cancelled"}

\* Where a task stands: waiting for the lock, or the await it will resume from.
Waiting == {"wantSubmit", "wantCancel"}
Holding == {"lookup", "insert", "mark", "fetch", "place", "fill", "finish",
            "succeed", "saveOk", "reject", "fail", "saveFail", "cancel"}

VARIABLES
    paper,       \* is_paper and not has_exchange_credentials
    pc, cur,     \* per task: the await it is at, the order of its call
    holder,      \* the task that holds self._lock
    status,      \* orders.status, "none" where there is no row
    exId,        \* orders whose row has an exchange_order_id
    fills,       \* number of fills rows per order
    disk,        \* the committed content of the two tables and the risk row
    acct,        \* paper account
    price,       \* average price at which an order executed
    executed,    \* history: executions per order in this process life
    book,        \* the exchange's record of an order
    unchecked, cancelling,   \* reconcile_orphans: ex_orders left, eo in hand
    risk,
    acked,       \* history: orders a submit of this process has returned
    loose        \* history: orders whose submit ended without a known outcome

callVars == <<pc, cur, holder>>
tables   == <<status, exId, fills>>
account  == <<acct, price, executed>>
orphan   == <<unchecked, cancelling>>
history  == <<acked, loose>>
vars == <<paper, callVars, tables, disk, account, book, orphan, risk, history>>

\* Before the first start, and without a risk row.
EmptyTables ==
    [status |-> [o \in Ids |-> "none"], exId |-> {}, fills |-> [o \in Ids |-> 0],
     risk |-> FreshRisk]

Init ==
    /\ paper \in BOOLEAN
    /\ pc = [t \in Tasks |-> "idle"]
    /\ cur = [t \in Tasks |-> NoId]
    /\ holder = NoTask
    /\ status = EmptyTables.status /\ exId = {} /\ fills = EmptyTables.fills
    /\ disk = EmptyTables
    /\ acct = FreshAccount
    /\ price = [o \in Ids |-> 0]
    /\ executed = [o \in Ids |-> 0]
    /\ book = [o \in Ids |-> "none"]
    /\ unchecked = {} /\ cancelling = NoId
    /\ risk = EmptyTables.risk
    /\ acked = {} /\ loose = {}

-----------------------------------------------------------------------------
(* Calls and the lock.                                                     *)

Goto(t, label) == pc' = [pc EXCEPT ![t] = label]

\* async with releases the lock on every way out of the block.
Return(t) ==
    /\ pc' = [pc EXCEPT ![t] = "idle"]
    /\ cur' = [cur EXCEPT ![t] = NoId]
    /\ holder' = NoTask

Call(t, o, label) ==
    /\ pc[t] = "idle"
    /\ Goto(t, label)
    /\ cur' = [cur EXCEPT ![t] = o]
    /\ UNCHANGED <<paper, holder, tables, disk, account, book, orphan, risk, history>>

Submit(t, o) == Call(t, o, "wantSubmit")
CancelCall(t, o) == Call(t, o, "wantCancel")

Acquire(t) ==
    /\ pc[t] \in Waiting
    /\ holder = NoTask
    /\ holder' = t
    /\ Goto(t, IF pc[t] = "wantSubmit" THEN "lookup" ELSE "cancel")
    /\ UNCHANGED <<paper, cur, tables, disk, account, book, orphan, risk, history>>

-----------------------------------------------------------------------------
(* submit.                                                                 *)

\* Mutant: a rejected order does not count as a hit, so that it can be retried.
LookupSkippingRejected(t) ==
    /\ pc[t] = "lookup"
    /\ LET hits == {o \in Ids : status[o] \notin {"none", "rejected"} /\ KeyOf(o) = KeyOf(cur[t])}
       IN  IF hits = {}
           THEN Goto(t, "insert") /\ UNCHANGED <<cur, holder, acked>>
           ELSE Return(t) /\ acked' = acked \cup hits
    /\ UNCHANGED <<paper, tables, disk, account, book, orphan, risk, loose>>

\* get_order_by_idempotency: a hit returns the stored order, whatever its state.
Lookup(t) ==
    /\ pc[t] = "lookup"
    /\ LET hits == {o \in Ids : status[o] # "none" /\ KeyOf(o) = KeyOf(cur[t])}
       IN  IF hits = {}
           THEN Goto(t, "insert") /\ UNCHANGED <<cur, holder, acked>>
           ELSE Return(t) /\ acked' = acked \cup hits
    /\ UNCHANGED <<paper, tables, disk, account, book, orphan, risk, loose>>

Insert(t) ==
    /\ pc[t] = "insert"
    /\ status' = [status EXCEPT ![cur[t]] = "pending"]
    /\ Goto(t, "mark")
    /\ UNCHANGED <<paper, cur, holder, exId, fills, disk, account, book, orphan,
                   risk, history>>

Mark(t) ==
    /\ pc[t] = "mark"
    /\ status' = [status EXCEPT ![cur[t]] = "submitted"]
    /\ Goto(t, "fetch")
    /\ UNCHANGED <<paper, cur, holder, exId, fills, disk, account, book, orphan,
                   risk, history>>

\* The order executes at price p; the paper account books it in the same step.
Execute(o, p) ==
    /\ executed' = [executed EXCEPT ![o] = @ + 1]
    /\ price' = [price EXCEPT ![o] = p]
    /\ acct' = IF paper THEN ApplyPaperFill(acct, Intent[o], p) ELSE acct

\* get_snapshot, then the slippage check: a fetch error and a price more than 5%
\* off both lead to "reject".  With a paper account the order fills on the spot.
Fetch(t) ==
    /\ pc[t] = "fetch"
    /\ \/ Goto(t, "reject") /\ UNCHANGED account
       \/ paper /\ Goto(t, "fill") /\ \E p \in Prices : Execute(cur[t], p)
       \/ ~paper /\ Goto(t, "place") /\ UNCHANGED account
    /\ UNCHANGED <<paper, cur, holder, tables, disk, book, orphan, risk, history>>

\* _place_via_ccxt: any exception of create_order is a rejection to submit, also
\* one that comes after the exchange has taken the order (a timeout), and the
\* task may be cancelled while the exchange executes.
Place(t) ==
    /\ pc[t] = "place"
    /\ \/ Goto(t, "reject") /\ UNCHANGED <<cur, holder, account, book, loose>>
       \/ /\ \E p \in Prices : Execute(cur[t], p)
          /\ \E where \in {"open", "undated", "done"} : book' = [book EXCEPT ![cur[t]] = where]
          /\ \/ Goto(t, "fill") /\ UNCHANGED <<cur, holder, loose>>
             \/ /\ loose' = loose \cup {cur[t]}
                /\ \/ Goto(t, "reject") /\ UNCHANGED <<cur, holder>>
                   \/ Return(t)
    /\ UNCHANGED <<paper, tables, disk, orphan, risk, acked>>

\* Mutant: the failure is recorded but the row keeps its status.
RejectWithoutUpdate(t) ==
    /\ pc[t] = "reject"
    /\ Goto(t, "fail")
    /\ UNCHANGED <<paper, cur, holder, tables, disk, account, book, orphan, risk, history>>

Reject(t) ==
    /\ pc[t] = "reject"
    /\ status' = [status EXCEPT ![cur[t]] = "rejected"]
    /\ Goto(t, "fail")
    /\ UNCHANGED <<paper, cur, holder, exId, fills, disk, account, book, orphan,
                   risk, history>>

\* record_failure changes the risk state and then awaits its _persist.
Fail(t) ==
    /\ pc[t] = "fail"
    /\ risk' = WithFailure(risk)
    /\ Goto(t, "saveFail")
    /\ UNCHANGED <<paper, cur, holder, tables, disk, account, book, orphan, history>>

InsertFill(t) ==
    /\ pc[t] = "fill"
    /\ fills' = [fills EXCEPT ![cur[t]] = @ + 1]
    /\ Goto(t, "finish")
    /\ UNCHANGED <<paper, cur, holder, status, exId, disk, account, book, orphan,
                   risk, history>>

MarkFilled(t) ==
    /\ pc[t] = "finish"
    /\ status' = [status EXCEPT ![cur[t]] = "filled"]
    /\ exId' = exId \cup {cur[t]}
    /\ Goto(t, "succeed")
    /\ UNCHANGED <<paper, cur, holder, fills, disk, account, book, orphan, risk, history>>

Succeed(t) ==
    /\ pc[t] = "succeed"
    /\ \E cooled \in BOOLEAN : risk' = WithSuccess(risk, cooled)
    /\ Goto(t, "saveOk")
    /\ UNCHANGED <<paper, cur, holder, tables, disk, account, book, orphan, history>>

\* Mutant: the lock is taken by hand and the return forgets to release it.
SavedHoldingLock(t) ==
    /\ pc[t] \in {"saveFail", "saveOk"}
    /\ acked' = IF pc[t] = "saveOk" THEN acked \cup {cur[t]} ELSE acked
    /\ Goto(t, "idle") /\ cur' = [cur EXCEPT ![t] = NoId]
    /\ UNCHANGED <<paper, holder, tables, disk, account, book, orphan, risk, loose>>

\* _persist has failed: submit returns None after a failure, the order otherwise.
Saved(t) ==
    /\ pc[t] \in {"saveFail", "saveOk"}
    /\ acked' = IF pc[t] = "saveOk" THEN acked \cup {cur[t]} ELSE acked
    /\ Return(t)
    /\ UNCHANGED <<paper, tables, disk, account, book, orphan, risk, loose>>

-----------------------------------------------------------------------------
(* cancel, and what may end any call.                                      *)

\* Mutant: cancel without the is_terminal check.
CancellableAlways(o) == status[o] # "none" /\ (paper \/ o \in exId)

\* A missing or terminal order, and a live order without an exchange id, raise.
Cancellable(o) == status[o] \in {"pending", "submitted"} /\ (paper \/ o \in exId)

\* One step: while it holds the lock no other call changes the row it has read,
\* and no order with an exchange id is cancellable.
CancelOrder(t) ==
    /\ pc[t] = "cancel"
    /\ status' = IF Cancellable(cur[t])
                 THEN [status EXCEPT ![cur[t]] = "cancelled"] ELSE status
    /\ book' = IF Cancellable(cur[t]) /\ ~paper
               THEN [book EXCEPT ![cur[t]] = "cancelled"] ELSE book
    /\ Return(t)
    /\ UNCHANGED <<paper, exId, fills, disk, account, orphan, risk, history>>

\* An exception submit or cancel does not catch: a database error, the task's
\* cancellation, the division by a last price of 0.  What was done stays done.
Abort(t) ==
    /\ pc[t] \in Waiting \cup Holding
    /\ pc' = [pc EXCEPT ![t] = "idle"]
    /\ cur' = [cur EXCEPT ![t] = NoId]
    /\ holder' = IF pc[t] \in Holding THEN NoTask ELSE holder
    /\ loose' = IF pc[t] \in Holding /\ status[cur[t]] \in {"pending", "submitted"}
                THEN loose \cup {cur[t]} ELSE loose
    /\ UNCHANGED <<paper, tables, disk, account, book, orphan, risk, acked>>

-----------------------------------------------------------------------------
(* reconcile_orphans: one background task, outside the lock.               *)

OrphanFetch ==
    /\ ~paper
    /\ unchecked = {} /\ cancelling = NoId
    /\ unchecked' = {o \in Ids : book[o] \in {"open", "aged", "undated"}}
    /\ UNCHANGED <<paper, callVars, tables, disk, account, book, cancelling, risk,
                   history>>

\* Mutant: no age threshold, so that an order still being recorded is an orphan.
OrphanCheckAnyAge(o) ==
    /\ o \in unchecked /\ cancelling = NoId
    /\ unchecked' = unchecked \ {o}
    /\ cancelling' = IF o \notin exId THEN o ELSE NoId
    /\ UNCHANGED <<paper, callVars, tables, disk, account, book, risk, history>>

\* Mutant: any row of the order, recorded exchange id or not, makes it known.
OrphanCheckByRow(o) ==
    /\ o \in unchecked /\ cancelling = NoId
    /\ unchecked' = unchecked \ {o}
    /\ cancelling' = IF status[o] = "none" /\ book[o] = "aged" THEN o ELSE NoId
    /\ UNCHANGED <<paper, callVars, tables, disk, account, book, risk, history>>

\* Only an order no row knows, that carries a timestamp and is older by it than
\* orphan_age_threshold_sec.
OrphanCheck(o) ==
    /\ o \in unchecked /\ cancelling = NoId
    /\ unchecked' = unchecked \ {o}
    /\ cancelling' = IF o \notin exId /\ book[o] = "aged" THEN o ELSE NoId
    /\ UNCHANGED <<paper, callVars, tables, disk, account, book, risk, history>>

OrphanCancel ==
    /\ cancelling # NoId
    /\ book' = [book EXCEPT ![cancelling] = "cancelled"]
    /\ cancelling' = NoId
    /\ UNCHANGED <<paper, callVars, tables, disk, account, unchecked, risk, history>>

\* The exchange refuses the cancellation: it is logged and the loop goes on.
OrphanCancelFails ==
    /\ cancelling # NoId
    /\ cancelling' = NoId
    /\ UNCHANGED <<paper, callVars, tables, disk, account, book, unchecked, risk,
                   history>>

\* An open exchange order with a timestamp passes the age threshold.  A submit that
\* still has to record it is faster: its two statements wait 30 s each at most, and
\* the threshold is taken to be longer than that, as its default of 300 s is.
Age(o) ==
    /\ book[o] = "open"
    /\ \A t \in Tasks : cur[t] = o => pc[t] \notin {"fill", "finish"}
    /\ book' = [book EXCEPT ![o] = "aged"]
    /\ UNCHANGED <<paper, callVars, tables, disk, account, orphan, risk, history>>

\* list_recent_orders raises, as when submit is in the middle of a statement of
\* the session they share: the loop logs it and starts over with a new list.
OrphanAbort ==
    /\ unchecked # {} /\ cancelling = NoId
    /\ unchecked' = {}
    /\ UNCHANGED <<paper, callVars, tables, disk, account, book, cancelling, risk,
                   history>>

-----------------------------------------------------------------------------
(* Restart, and the specification.                                         *)

\* The process stops at any point and starts again: memory is lost, the tables
\* are what was committed, and the risk state is loaded from its row.
Restart ==
    /\ pc' = [t \in Tasks |-> "idle"]
    /\ cur' = [t \in Tasks |-> NoId]
    /\ holder' = NoTask
    /\ status' = disk.status /\ exId' = disk.exId /\ fills' = disk.fills
    /\ acct' = FreshAccount
    /\ price' = [o \in Ids |-> 0]
    /\ executed' = [o \in Ids |-> 0]
    /\ unchecked' = {} /\ cancelling' = NoId
    /\ risk' = disk.risk
    /\ acked' = {} /\ loose' = {}
    /\ UNCHANGED <<paper, disk, book>>

\* Intent ids are fresh in every process (uuid4), so that no caller submits an
\* order again that only the exchange remembers.
Callable(o) == book[o] = "none" \/ status[o] # "none"

SubmitStep(t) ==
    \/ Lookup(t) \/ Insert(t) \/ Mark(t) \/ Fetch(t) \/ Place(t)
    \/ Reject(t) \/ Fail(t) \/ InsertFill(t) \/ MarkFilled(t) \/ Succeed(t) \/ Saved(t)

OrphanStep == OrphanFetch \/ OrphanCancel \/ OrphanCancelFails \/ OrphanAbort

Next ==
    \/ \E t \in Tasks :
        \/ \E o \in Ids : Callable(o) /\ (Submit(t, o) \/ CancelCall(t, o))
        \/ Acquire(t)
        \/ SubmitStep(t)
        \/ CancelOrder(t)
        \/ Abort(t)
    \/ \E o \in Ids : OrphanCheck(o) \/ Age(o)
    \/ OrphanStep
    \/ Restart

\* asyncio wakes the waiters of a Lock in order (SF on Acquire); every await of
\* a call ends, by its client's or the database's timeout; the reconcile loop
\* goes on for ever, time passes, and neither its reads of the table nor its
\* cancellations fail for ever.
Fairness ==
    /\ \A t \in Tasks : SF_vars(Acquire(t)) /\ WF_vars(SubmitStep(t) \/ CancelOrder(t))
    /\ \A o \in Ids : SF_vars(OrphanCheck(o)) /\ WF_vars(Age(o))
    /\ WF_vars(OrphanFetch) /\ SF_vars(OrphanCancel) /\ WF_vars(OrphanStep)

Spec == Init /\ [][Next]_vars /\ Fairness

-----------------------------------------------------------------------------
(* Properties.                                                             *)

\* Every variable has the type its declaration says.
TypeOK ==
    /\ paper \in BOOLEAN
    /\ pc \in [Tasks -> {"idle"} \cup Waiting \cup Holding]
    /\ cur \in [Tasks -> Ids \cup {NoId}]
    /\ holder \in Tasks \cup {NoTask}
    /\ status \in [Ids -> OrderStatus]
    /\ exId \subseteq Ids
    /\ fills \in [Ids -> Nat]
    /\ disk \in [status : [Ids -> OrderStatus], exId : SUBSET Ids, fills : [Ids -> Nat],
                risk : RiskRecord]
    /\ acct \in Account
    /\ price \in [Ids -> Nat]
    /\ executed \in [Ids -> Nat]
    /\ book \in [Ids -> {"none", "open", "aged", "undated", "done", "cancelled"}]
    /\ unchecked \subseteq Ids /\ cancelling \in Ids \cup {NoId}
    /\ risk \in RiskRecord
    /\ acked \subseteq Ids /\ loose \subseteq Ids

\* Retrying an intent, or submitting another with its idempotency key, from any
\* number of tasks and after any exception, never executes it twice in the life
\* of a process, not even after a create_order whose reply was lost.
OneExecutionPerKey ==
    \A o, p \in Ids :
        KeyOf(o) = KeyOf(p) /\ executed[o] > 0 /\ executed[p] > 0
            => o = p /\ executed[o] = 1

\* Once no submit is working on an order and none lost track of it, its row, its
\* exchange id, its fill and what really executed say the same.
SettledOrdersAgree ==
    \A o \in Ids \ loose :
        (\A t \in Tasks : cur[t] = o => pc[t] \notin Holding) =>
            /\ status[o] \notin {"pending", "submitted"}
            /\ executed[o] = IF status[o] = "filled" THEN 1 ELSE 0
            /\ fills[o] = executed[o]
            /\ o \in exId <=> status[o] = "filled"

\* reconcile_orphans decides outside the lock, from a list of open orders and a
\* read of the table that are old by the time it cancels: it still never cancels
\* an exchange order that a row records.
OnlyOrphansCancelled ==
    [][\A o \in Ids : book[o] # "cancelled" /\ book'[o] = "cancelled" => o \notin exId]_vars

\* Every call of submit or cancel ends and gives the lock back, whatever fails.
CallsReturn == \A t \in Tasks : pc[t] # "idle" ~> pc[t] = "idle"

\* An exchange order with a timestamp whose submit lost track of it, or that was
\* left by a process before this one, of which no row is left either, is cancelled
\* in the end, unless the process restarts for ever.  One without a timestamp
\* ("undated") has no age and is never cancelled.
LostOrdersCancelled ==
    <>[][~Restart]_vars =>
        \A o \in Ids :
            (o \in loose \/ status[o] = "none") /\ book[o] \in {"open", "aged"}
                ~> book[o] = "cancelled"

\* The engine implements the order book.
BookStatus ==
    [o \in Ids |-> IF status[o] \in {"pending", "submitted"} THEN "open" ELSE status[o]]

BookExecuted == {o \in Ids : executed[o] > 0}

Book == INSTANCE OrderBook WITH status <- BookStatus, executed <- BookExecuted

ImplementsOrderBook == Book!Spec

\* The durable dedup table: an order that a submit has returned to its caller is
\* still known after a restart.
AckedIsDurable == \A o \in acked : disk.status[o] # "none"
=============================================================================
