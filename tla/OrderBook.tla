------------------------------ MODULE OrderBook ------------------------------
(***************************************************************************)
(* What ExecutionEngine promises its callers, without locks, tasks, tables *)
(* or awaits: of all the orders that carry one idempotency key at most one *)
(* is ever opened in a process life, an order executes at most once and    *)
(* only while it is open, and a closed order stays as it was closed.       *)
(* Only an executed order closes as filled.  The converse is not promised: *)
(* an order whose execution the engine never heard of closes otherwise.    *)
(***************************************************************************)
CONSTANTS Ids, KeyOf(_)

VARIABLES
    status,      \* status[o]: "none" before the order exists
    executed     \* orders the exchange, or the paper account, has executed

vars == <<status, executed>>

Open(o) ==
    /\ \A p \in Ids : KeyOf(p) = KeyOf(o) => status[p] = "none"
    /\ status' = [status EXCEPT ![o] = "open"]
    /\ UNCHANGED executed

Execute(o) ==
    /\ status[o] = "open"
    /\ o \notin executed
    /\ executed' = executed \cup {o}
    /\ UNCHANGED status

Close(o, how) ==
    /\ status[o] = "open"
    /\ how = "filled" => o \in executed
    /\ status' = [status EXCEPT ![o] = how]
    /\ UNCHANGED executed

\* A new process remembers none of its predecessor's orders.
Restart ==
    /\ status' = [o \in Ids |-> "none"]
    /\ executed' = {}

Init ==
    /\ status = [o \in Ids |-> "none"]
    /\ executed = {}

Next ==
    \/ \E o \in Ids :
        \/ Open(o)
        \/ Execute(o)
        \/ \E how \in {"filled", "rejected", "cancelled"} : Close(o, how)
    \/ Restart

Spec == Init /\ [][Next]_vars
=============================================================================
