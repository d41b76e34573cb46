---------------------------- MODULE PaperAccount ----------------------------
(***************************************************************************)
(* The paper account of ExecutionEngine (_paper_balances, _paper_positions *)
(* and _paper_equity) and _apply_paper_fill, the one place that changes    *)
(* it.  Quantities and prices are integers: the code's Decimal arithmetic  *)
(* on them is exact.  A position whose side is "flat" stands for a symbol  *)
(* that is not a key of _paper_positions.                                  *)
(***************************************************************************)
EXTENDS Integers, FiniteSetsExt

CONSTANTS
    Symbols,          \* trading pairs
    BaseAsset,        \* BaseAsset[s]: symbol.split("/")[0], which pairs may share
    InitialEquity     \* settings.paper_initial_equity

ASSUME PaperAssumption == InitialEquity \in Nat /\ IsFiniteSet(Symbols)

\* The keys of _paper_balances; a missing one stands for 0.
Assets == {"USDT"} \cup {BaseAsset[s] : s \in Symbols}

Position == [side : {"long", "short", "flat"}, quantity : Nat, entry : Nat]

Account == [balances : [Assets -> Int], pos : [Symbols -> Position]]

NoPosition == [side |-> "flat", quantity |-> 0, entry |-> 0]

FreshAccount ==
    [balances |-> [a \in Assets |-> IF a = "USDT" THEN InitialEquity ELSE 0],
     pos      |-> [s \in Symbols |-> NoPosition]]

\* The cash, whatever the currency a pair is quoted in.
Usdt(acct) == acct.balances["USDT"]

\* Mutant: a sale books like a purchase.
SignedAlways(order) == order.quantity

\* The base-asset change of an order: OrderSide.BUY adds, SELL takes away.
Signed(order) == IF order.side = "buy" THEN order.quantity ELSE -order.quantity

\* First the cash, then the base asset, which may be the same balance.  The
\* position is overwritten, never added to.
ApplyPaperFill(acct, order, price) ==
    LET paid == [acct.balances EXCEPT !["USDT"] = @ - Signed(order) * price]
    IN  [balances |-> [paid EXCEPT ![BaseAsset[order.symbol]] = @ + Signed(order)],
         pos |-> [acct.pos EXCEPT ![order.symbol] =
                    IF order.signal = "flat" THEN NoPosition
                    ELSE [side |-> order.signal, quantity |-> order.quantity,
                          entry |-> price]]]

\* The positions at their entry prices.
Notional(pos) == SumFunction([s \in Symbols |-> pos[s].quantity * pos[s].entry])

\* _paper_equity: recomputed from the rest of the account at the end of every
\* fill, and equal to the initial balance before the first.
PaperEquity(acct) == Usdt(acct) + Notional(acct.pos)
=============================================================================
