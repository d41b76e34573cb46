------------------------------ MODULE Portfolio ------------------------------
(***************************************************************************)
(* trade_post/orchestrator/runtime.py: the loops that go through the list  *)
(* of subscribed symbols (AI cycles and the market stream) while operators *)
(* change that list, and the portfolios that are put together, await by    *)
(* await, while other cycles trade on the paper account.                   *)
(*                                                                         *)
(* for sym in subscribed_symbols is Python's iterator over a list that is  *)
(* changed in place: it keeps an index and ends when the index has reached *)
(* the length of the list.  Mark prices and the values made of them are    *)
(* left out, as is drawdown_pct; each mark is still one await.             *)
(***************************************************************************)
EXTENDS PaperAccount, SequencesExt

CONSTANTS
    Cycles,            \* tasks that run AI cycles: the scan loop, analyses
    Stream, Snapshots, \* the market stream loop, the portfolio snapshot loop
    Quantities, Prices,
    MaxFills           \* bound on the fills of a process

ASSUME TasksAssumption ==
    /\ Stream \notin Cycles /\ Snapshots \notin Cycles /\ Stream # Snapshots
    /\ Quantities \cup Prices \subseteq Nat \ {0}

Scanners == Cycles \cup {Stream}       \* tasks that go through the list
Observers == Cycles \cup {Snapshots}   \* tasks that put a portfolio together

VARIABLES
    paper,       \* is_paper and not has_exchange_credentials
    subs,        \* settings.subscribed_symbols
    acct,        \* paper account
    fills,       \* history: the fills, in order
    pc,          \* per task: the await it is at
    index,       \* per scanner: the position of its iterator
    view,        \* per observer: the portfolio it puts together
    got,         \* history: per scanner, symbols of this pass so far
    stayed,      \* history: per scanner, subscribed all through this pass
    removals,    \* history: per scanner, removals behind its iterator (saturates)
    cash         \* history: per observer, USDT balances since it began to look

account == <<acct, fills>>
scan == <<index, got, stayed, removals>>
look == <<view, cash>>
vars == <<paper, subs, account, pc, scan, look>>

NoView == [equity |-> 0, usdt |-> 0, pos |-> [s \in Symbols |-> NoPosition], left |-> 0]

Init ==
    /\ paper \in BOOLEAN
    /\ subs \in {s \in BoundedSeq(Symbols, Cardinality(Symbols)) : IsInjective(s)}
    /\ acct = FreshAccount
    /\ fills = <<>>
    /\ pc = [t \in Scanners \cup Observers |-> "idle"]
    /\ index = [k \in Scanners |-> 0]
    /\ view = [o \in Observers |-> NoView]
    /\ got = [k \in Scanners |-> {}]
    /\ stayed = [k \in Scanners |-> {}]
    /\ removals = [k \in Scanners |-> 0]
    /\ cash = [o \in Observers |-> {}]

\* What the iterator of scanner k has passed.
Behind(k) == {subs[i] : i \in DOMAIN subs \cap 1 .. index[k]}

Goto(t, label) == pc' = [pc EXCEPT ![t] = label]

-----------------------------------------------------------------------------
(* The list of symbols.                                                    *)

\* A symbol that is not a name, or is there already, changes nothing.
Subscribe(s) ==
    /\ ~Contains(subs, s)
    /\ subs' = Append(subs, s)
    /\ UNCHANGED <<paper, account, pc, scan, look>>

\* The iterators of loops that are under way keep their index.
Unsubscribe(s) ==
    /\ Contains(subs, s)
    /\ subs' = RemoveFirst(subs, s)
    /\ stayed' = [k \in Scanners |-> stayed[k] \ {s}]
    /\ removals' = [k \in Scanners |->
                      IF s \in Behind(k) /\ removals[k] + 1 < Cardinality(Symbols)
                      THEN removals[k] + 1 ELSE removals[k]]
    /\ UNCHANGED <<paper, account, pc, index, got, look>>

-----------------------------------------------------------------------------
(* A pass through the list.                                                *)

\* The flags of the risk state and autonomous_enabled are Orchestrator's.
Begin(k) ==
    /\ pc[k] = "idle"
    /\ Goto(k, "scan")
    /\ stayed' = [stayed EXCEPT ![k] = ToSet(subs)]
    /\ UNCHANGED <<paper, subs, account, index, got, removals, look>>

\* The pass is over, or an exception ends it.
EndPass(k) ==
    /\ Goto(k, "idle")
    /\ index' = [index EXCEPT ![k] = 0]
    /\ got' = [got EXCEPT ![k] = {}]
    /\ stayed' = [stayed EXCEPT ![k] = {}]
    /\ removals' = [removals EXCEPT ![k] = 0]

\* An observer is done with its portfolio.
Forget(o) ==
    /\ view' = [view EXCEPT ![o] = NoView]
    /\ cash' = [cash EXCEPT ![o] = {}]

\* Yields s; get_snapshot of s follows.
Yield(k, s) ==
    /\ Goto(k, "fetch")
    /\ index' = [index EXCEPT ![k] = @ + 1]
    /\ got' = [got EXCEPT ![k] = @ \cup {s}]
    /\ UNCHANGED <<stayed, removals>>

NextSymbol(k) ==
    /\ pc[k] = "scan"
    /\ IF index[k] < Len(subs) THEN Yield(k, subs[index[k] + 1]) ELSE EndPass(k)
    /\ UNCHANGED <<paper, subs, account, look>>

\* Mutant: the position moves on once more for the symbol that failed.
FetchFailsSkipping(k) ==
    /\ pc[k] = "fetch"
    /\ Goto(k, "scan")
    /\ index' = [index EXCEPT ![k] = Min({@ + 1, Len(subs)})]
    /\ UNCHANGED <<paper, subs, account, got, stayed, removals, look>>

\* Mutant: a failure ends the pass.
FetchFailsEnding(k) ==
    /\ pc[k] = "fetch"
    /\ EndPass(k)
    /\ UNCHANGED <<paper, subs, account, look>>

\* A snapshot that cannot be fetched: the loop goes on with the next symbol.
FetchFails(k) ==
    /\ pc[k] = "fetch"
    /\ Goto(k, "scan")
    /\ UNCHANGED <<paper, subs, account, scan, look>>

\* The market stream writes the snapshot.
StreamFetched ==
    /\ pc[Stream] = "fetch"
    /\ Goto(Stream, "record")
    /\ UNCHANGED <<paper, subs, account, scan, look>>

\* insert_market_snapshot replaces the row of the same second.
StreamRecorded ==
    /\ pc[Stream] = "record"
    /\ Goto(Stream, "scan")
    /\ UNCHANGED <<paper, subs, account, scan, look>>

-----------------------------------------------------------------------------
(* Portfolios.                                                             *)

Held == {s \in Symbols : acct.pos[s] # NoPosition}

\* paper_equity, paper_balances and paper_positions as they are now; the last is
\* a copy.  In live trading there is no equity and there are no positions.
Capture(o) ==
    /\ view' = [view EXCEPT ![o] =
                  IF paper
                  THEN [equity |-> PaperEquity(acct), usdt |-> Usdt(acct),
                        pos |-> acct.pos, left |-> Cardinality(Held)]
                  ELSE NoView]
    /\ cash' = [cash EXCEPT ![o] = {Usdt(acct)}]

\* _current_portfolio begins, at once after the snapshot has been fetched.
LookAtPortfolio(k) ==
    /\ pc[k] = "fetch"
    /\ Capture(k)
    /\ Goto(k, "marks")
    /\ UNCHANGED <<paper, subs, account, scan>>

\* _take_portfolio_snapshot begins.
TakeSnapshot ==
    /\ pc[Snapshots] = "idle"
    /\ Capture(Snapshots)
    /\ Goto(Snapshots, "marks")
    /\ UNCHANGED <<paper, subs, account, scan>>

\* The price of one position, or its entry price if there is none to be had.
Mark(o) ==
    /\ pc[o] = "marks" /\ view[o].left > 0
    /\ view' = [view EXCEPT ![o].left = @ - 1]
    /\ UNCHANGED <<paper, subs, account, pc, scan, cash>>

\* Mutant: the equity is read with the balances, after the last await.
MarkedWithEquity(k) ==
    /\ pc[k] = "marks" /\ view[k].left = 0
    /\ view' = [view EXCEPT ![k].usdt = IF paper THEN Usdt(acct) ELSE 0,
                            ![k].equity = IF paper THEN PaperEquity(acct) ELSE 0]
    /\ Goto(k, "judge")
    /\ UNCHANGED <<paper, subs, account, scan, cash>>

\* _current_portfolio reads the balances last, when its awaits are over.
Marked(k) ==
    /\ pc[k] = "marks" /\ view[k].left = 0
    /\ view' = [view EXCEPT ![k].usdt = IF paper THEN Usdt(acct) ELSE 0]
    /\ Goto(k, "judge")
    /\ UNCHANGED <<paper, subs, account, scan, cash>>

\* Mutant: the balances are read last, as _current_portfolio does it.
SnapshotMarkedLate ==
    /\ pc[Snapshots] = "marks" /\ view[Snapshots].left = 0
    /\ view' = [view EXCEPT ![Snapshots].usdt = IF paper THEN Usdt(acct) ELSE 0]
    /\ Goto(Snapshots, "record")
    /\ UNCHANGED <<paper, subs, account, scan, cash>>

SnapshotMarked ==
    /\ pc[Snapshots] = "marks" /\ view[Snapshots].left = 0
    /\ Goto(Snapshots, "record")
    /\ UNCHANGED <<paper, subs, account, scan, look>>

\* insert_portfolio_snapshot writes the view, or the database refuses it and the
\* loop logs that; the next snapshot is taken a minute later.
EndSnapshot ==
    /\ pc[Snapshots] = "record"
    /\ Forget(Snapshots)
    /\ Goto(Snapshots, "idle")
    /\ UNCHANGED <<paper, subs, account, scan>>

-----------------------------------------------------------------------------
(* What a cycle does with its portfolio, and the specification.            *)

\* A long decision buys and a short one sells; decide may name any symbol.
Orders ==
    {[symbol |-> s, side |-> IF d = "long" THEN "buy" ELSE "sell", signal |-> d,
      quantity |-> q] : s \in Symbols, d \in {"long", "short"}, q \in Quantities}

\* Mutant: validate does not look at the equity.
TradableAlways(v) == TRUE

\* validate rejects an intent whose portfolio has no equity.
Tradable(v) == v.equity > 0

\* The decision is validated and submitted, and executes.
Trade(k) ==
    /\ pc[k] = "judge"
    /\ Tradable(view[k])
    /\ Len(fills) < MaxFills
    /\ \E order \in Orders, p \in Prices :
        LET after == ApplyPaperFill(acct, order, p)
        IN  /\ acct' = after
            /\ fills' = Append(fills, [order |-> order, price |-> p])
            /\ cash' = [o \in Observers |->
                          IF o = k \/ cash[o] = {} THEN {} ELSE cash[o] \cup {Usdt(after)}]
    /\ view' = [view EXCEPT ![k] = NoView]
    /\ Goto(k, "scan")
    /\ UNCHANGED <<paper, subs, scan>>

\* The decision is FLAT, or risk engine or execution engine reject it.
NoTrade(k) ==
    /\ pc[k] = "judge"
    /\ Forget(k)
    /\ Goto(k, "scan")
    /\ UNCHANGED <<paper, subs, account, scan>>

\* An exception the loop does not catch for a symbol: of decide or to_intent, or
\* of the database, which a cycle reads before its first symbol.
Abort(k) ==
    /\ \/ pc[k] \in {"judge", "record"}
       \/ k \in Cycles /\ pc[k] = "scan" /\ index[k] = 0
    /\ EndPass(k)
    /\ IF k \in Cycles THEN Forget(k) ELSE UNCHANGED look
    /\ UNCHANGED <<paper, subs, account>>

CycleStep(k) ==
    LookAtPortfolio(k) \/ Mark(k) \/ Marked(k) \/ Trade(k) \/ NoTrade(k)

ScanStep(k) ==
    \/ Begin(k) \/ NextSymbol(k) \/ FetchFails(k)
    \/ k \in Cycles /\ CycleStep(k)
    \/ k = Stream /\ (StreamFetched \/ StreamRecorded)

SnapshotStep ==
    TakeSnapshot \/ Mark(Snapshots) \/ SnapshotMarked \/ EndSnapshot

Next ==
    \/ \E s \in Symbols : Subscribe(s) \/ Unsubscribe(s)
    \/ \E k \in Scanners : ScanStep(k) \/ Abort(k)
    \/ SnapshotStep

\* The market stream is a while True loop; each of its awaits ends, by a timeout
\* of the client or of the database.
Fairness == WF_vars(ScanStep(Stream))

Spec == Init /\ [][Next]_vars /\ Fairness

-----------------------------------------------------------------------------
(* Properties.                                                             *)

\* Every variable has the type its declaration says.
TypeOK ==
    /\ paper \in BOOLEAN
    /\ subs \in Seq(Symbols) /\ IsInjective(subs)
    /\ acct \in Account
    /\ fills \in Seq([order : Orders, price : Prices])
    /\ pc \in [Scanners \cup Observers ->
                 {"idle", "scan", "fetch", "record", "marks", "judge"}]
    /\ index \in [Scanners -> Nat]
    /\ view \in [Observers ->
                   [equity : Int, usdt : Int, pos : [Symbols -> Position], left : Nat]]
    /\ got \in [Scanners -> SUBSET Symbols]
    /\ stayed \in [Scanners -> SUBSET Symbols]
    /\ removals \in [Scanners -> Nat]
    /\ cash \in [Observers -> SUBSET Int]

\* Per fill: what the position in coins changes by, and what is paid for it.
Coins == [i \in DOMAIN fills |->
            IF fills[i].order.side = "buy" THEN fills[i].order.quantity
            ELSE -fills[i].order.quantity]
Paid == [i \in DOMAIN fills |-> Coins[i] * fills[i].price]

FillsOf(a) == {i \in DOMAIN fills : BaseAsset[fills[i].order.symbol] = a}

\* The fills of any number of cycles, in whatever order they execute, replayed
\* from the initial equity give every balance of the paper account, also that of
\* an asset which several pairs share, or which is the cash itself.
FillsRebuildAccount ==
    \A a \in Assets :
        acct.balances[a] = (IF a = "USDT" THEN InitialEquity - SumFunction(Paid) ELSE 0)
                             + SumFunctionOnSet(Coins, FillsOf(a))

\* What goes into portfolio_snapshots is the account of one moment, although every
\* position is marked in an await of its own and cycles trade in between: equity
\* is the cash plus the positions at their entry prices.
RecordedRowCoherent ==
    pc[Snapshots] = "record" =>
        view[Snapshots].equity = view[Snapshots].usdt + Notional(view[Snapshots].pos)

\* The portfolio a cycle decides on need not be the account of one moment, but
\* neither its equity with its positions nor its cash is older than the cycle's
\* look at the account, or was never so.
DecidedOnRealPortfolio ==
    \A k \in Cycles : pc[k] = "judge" /\ paper =>
        /\ view[k].equity - Notional(view[k].pos) \in cash[k]
        /\ view[k].usdt \in cash[k]

\* In live trading total_equity is zero and the risk engine rejects every intent
\* for it: cycles scan and decide, and no order is ever submitted.
LiveNeverTrades == ~paper => fills = <<>>

\* What a pass looks at while the list changes.  A symbol that stays subscribed all
\* through may be skipped, but only if others were unsubscribed behind the iterator,
\* and each of these costs one symbol at most; and none of those to come has been
\* looked at before.
PassVisits ==
    \A k \in Scanners :
        /\ Cardinality((Behind(k) \cap stayed[k]) \ got[k]) <= removals[k]
        /\ ((ToSet(subs) \ Behind(k)) \cap stayed[k]) \cap got[k] = {}

\* Fetches of other symbols may fail as often as they like: once nobody changes
\* the list and the database works, the market stream comes to every symbol of
\* the list again and again.
StreamComesBack ==
    <>[][UNCHANGED subs /\ ~Abort(Stream)]_vars =>
        \A s \in Symbols : <>[](Contains(subs, s)) => []<>(s \in got[Stream])
=============================================================================
