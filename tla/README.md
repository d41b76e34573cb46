# Verification of Trade Post

TLA+ models of the trading core of this repository (`src/trade_post`), the TLC
runs that check them on small instances, and theorems about them checked by
TLAPS. All paths below are relative to `src/trade_post` unless they say otherwise.

## 1. The system

Trade Post is one asyncio process. A FastAPI server, five background loops and
any number of requests share the objects the orchestrator builds at startup.
There are no threads: a task runs alone from one `await` to the next, and every
`await` is a place where any other task may run, where an exception may come
up, and where the task may be cancelled.

| Component | State it keeps | Operations | Module |
|---|---|---|---|
| Execution engine (`execution/engine.py`) | lock; orders and fills tables through a session of its own | `submit`, `cancel`, `reconcile_orphans` | `ExecutionEngine`, abstractly `OrderBook` |
| Paper account (same file) | balances, positions, equity | `_apply_paper_fill` | `PaperAccount` |
| Risk engine (`risk/engine.py`) | `RiskState` in memory and in one row | `validate`, `kill`, `record_failure`, `record_success`, `load` | `RiskState`, `RiskEngine`; caps and sizing in `Decision` |
| Orchestrator (`orchestrator/runtime.py`) | `autonomous_enabled`, list of symbols, tasks | AI cycle (loop and on demand), market stream, portfolio snapshots, start, stop, startup, bootstrap, shutdown | `Orchestrator`; lists and portfolios in `Portfolio`; startup in `Database` |
| Persistence (`persistence/`) | SQLite tables; one write lock | sessions that commit, roll back or stay open | `Database`, and in the modules that write |
| AI brain, Ollama client (`ai/`) | breaker, semaphore | `decide`, `chat_json`, `to_intent` | `AIBrain`; what a decision says in `Decision` |
| Market data (`market/service.py`) | snapshot cache, exchange client | `get_snapshot` | `MarketCache` |
| Indicators (`market/indicators.py`) | none | `compute_all` | `Indicators` |
| Signals (`strategy/signals.py`) | none | `from_snapshot` | `Decision` |
| Reconciliation (`reconciliation/service.py`) | reconciliations table | `reconcile` | `Database` |
| Authentication, API server (`security/`, `api/`) | users, sessions, login attempts | login, logout, roles, user management | `Sessions`; kill, start, stop, analyze in `Orchestrator`; changes with their audit events in `Database` |
| Migrations (`persistence/migrations.py`) | schema, `schema_migrations` | `run_migrations` | `Database` |
| Metrics, logging, settings, dashboard | | | not modelled |

How they interact: an AI cycle reads a snapshot, asks the brain, writes the
decision in a session of its own, lets the risk engine validate the intent, and
submits it. `submit` holds the engine's lock from the look-up of the
idempotency key to the end, fetches the price again, executes on the paper
account or on the exchange, records the fill and ends with `record_success` or
`record_failure`. Operators kill, start, stop and request analyses at any time.

Hard behaviours, all in `PROJECT.json` under `hazards`: calls with one
idempotency key that overlap; replies of the exchange that get lost; exceptions
between execution and bookkeeping; a background reconciler outside the lock; a
kill between the checks of `validate` and the order; commits of the same row in
any order; a session that is never committed and so blocks every other writer;
restarts that forget the orders and trust the risk row; a list that changes under
the loops that go through it; portfolios put together over several awaits; starts
that are cut short between two statements; a change and its audit event in two
transactions.

## 2. Plan

1. `RiskState`, `PaperAccount`, `OrderBook`, `ExecutionEngine` (done), with the
   order book as the abstract specification.
2. `RiskEngine`, `Orchestrator`, `KillDurability` (done); the orchestrator
   implements the risk engine.
3. `AIBrain` (done): semaphore, retries and breaker of the Ollama client, and
   the fallback of `decide`.
4. `MarketCache` (done): the snapshot cache with overlapping fetches and a clock.
5. `Sessions` (done): login, expiry, revocation and deletion against requests and
   control sockets that are under way.
6. `Decision` (done): the signal, merging the answer with the baseline, the schema,
   `to_intent`, and the caps and sizing of `validate`.
7. `Portfolio` (done): symbols that come and go under the loops that go through
   the list, and portfolios put together while cycles trade.
8. `Database` (done): migrations, bootstrap, audited changes, the open transaction
   and reconciliation over one SQLite file, with stops in between.
9. `Indicators` (done): what `compute_all` makes of a series of candles.
10. Proofs (done): every safety invariant and every action property of the runs, for
   every value of the constants. What is left to TLC is liveness (section 5).
11. Left: the window of 500 orders of `reconcile_orphans` (section 7).

What makes each part correct: one execution per key and agreement of order, fill
and account (execution engine); no order beyond the loss limit, kills that last
(risk engine); nothing new starts after a kill, a trip or a stop (orchestrator);
calls that end, permits that come back, an open breaker that keeps load off the
provider (AI brain); prices of bounded age (market data); nobody acts with a
session or a role that has ended (sessions); portfolios of one moment, or whose
parts are no older than the look at the account (portfolio); whole versions, a valid
first password and audited answers on disk (database); a result that depends on what
was traded (reconciliation, which does not have it); indicators that are the sums
they stand for (indicators); no order from a decision that does not conform, nor beyond
the caps (decision).

## 3. Modules

**`RiskState`** holds the risk record and what each call does to it, as
operators. `failures_in_window` is saturated at the threshold, which the code
only compares it with; times are left out, except that a success may or may not
find the cooloff over.

**`ExecutionEngine`** has one action per stretch of code between two awaits of
`submit` (`Acquire`, `Lookup`, `Insert`, `Mark`, `Fetch`, `Place`, `Reject`,
`Fail`, `InsertFill`, `MarkFilled`, `Succeed`, `Saved`), and the same for
`cancel` and `reconcile_orphans`. `Abort` is any exception or cancellation at any
await; `Restart` loses memory and brings the tables back to `disk`. The tables
are those the engine's own session sees. `disk` never changes, because nothing
commits that session after startup; the risk row in it is the one of startup, because
that session holds the write lock from the first order on, and `Restart` loads it.
In live trading `Place` has four outcomes:
refused, executed, executed with the reply lost, executed while the task is
cancelled. The exchange's `book` is external; it knows open orders, which grow
old (`Age`) if they carry a timestamp and are passed over by `OrphanCheck` for ever if
they do not (undated), done and cancelled ones. `loose` are the orders whose submit ended
without a known outcome. An exchange id is a fact (`exId`), not a value; an
exchange that answers with no id at all is left out.

**`OrderBook`** is what a caller of the engine relies on: one order per key, at
most one execution, only while open, and closed orders stay closed.
`ExecutionEngine!Book` maps PENDING and SUBMITTED to open.

**`PaperAccount`** is `_apply_paper_fill` as a function of account, order and
price, on integers, which `ExecutionEngine` and `Portfolio` use. Balances are kept by
asset, as the code's dictionary is: `BaseAsset` gives each pair its base, which pairs may
share. It keeps the code's behaviour that a position is overwritten and that the cash is
USDT whatever a pair is quoted in.

**`RiskEngine`** splits every call at its `_persist`: `Change` changes the memory
and captures the state to write, `Land` commits some caller's write, `WriteFails`
loses it, and the caller goes on afterwards. `validate` is `Validate`,
`BaselineSaved` and `DrawdownSaved`; the size, order-count and price checks are
one nondeterministic verdict (`Assess`), since what the properties need of them
is only that they may go either way. `late` and `sealed` are history.

**`Orchestrator`** EXTENDS `RiskEngine`: a cycle is a caller of the risk engine
and so is an operator. Of the execution engine it keeps the lock, the database
lock its session takes at the first insert and never gives back, the outcome, and
the call of the risk engine at the end. **`KillDurability`** adds the history of
acknowledged kills.

**`AIBrain`** is `decide` and the `chat_json` below it. `UseBaseline` and `Ask` are
the entry, which looks at the breaker once; `Enter` is the semaphore, which lets
tasks that wait in first; `Answer`, `Retry`, `Resend` and `GiveUp` are the loop of
attempts, `Crash` and `CancelWaiting` every other way out. Which failures are
older than a minute when the next is recorded, and when the cooldown is over, is
the clock's choice. An outcome says where the decision came from and not what it
says. `lost` and `sent` are history.

**`MarketCache`** is one entry of the snapshot cache. A fetch is `Fetch`,
`TickerArrives` and `OhlcvArrives`, `Hit` is the cache, `CheckMarket` the staleness
check of the risk engine. `Tick` moves a clock, but not past the time a request
may take. The exchange makes the ticker at some time within the first request;
wall clock and monotonic clock are one.

**`Sessions`** has tasks that serve a request, a login or a control socket. A login
is `LoginCount`, `LoginRead` and one of `LoginAccept` and `LoginReject`, which are
the reads one by one and then the transaction. A request is `Request`,
`ReadSession` and `ReadUser` (the two reads of `resolve_session`), then `Command`,
`CreateUser`, `UpdateUser` or `DeleteUser` and `Reply`; an open socket goes through
the same reads with each `Message`, but goes by the role it read when it was
opened. `End` is a logout, or the end of the session's time. All logins come from
one address, and `WindowMoves` is the lockout window. `late` and `had` are history:
was the session over when the request came in, and which roles has its user had
since.

**`Decision`** takes one symbol of a cycle at a time from the market to an approved
order: `Observe` (the signal of the snapshot), `Decide` (the baseline, what the
answer of the AI replaces of it, and the schema), `ToIntent`, `Validate` (caps and
sizing, the checks `RiskEngine` leaves to one verdict) and `Leave`, which is every
other way out: flat, rejected, submitted, an exception. The indicators are inputs.
Numbers are integers in a unit that fits, written at the head of the module. Of an
answer, the confidence, prices and rationale conform or not; "buy" stands for a word
that only reads as an action in upper case.

**`Portfolio`** has the scanners, AI cycles and the market stream, that go through
`subs` with a position of their own (`Begin`, `NextSymbol`, `FetchFails`), as Python's
iterator does over a list that `Subscribe` and `Unsubscribe` change in place. Two
kinds of tasks put a portfolio together: a cycle (`LookAtPortfolio`, `Mark`, `Marked`)
and the snapshot loop (`TakeSnapshot`, `Mark`, `SnapshotMarked`, `EndSnapshot`). They
differ in when they read the balances. Each mark is one await; its price is left out,
since nothing but the display reads it. `Trade` is validation and execution in one
step: what lies between them is `RiskEngine`'s and `ExecutionEngine`'s, and of the
checks it keeps the one on equity, which decides in live trading. `got`, `stayed`,
`removals` and `cash` are history.

**`Database`** is one SQLite file. The driver begins a transaction with the first
INSERT, UPDATE or DELETE of a connection, so that the CREATE statements of
`run_migrations` are committed one by one and everything from the first record on
together. `disk` is what is committed, `work` what the open transaction sees, `writer`
who holds the write lock. `Start` to `CommitAdmin` are `run_migrations` and
`_bootstrap_admin` statement by statement; `Change` and `Audit` are the two
transactions of a request that changes accounts, of which the first may change nothing
(`Empty`, an update with neither role nor status); `InsertOrder` and `InsertFill` the
execution engine's session, which nothing commits; `Reconcile` and `EndReconcile`
the ledger job. `Stop` may come between any two of them. A version is its number of
statements; of the fills it keeps their cash, of the administrator's account whose
password it has. A hash is its password.

**`Indicators`** is `market/indicators.py` as operators on sequences, and `candles`,
the exchange's latest candles, which `Feed` moves on. The code computes in floating
point. The operators divide integers, and the properties scale the prices by the
powers that are divided by, so that every quotient they look at is exact and what
holds, holds of the formula. RSI and VWAP are pairs of numerator and denominator.
`Blend` is one step of any average, old to new; `Smoothed` is the loop around it, with
the weights period - 1 and 2 in `EmaFold`, period - 1 and 1 in `Wilder`. `Weighted` says
in closed form what such a loop stands for. `SeriesSpec` is the series alone.

`MCExecutionEngine`, `MCRiskEngine`, `MCOrchestrator`, `MCSessions`, `MCDecision`,
`MCPortfolio`, `MCDatabase` and `MCMarket` give constants their values; `*Proofs` hold
the theorems.

## 4. Runs

| Run | Instance | Shows |
|---|---|---|
| `engine` | two tasks, two intents with one key, paper and live | `OneExecutionPerKey`, `SettledOrdersAgree`, `OnlyOrphansCancelled`, `CallsReturn`, `LostOrdersCancelled`, `ImplementsOrderBook` |
| `paper_account` | list of three symbols under one cycle and the stream; account under two cycles and the snapshot loop, two prices, two fills, pairs with a common base | `FillsRebuildAccount`, `RecordedRowCoherent`, `DecidedOnRealPortfolio`, `LiveNeverTrades`, `PassVisits`, `StreamComesBack` |
| `risk` | three callers, equities 0, 9, 10, limit 10 % | `OneLateApproval`, `LossLimitEnforced`, `SealedKillSurvives` |
| `orchestrator` | two cycles of up to two symbols, one operator | `OnlyDisarms`, `BreakerStaysOpen`, `QuietWhenDisabled` |
| `ai` | three tasks, semaphore of 2, one retry, threshold 2 | `OpensOnLostCalls`, `OpenBreakerDrains`, `DecideEnds` |
| `market` | two tasks, limit 2, latency 1, clock to 7; series of up to five candles of prices 0, 1, 3 | `PassedAgeBounded`, `CacheSetbackBounded`; `MomentumMirrored`, `AveragesAreWeighted`, `RangesCoverMoves`, `WarmsUpOnce` |
| `sessions` | two tasks, two accounts, two sessions, two roles, limit 1 | `OnlyLiveSessionsAct`, `OnlyEntitledAct`, `AttemptsBounded` |
| `decision` | two symbols, every kind of answer, with and without price, equity and ATR | `OnlyConformingTrades`, `FallbackFollowsSignal`, `SignalFillsGaps`, `MirroredSignals` |
| `database` | two versions of one and two statements, three requests, two passwords, fills of cash -2, 0, 2 | `SchemaWhole`, `LastShownIsValid`, `AnsweredIsAudited`, `ReconciliationBlind`, `LockedOutOnceTrading`, `EveryStartEnds` |
| `durable_dedup` | one intent | violated: a submitted order is not on disk |
| `kill_lasts` | one cycle, one operator, no database fault but the lock | violated: an older write undoes an acknowledged kill at the next start |
| `orders_bounded` | as `decision` | violated: an answer names another symbol, and the order is beyond the caps at that symbol's price |

The types of all modules with proofs are proved (section 5) and not checked again by
the runs, and so are `PermitsBalance`, `ServedAgeBounded` and `OwnAccountKept`.

Why the bounds are enough. Two tasks and two intents with one key are the
smallest instance with a race for a key, and a task in a submit never interacts
with more than the one that holds the lock; the theorems cover any number. Three
callers are needed for a write of the baseline, a kill and a third write that
may land in between; equity 9 breaches the limit of 10 % against a baseline of
10 and 0 is "no equity". A failure threshold of 1 or 2 opens the breaker within
a run. A cycle of two symbols is the smallest that goes on after a symbol.

Three tasks and two permits are the smallest instance in which a task waits while
two others succeed and fail; one retry tells calls from requests. Two tasks make
fetches overlap in every order; seven steps of the clock are enough for a fetch,
an entry to reach the limit, and a second fetch that began before.

Two tasks of `Sessions` are one that acts and one that changes what the first
goes by (a logout needs no task); with the roles viewer and administrator every
check of a role goes either way.

Two symbols of `Decision` let an answer name another than the cycle looks at, with
another price or none. The RSIs are missing, 0, oversold and overbought; trends,
momenta and volatilities give scores on both sides of the threshold, which is
once at its upper limit and once below it, and are chosen so that every quotient is an integer. A
quantity of -1 is what the schema lets through and `to_intent` does not; 4 is beyond the
hard cap at one price and within it at the other, and the baseline's 10 is beyond the risk
of a trade alone. The percentage cap is the wider one here, as it is for any portfolio that
is large enough.

`MCPortfolio` and `MCMarket` check two instances in one run, which share nothing a step
of both could disturb. In `MCPortfolio` the list changes in live trading, where the
account is left alone, and stays in paper trading; a step of the list never reads the
account and a trade never reads the list. Three symbols are the smallest list in which
a scanner skips one after a removal behind it, and has two left. Two cycles that trade
once or twice while the other and the snapshot loop are between their reads are the
smallest case of a portfolio that is torn. In `MCMarket` candles only come in while
nothing has been fetched. Five candles are two more than the longest period, so that
every average is seeded, stepped and slides; the periods are 1 to 3 instead of 9 to 26.

In `Database` a version of two statements can be half applied, two versions can be
applied in two starts, and two passwords tell the last from the one before. Of the three
requests two change accounts and one is an update that changes nothing. Every
run begins with a database of some release or with none.

Every history variable saturates or is bounded by the model itself: an order
executes at most once, `late` is at most 1, `lost` saturates at the threshold, and
`sent` is at most one call's requests. Failed logins
are bounded by the limit they are checked against. `MaxTime` bounds the clock of `MarketCache`.

Fairness. Every await of a call ends: HTTP calls by the timeouts of the CCXT and
httpx clients, database calls by the commit or by the busy timeout of 30 s; hence
weak fairness on the step of each task. `asyncio.Lock` wakes waiters in order:
strong fairness on `Acquire`, and on `Enter` for the
semaphore of the Ollama client. The reconciler is a `while True` loop that
survives every exception, and an open order with a timestamp grows old (`Age`);
`LostOrdersCancelled` also assumes that the exchange
does not refuse a cancellation for ever, nor the table a read, and that the
process stops restarting. The market stream is a `while True` loop, too, each of whose
awaits ends: weak fairness on its steps; `StreamComesBack` assumes that the list is left
alone in the end and that the database works, not that any fetch succeeds.
`startup_core` awaits one statement after the other: weak fairness on them, and
`EveryStartEnds` assumes that starts are not cut short for ever. No fairness on calls,
kills, stops, restarts or faults.

## 5. Proofs

`ExecutionEngineProofs` proves types, `OneExecutionPerKey`, `SettledOrdersAgree`,
`OnlyOrphansCancelled` and the refinement of `OrderBook` for any tasks, intents and
prices. The invariant relates the lock to the program counters (only its holder is
inside), the position of the task inside to its order's row, fills and executions,
and rows to keys (a row is only inserted when no row has its key).

The first part of `OrchestratorProofs` is about `RiskEngine`: lemmas on the risk record,
the types and three safety properties for any set of callers, any equities and any
limit. The inductive invariant adds to what is checked: at most one validation of
a process can be waiting for the write of the baseline (it can only start that
write while there is none), a late approval means that validation is over, what is
being written was the state of this process, and after a sealing write nothing
older is under way. `OneLateApproval` alone is not inductive, since it does not say
who could still be approved.

The second part proves that every step of the orchestrator is a step of the
risk engine or leaves it alone (`UsesRiskEngine`), so that the theorems about
`RiskEngine` carry over, and on top of it `KillDisarms` and `BreakerLatches`.

`AIBrainProofs` proves the types and the three invariants of `AIBrain`. For
`OpenBreakerDrains` the invariant ties what a task has sent since the breaker
opened to the attempts that have failed in its call: a task that waits has sent
nothing, and one that is not in a call cannot start one.

The last part of `MarketProofs` proves the three bounds of `MarketCache` for any
latency and limit: the invariant bounds the age of each request under way, so that a
snapshot's time is never more than two requests younger than its price, and time adds
to both alike. The rest is about `Indicators` (below).

`SessionsProofs` proves the types and the three properties of `Sessions`. The
invariant follows a request from its cookie to its effect: a session that was over
stays over until one of the two reads notices, and the role that is read is among
those the user has had. For `AttemptsBounded` it counts the logins that may still
record a failure together with the recorded ones.

`DecisionProofs` proves the types, `OnlyConformingTrades`, `FallbackFollowsSignal`,
`SignalFillsGaps` and `MirroredSignals` for any indicators, prices, equities and
settings. The invariant says of each stage what the ones before it have established:
the signal is that of the market, the decision that of signal and answer, the intent
that of the decision. The code's real division is modelled by an integer one, which is
symmetric only where the quotient is exact; `ExactAssumption` says so of the momenta,
and the mirror follows from it term by term of the score.

`DatabaseProofs` proves the types, the four invariants and the two action properties of
`Database` for any number of versions, statements, requests and passwords. The
invariant follows the write lock: it says by phase who has a transaction open, in
which fields `work` may differ from `disk`, that at most the version a start is at is
incomplete, and only in the transaction, and that while an account has not been
committed there is none on disk. Without the lock none of it is inductive: a request
could commit on top of half a version.

`PortfolioProofs` proves the types and the five safety invariants of `Portfolio` for any
numbers of cycles, symbols and fills. `RecordedRowCoherent` and `DecidedOnRealPortfolio`
follow from one invariant on the looks under way: a view has the equity that goes with
its own positions, and its cash is one of those the account has had since the look
began (`RealSoFar`). For `FillsRebuildAccount` a fill adds one summand to the sum over
the fills of each asset it touches, USDT and a base that other symbols may have too. `PassVisits` is inductive together with
where a pass begins and that only listed symbols count as staying (`PassInv`); the list
has no symbol twice, and removing one moves those after it to the left, one of them past
the position at most.

`MarketProofs` proves the three invariants and the action property of `Indicators`, for
any candles, periods and lengths of the series, and for any limit of the window:

- `AveragesWeighted`: each step of a loop multiplies the weighted sum of the values so
  far by old and adds new times the next value. Scaled by the powers it is divided by,
  the step divides exactly, so that loop and closed form go side by side.
- `RangesCover`: a true range covers the move from close to close and fits between
  lowest and highest price; averages keep the order of their values and leave a constant
  as it is, so that the same holds of the ATR.
- `MovesAlone`: mirroring exchanges gains and losses; their averages, as weighted sums
  with positive weights, are zero only if all of them are, and then RSI is at an extreme.
  MACD is shift-invariant step by step, and mirrored because its two averages, and then
  the signal, are weighted sums times one common factor.
- `WarmsUp`: whether an indicator is there depends on the number of candles alone, which
  never falls.

Sums and folds are recursions over data, and an induction over them has no operator to
instantiate a library theorem with. Both modules derive what they need: the induction
principle as a fact about sets (a set that holds every subset whose strict subsets it
holds, holds them all) from the well-foundedness of strict inclusion, induction on
numbers from it by the lengths of intervals, the existence of the function a fold is
chosen to be from the same induction, and last that a fold along a sequence is a step
per position. A fact about a total or an average is then a set of positions that holds
the first and, with each, the next.

Assumptions are those the modules declare: a positive failure threshold, a finite
set of tasks, a positive number of permits and of login attempts, a natural number of retries,
natural equities, a limit between 1 and 100 %, intents with positive quantities,
a finite set of symbols, quotients of momenta that are exact, candles whose close lies
between low and high, periods of at least 2 (which `core/config.py:89` wants of the ATR's)
and at least 1 for the MACD, a second one-time password for every one (`token_urlsafe` does not repeat itself), and model values outside the sets they mark the absence of.

Only model-checked: `CallsReturn`, `LostOrdersCancelled`, `QuietWhenDisabled`,
`DecideEnds`, `StreamComesBack` and `EveryStartEnds`, which are liveness under fairness
and beyond TLAPS, as is ENABLED. No module with a theorem uses RECURSIVE operators.

## 6. What the runs found

- Orders, fills and idempotency keys are never committed: the engine's repository
  lives on a session whose context manager ended at startup
  (`orchestrator/runtime.py:92-97`).
- The same session keeps SQLite's write lock from the first order on, so that AI
  decisions, audit events, logins and the risk state are no longer written
  (`LockedOutOnceTrading`), and reconciliation never sees a fill (`ReconciliationBlind`).
- In live trading no cycle ever submits an order: its portfolio has no equity
  (`LiveNeverTrades`).
- A symbol may be skipped in a pass although nobody unsubscribed it
  (`PassVisits` bounds how many).
- The risk row is written whole and in any order: a kill can be undone by an older
  write at the next start. What does hold is `SealedKillSurvives`.
- An order validated before a kill executes after it; of validations that were
  still waiting at the kill at most one is approved (`OneLateApproval`).
- An open breaker never closes once the orders under way have ended
  (`BreakerStaysOpen`): its cooloff is only looked at after a success.
- An answer of the AI may name another symbol than the cycle looks at. The caps are
  then computed with the price of the wrong symbol (`orders_bounded`).

Seen while modelling, without a run of their own:

- `decide` raises when the HTTP client fails, instead of using the baseline; only
  404s, answers without JSON and an open breaker lead to it (`ai/brain.py:78`).
- A snapshot carries the time its second request ended: a price passes the
  staleness check up to two requests later than the limit says
  (`PassedAgeBounded` is what holds).
- An RSI of 0 is read as missing and becomes 50 (`strategy/signals.py`), which is
  why `MirroredSignals` leaves the ends of the RSI out.
- After `delete_user` the sessions are revoked but stay, since SQLite's foreign keys
  are off (`persistence/repository.py:522` says they cascade).
- Selling short raises the paper equity by twice the proceeds (`execution/engine.py:197`).
- The drawdown is computed from the first equity seen, not from the peak
  (`risk/engine.py:122`), and `max_open_orders` counts positions of one symbol, of which
  there is at most one (`risk/engine.py:168`).
- The bootstrap goes by the name `admin`, not by the role (`orchestrator/runtime.py:97`);
  the migrations use statements of SQLite (`persistence/migrations.py:172`).
- A change of an account whose audit event fails is committed and answered with an
  error; `AnsweredIsAudited` says what does hold.
- An order of the exchange without a timestamp is never cancelled by
  `reconcile_orphans`, known or not (`execution/engine.py:252`);
  `LostOrdersCancelled` is about those that carry one.
- `OnlyOrphansCancelled` rests on `orphan_age_threshold_sec` being longer than submit
  takes to record an order it has placed (`Age`): two statements, each of which waits 30 s
  at most. The default is 300 s, but `core/config.py:92` allows 1 s, with which an order
  that is just being recorded could be cancelled as an orphan.
- An update of an account with neither role nor status changes nothing and is audited all
  the same (`persistence/repository.py:504`).
- A control socket goes by the role its user had when it was opened
  (`api/server.py:678`); `OnlyEntitledAct` says what does hold of it.

## 7. Not modelled

Password hashing and CSRF tokens (cryptography), the realized volatility and the roots
in the bands (real numbers), prompts and how an answer is found in the text of the
model, logging, metrics and settings, the dashboard, the entry point, connections to
exchange and model, and queries that only feed the display. Postgres, on which the
migrations do not run as they are. Time is abstracted to "long enough or not" (`Age`,
the cooloff). The 500-order window of `reconcile_orphans` is assumed not to be
exceeded: the smallest window that could cut off an order that is still open takes
three recorded orders beside two tasks and the reconciler, more than TLC can go through
here.
