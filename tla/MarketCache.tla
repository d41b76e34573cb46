----------------------------- MODULE MarketCache -----------------------------
(***************************************************************************)
(* How old the price that passes check_market can be: get_snapshot and its  *)
(* cache (trade_post/market/service.py) for one symbol, used by any number *)
(* of tasks, and the staleness check of the risk engine (risk/engine.py).  *)
(*                                                                         *)
(* A fetch is two requests, ticker and candles.  The exchange makes the    *)
(* ticker at some moment while the first is under way; the snapshot gets   *)
(* the time at which the second has ended, and so does the cache entry.    *)
(* Nothing keeps two tasks from fetching at once.                          *)
(***************************************************************************)
EXTENDS Integers

CONSTANTS
    Tasks,         \* the loops, AI cycles and orders that want a snapshot
    MaxStale,      \* settings.max_stale_data_sec, also the age limit of the cache
    Latency,       \* longest time one request takes, rate limiter and timeout included
    MaxTime,       \* the clock stops here
    None           \* nothing cached

ASSUME MarketAssumption ==
    /\ MaxStale \in Nat \ {0}
    /\ Latency \in Nat
    /\ MaxTime \in Nat

Times == 0 .. MaxTime

\* made: when the exchange made the price; timestamp: what the snapshot says.
Snapshots == [made : Times, timestamp : Times]

ASSUME NoneAssumption == None \notin Snapshots

VARIABLES
    now,       \* the clock
    pc,        \* per task: what it is doing
    since,     \* per task: when its request was sent
    made,      \* per task: when the ticker it has received was made
    snap,      \* per task: the snapshot it was given
    cache      \* the entry of the symbol

vars == <<now, pc, since, made, snap, cache>>

Init ==
    /\ now = 0
    /\ pc = [t \in Tasks |-> "idle"]
    /\ since = [t \in Tasks |-> 0]
    /\ made = [t \in Tasks |-> 0]
    /\ snap = [t \in Tasks |-> None]
    /\ cache = None

\* How old a snapshot really is, and how old it looks.
Age(s) == now - s.made
ApparentAge(s) == now - s.timestamp

-----------------------------------------------------------------------------
(* get_snapshot.                                                           *)

Hit(t) ==
    /\ pc[t] = "idle"
    /\ cache # None
    /\ ApparentAge(cache) < MaxStale
    /\ snap' = [snap EXCEPT ![t] = cache]
    /\ pc' = [pc EXCEPT ![t] = "served"]
    /\ UNCHANGED <<now, since, made, cache>>

Send(t, request) ==
    /\ pc' = [pc EXCEPT ![t] = request]
    /\ since' = [since EXCEPT ![t] = now]

\* The entry is missing or too old, or the caller said use_cache=False.
Fetch(t) ==
    /\ pc[t] = "idle"
    /\ Send(t, "ticker")
    /\ UNCHANGED <<now, made, snap, cache>>

TickerArrives(t) ==
    /\ pc[t] = "ticker"
    /\ \E at \in Times :
        /\ since[t] <= at /\ at <= now
        /\ made' = [made EXCEPT ![t] = at]
    /\ Send(t, "ohlcv")
    /\ UNCHANGED <<now, snap, cache>>

\* The call has ended with its requests.
Forget(t) ==
    /\ since' = [since EXCEPT ![t] = 0]
    /\ made' = [made EXCEPT ![t] = 0]

\* Stamps the snapshot and puts it into the cache, whatever is there.
OhlcvArrives(t) ==
    /\ pc[t] = "ohlcv"
    /\ LET s == [made |-> made[t], timestamp |-> now]
       IN  snap' = [snap EXCEPT ![t] = s] /\ cache' = s
    /\ pc' = [pc EXCEPT ![t] = "served"]
    /\ Forget(t)
    /\ UNCHANGED now

\* Mutant: a request that fails is repeated; the ticker of the first attempt is
\* kept for the second request.
FetchRepeated(t) ==
    /\ pc[t] \in {"ticker", "ohlcv"}
    /\ Send(t, pc[t])
    /\ UNCHANGED <<now, made, snap, cache>>

\* An error of either request ends the call with an ExchangeError.
FetchFails(t) ==
    /\ pc[t] \in {"ticker", "ohlcv"}
    /\ pc' = [pc EXCEPT ![t] = "idle"]
    /\ Forget(t)
    /\ UNCHANGED <<now, snap, cache>>

-----------------------------------------------------------------------------
(* The caller, and time.                                                   *)

\* Mutant: is_stale is asked, which looks at the cache.
CheckMarketCached(t) ==
    /\ pc[t] = "served"
    /\ cache # None
    /\ ApparentAge(cache) <= MaxStale
    /\ pc' = [pc EXCEPT ![t] = "passed"]
    /\ UNCHANGED <<now, since, made, snap, cache>>

\* check_market lets a snapshot of no more than MaxStale pass; the decision of
\* the AI may have taken any time since it was served.
CheckMarket(t) ==
    /\ pc[t] = "served"
    /\ ApparentAge(snap[t]) <= MaxStale
    /\ pc' = [pc EXCEPT ![t] = "passed"]
    /\ UNCHANGED <<now, since, made, snap, cache>>

\* The snapshot was rejected, has passed, or was not wanted for trading.
Finish(t) ==
    /\ pc[t] \in {"served", "passed"}
    /\ pc' = [pc EXCEPT ![t] = "idle"]
    /\ snap' = [snap EXCEPT ![t] = None]
    /\ UNCHANGED <<now, since, made, cache>>

\* No request takes longer than Latency, and passing the check takes no time.
Tick ==
    /\ now < MaxTime
    /\ \A t \in Tasks :
        /\ pc[t] \in {"ticker", "ohlcv"} => now - since[t] < Latency
        /\ pc[t] # "passed"
    /\ now' = now + 1
    /\ UNCHANGED <<pc, since, made, snap, cache>>

Next ==
    \/ \E t \in Tasks :
        \/ Hit(t) \/ Fetch(t) \/ TickerArrives(t) \/ OhlcvArrives(t) \/ FetchFails(t)
        \/ CheckMarket(t) \/ Finish(t)
    \/ Tick

Spec == Init /\ [][Next]_vars

-----------------------------------------------------------------------------
(* Properties.                                                             *)

\* Every variable has the type its declaration says.
TypeOK ==
    /\ now \in Times
    /\ pc \in [Tasks -> {"idle", "ticker", "ohlcv", "served", "passed"}]
    /\ since \in [Tasks -> Times]
    /\ made \in [Tasks -> Times]
    /\ snap \in [Tasks -> Snapshots \cup {None}]
    /\ cache \in Snapshots \cup {None}

\* check_market compares the time the fetch ended and not the time of the price.
\* However fetches overlap and fail, a price that passes is older than
\* max_stale_data_sec by two requests at most.
PassedAgeBounded ==
    \A t \in Tasks : pc[t] = "passed" => Age(snap[t]) <= MaxStale + 2 * Latency

\* Overlapping fetches may replace a newer price by an older one; the cache goes
\* back by less than the time one fetch takes.
CacheSetbackBounded ==
    [][cache # None => cache'.made >= cache.made - 2 * Latency]_cache

\* What a caller is served from the cache or from the exchange has been made no
\* longer ago than the age limit and one fetch.
ServedAgeBounded ==
    [][\A t \in Tasks : pc[t] # "served" /\ pc'[t] = "served" =>
          Age(snap'[t]) <= MaxStale + 2 * Latency]_vars
=============================================================================
