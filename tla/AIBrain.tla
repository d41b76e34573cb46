------------------------------- MODULE AIBrain -------------------------------
(***************************************************************************)
(* AIBrain.decide and the OllamaClient below it (trade_post/ai/brain.py,   *)
(* trade_post/ai/ollama.py): tasks that want a decision share a semaphore  *)
(* and a circuit breaker.  A call posts up to MaxRetries + 1 requests, one *)
(* after the other, and keeps its permit while it waits between two.       *)
(*                                                                         *)
(* failures is the number of recent entries of _failures, saturated at the *)
(* threshold.  breaker is "closed" while _opened_at is None, and "cooled"  *)
(* once the cooldown is over and nobody has looked at the breaker since.   *)
(***************************************************************************)
EXTENDS Integers, FiniteSets

CONSTANTS
    Tasks,             \* AI cycles and on-demand analyses
    MaxConcurrent,     \* settings.ollama_max_concurrent
    MaxRetries,        \* settings.ollama_max_retries
    BreakerThreshold   \* settings.ollama_circuit_breaker_threshold

ASSUME AIBrainAssumption ==
    /\ IsFiniteSet(Tasks)
    /\ MaxConcurrent \in Nat \ {0}
    /\ MaxRetries \in Nat
    /\ BreakerThreshold \in Nat \ {0}

VARIABLES
    pc,          \* per task: where decide is, or how it ended
    attempt,     \* per task: requests of this call that have failed
    permits,     \* value of the semaphore
    failures,    \* failed calls the breaker remembers
    breaker,     \* the breaker
    lost,        \* history: calls given up since the last success or cooldown, saturated
    sent         \* history: per task, requests posted since the breaker opened

vars == <<pc, attempt, permits, failures, breaker, lost, sent>>

\* A task between the entry of chat_json and its end; with a permit or without.
Holding  == {"post", "backoff"}
Engaged  == {"queued"} \cup Holding
Outcomes == {"ai", "fallback", "httpError", "crashed"}

Inside == {t \in Tasks : pc[t] \in Holding}

AtMost(n) == IF n < BreakerThreshold THEN n ELSE BreakerThreshold

Init ==
    /\ pc = [t \in Tasks |-> "idle"]
    /\ attempt = [t \in Tasks |-> 0]
    /\ permits = MaxConcurrent
    /\ failures = 0
    /\ breaker = "closed"
    /\ lost = 0
    /\ sent = [t \in Tasks |-> 0]

\* Goes on to s, which counts as a request if it is one and the breaker is open.
Goto(t, s) ==
    /\ pc' = [pc EXCEPT ![t] = s]
    /\ sent' = IF breaker # "open" \/ breaker' # "open" THEN [u \in Tasks |-> 0]
               ELSE IF s = "post" THEN [sent EXCEPT ![t] = @ + 1]
               ELSE sent

-----------------------------------------------------------------------------
(* decide.                                                                 *)

\* The breaker is open: the deterministic baseline, without a request.
UseBaseline(t) ==
    /\ pc[t] = "idle"
    /\ breaker = "open"
    /\ UNCHANGED breaker
    /\ Goto(t, "fallback")
    /\ UNCHANGED <<attempt, permits, failures, lost>>

\* Mutant: the breaker is not asked.
AskUnchecked(t) ==
    /\ pc[t] = "idle"
    /\ UNCHANGED <<breaker, failures, lost>>
    /\ attempt' = [attempt EXCEPT ![t] = 0]
    /\ \/ permits > 0 /\ permits' = permits - 1 /\ Goto(t, "post")
       \/ permits = 0 /\ UNCHANGED permits /\ Goto(t, "queued")

\* is_open closes a breaker whose cooldown is over.  chat_json asks it again
\* without an await in between, and gets the same answer.  A free permit is
\* taken at once, unless others wait for one already.
Ask(t) ==
    /\ pc[t] = "idle"
    /\ breaker # "open"
    /\ breaker' = "closed"
    /\ failures' = IF breaker = "cooled" THEN 0 ELSE failures
    /\ lost' = IF breaker = "cooled" THEN 0 ELSE lost
    /\ attempt' = [attempt EXCEPT ![t] = 0]
    /\ LET free == permits > 0 /\ \A u \in Tasks : pc[u] # "queued"
       IN  \/ free /\ permits' = permits - 1 /\ Goto(t, "post")
           \/ ~free /\ UNCHANGED permits /\ Goto(t, "queued")

\* The semaphore wakes a waiting task; the breaker is not asked again.
Enter(t) ==
    /\ pc[t] = "queued"
    /\ permits > 0
    /\ permits' = permits - 1
    /\ UNCHANGED breaker
    /\ Goto(t, "post")
    /\ UNCHANGED <<attempt, failures, lost>>

\* Leaves the semaphore.
Leave(t, outcome) ==
    /\ permits' = permits + 1
    /\ Goto(t, outcome)
    /\ UNCHANGED attempt

\* A JSON object came back: record_success, whatever the breaker was.
Answer(t) ==
    /\ pc[t] = "post"
    /\ breaker' = "closed"
    /\ failures' = 0
    /\ lost' = 0
    /\ Leave(t, "ai")

\* Mutant: record_failure is called for a request and not for a call.
RetryRecording(t) ==
    /\ pc[t] = "post"
    /\ attempt[t] < MaxRetries
    /\ attempt' = [attempt EXCEPT ![t] = @ + 1]
    /\ failures' = AtMost(failures + 1)
    /\ breaker' = IF failures' = BreakerThreshold THEN "open" ELSE breaker
    /\ Goto(t, "backoff")
    /\ UNCHANGED <<permits, lost>>

\* Mutant: the attempts are not counted.
RetryForever(t) ==
    /\ pc[t] = "post"
    /\ UNCHANGED breaker
    /\ Goto(t, "backoff")
    /\ UNCHANGED <<attempt, permits, failures, lost>>

\* No answer, an error status or no JSON object in it: sleeps before the next
\* request, with the permit.
Retry(t) ==
    /\ pc[t] = "post"
    /\ attempt[t] < MaxRetries
    /\ attempt' = [attempt EXCEPT ![t] = @ + 1]
    /\ UNCHANGED breaker
    /\ Goto(t, "backoff")
    /\ UNCHANGED <<permits, failures, lost>>

Resend(t) ==
    /\ pc[t] = "backoff"
    /\ UNCHANGED breaker
    /\ Goto(t, "post")
    /\ UNCHANGED <<attempt, permits, failures, lost>>

\* The last attempt failed: record_failure keeps some of the failures of the
\* last minute and adds one.  decide catches the errors of the provider (404,
\* no JSON object) and uses the baseline; errors of httpx pass through it.
GiveUp(t) ==
    /\ pc[t] = "post"
    /\ attempt[t] = MaxRetries
    /\ \E kept \in 0 .. failures : failures' = AtMost(kept + 1)
    /\ breaker' = IF failures' = BreakerThreshold THEN "open" ELSE breaker
    /\ lost' = AtMost(lost + 1)
    /\ \E outcome \in {"fallback", "httpError"} : Leave(t, outcome)

\* The task is cancelled, or the answer is no JSON at all or no object.
Crash(t) ==
    /\ pc[t] \in Holding
    /\ UNCHANGED <<breaker, failures, lost>>
    /\ Leave(t, "crashed")

CancelWaiting(t) ==
    /\ pc[t] = "queued"
    /\ UNCHANGED breaker
    /\ Goto(t, "crashed")
    /\ UNCHANGED <<attempt, permits, failures, lost>>

\* The cycle goes on, and decides about the next symbol later.
Take(t) ==
    /\ pc[t] \in Outcomes
    /\ UNCHANGED breaker
    /\ Goto(t, "idle")
    /\ UNCHANGED <<attempt, permits, failures, lost>>

\* cooldown_sec have gone by since _opened_at.
Cool ==
    /\ breaker = "open"
    /\ breaker' = "cooled"
    /\ sent' = [t \in Tasks |-> 0]
    /\ UNCHANGED <<pc, attempt, permits, failures, lost>>

Step(t) ==
    \/ Answer(t) \/ Retry(t) \/ Resend(t) \/ GiveUp(t) \/ Crash(t)

Next ==
    \/ \E t \in Tasks :
        \/ UseBaseline(t) \/ Ask(t)
        \/ Enter(t) \/ Step(t) \/ CancelWaiting(t)
        \/ Take(t)
    \/ Cool

\* Every request ends by its timeout and every sleep by itself; a semaphore
\* wakes its waiters in the order they came.
Fairness ==
    \A t \in Tasks : WF_vars(Step(t)) /\ SF_vars(Enter(t))

Spec == Init /\ [][Next]_vars

FairSpec == Spec /\ Fairness

-----------------------------------------------------------------------------
(* Properties.                                                             *)

\* Every variable has the type its declaration says.
TypeOK ==
    /\ pc \in [Tasks -> {"idle"} \cup Engaged \cup Outcomes]
    /\ attempt \in [Tasks -> 0 .. MaxRetries]
    /\ permits \in 0 .. MaxConcurrent
    /\ failures \in 0 .. BreakerThreshold
    /\ breaker \in {"closed", "open", "cooled"}
    /\ lost \in 0 .. BreakerThreshold
    /\ sent \in [Tasks -> Nat]

\* However calls end, every permit is either in the semaphore or with a task
\* inside: no exception and no cancellation loses one.
PermitsBalance == permits + Cardinality(Inside) = MaxConcurrent

\* The breaker opens on calls that were given up, as many as the threshold
\* since the last success or cooldown: retries of one call never open it.
OpensOnLostCalls == breaker # "closed" => lost = BreakerThreshold

\* The breaker is not asked again by calls that wait or retry; still, for as
\* long as it stays open, a task sends no more than the requests of the one call
\* it was in.
OpenBreakerDrains ==
    breaker = "open" => \A t \in Tasks : sent[t] <= MaxRetries + 1

\* Whatever the provider and the other tasks do, decide comes to an end.
DecideEnds ==
    \A t \in Tasks : pc[t] \in Engaged ~> pc[t] \in Outcomes
=============================================================================
