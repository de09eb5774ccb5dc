----------------------------- MODULE FallbackChain -----------------------------
(***************************************************************************)
(* One request through the resilient client (llm/resilient.py): bounded    *)
(* retries per model, then the next model of the chain; and what the trace *)
(* of the request tells about the health of every model it tried           *)
(* (services/generation.py, worker/tasks/model_health.py).                 *)
(***************************************************************************)
EXTENDS Integers, Sequences, FiniteSetsExt

CONSTANTS
    Models,
    NoModel,
    Fallbacks,      \* the fallback lists a caller may send
    MaxRetries      \* max_retries_per_model

\* Of the constants; assumed by the module that instantiates this one.
ChainAssumption ==
    /\ Fallbacks \subseteq Seq(Models)
    /\ NoModel \notin Models
    /\ MaxRetries \in Nat

\* "timeout" stands for every failure worth a retry.
Retryable == {"timeout"}
Kinds == Retryable \cup {"provider_error", "context_overflow"}

VARIABLES
    chain,      \* the models to try, in order
    at,         \* the one being tried
    tries,      \* its calls that failed and may be repeated
    calls,      \* per model: calls that reached its provider
    log,        \* attempts_log
    phase,
    trace       \* what is persisted: who answered, and failed_attempts

vars == << chain, at, tries, calls, log, phase, trace >>

Attempt == [model : Models, kind : Kinds \cup {"none"}, attempts : Nat]
NoTrace == [model |-> NoModel, status |-> "none", failed |-> <<>>]

Succeeded(a) == a.kind = "none"

\* At least one attempt, even with a budget of zero.
Budget == IF MaxRetries > 1 THEN MaxRetries ELSE 1

TypeOK ==
    /\ chain \in Seq(Models) /\ chain # <<>>
    /\ at \in DOMAIN chain
    /\ tries \in 0..Budget - 1
    /\ calls \in [Models -> Nat]
    /\ log \in Seq(Attempt)
    /\ phase \in {"trying", "answered", "failed", "recorded"}
    /\ trace.status \in {"none", "ok", "error"}

\* The elements of s at the given places, in their order.  (SelectSeq, in a form
\* that the proofs can take apart.)
Picked(s, places) ==
    LET Nth(n) == CHOOSE i \in places : Cardinality({ j \in places : j <= i }) = n
    IN  [n \in 1..Cardinality(places) |-> s[Nth(n)]]

\* The primary model and the fallbacks that are another model.
ChainOf(primary, fallbacks) ==
    <<primary>> \o Picked(fallbacks, { i \in DOMAIN fallbacks : fallbacks[i] # primary })

Init ==
    /\ \E m \in Models, f \in Fallbacks : chain = ChainOf(m, f)
    /\ at = 1
    /\ tries = 0
    /\ calls = [m \in Models |-> 0]
    /\ log = <<>>
    /\ phase = "trying"
    /\ trace = NoTrace

------------------------------------------------------------------------------
(* complete_with_fallback *)

Log(kind, attempts) ==
    log' = Append(log, [model |-> chain[at], kind |-> kind, attempts |-> attempts])

Called == calls' = [calls EXCEPT ![chain[at]] = @ + 1]

\* On to the next model, or to AllModelsFailedError.
GiveUp ==
    /\ tries' = 0
    /\ IF at < Len(chain)
       THEN at' = at + 1 /\ UNCHANGED phase
       ELSE phase' = "failed" /\ UNCHANGED at

\* No such provider, or its API key is missing: a failure of this model only.
Unavailable ==
    /\ phase = "trying"
    /\ tries = 0
    /\ Log("provider_error", 0)
    /\ GiveUp
    /\ UNCHANGED <<chain, calls, trace>>

Answer ==
    /\ phase = "trying"
    /\ Called
    /\ Log("none", tries + 1)
    /\ phase' = "answered"
    /\ UNCHANGED <<chain, at, tries, trace>>

\* Mutant: one retry too many.
WorthARetryMutant(kind) == kind \in Retryable /\ tries < Budget

WorthARetry(kind) == kind \in Retryable /\ tries + 1 < Budget

Retry(kind) ==
    /\ phase = "trying"
    /\ WorthARetry(kind)
    /\ Called
    /\ tries' = tries + 1
    /\ UNCHANGED <<chain, at, log, phase, trace>>

Fail(kind) ==
    /\ phase = "trying"
    /\ ~WorthARetry(kind)
    /\ Called
    /\ Log(kind, tries + 1)
    /\ GiveUp
    /\ UNCHANGED <<chain, trace>>

------------------------------------------------------------------------------
(* The trace, and model health *)

\* Mutant: the model the trace names is not left out.
FailedAttemptsMutant(exclude) ==
    Picked(log, { i \in DOMAIN log : ~Succeeded(log[i]) /\ log[i].kind # "context_overflow" })

FailedAttempts(exclude) ==
    Picked(log, { i \in DOMAIN log : /\ ~Succeeded(log[i])
                                     /\ log[i].model # exclude
                                     /\ log[i].kind # "context_overflow" })

\* The answer, or the failure of the first choice, and whoever failed besides.
Record ==
    /\ phase \in {"answered", "failed"}
    /\ LET model == IF phase = "answered" THEN chain[at] ELSE chain[1]
       IN  trace' = [model |-> model,
                     status |-> IF phase = "answered" THEN "ok" ELSE "error",
                     failed |-> FailedAttempts(model)]
    /\ phase' = "recorded"
    /\ UNCHANGED <<chain, at, tries, calls, log>>

\* What evaluate_model_health counts against m.
Errors(m) ==
    Cardinality({ i \in DOMAIN trace.failed : trace.failed[i].model = m })
        + IF trace.model = m /\ trace.status = "error" THEN 1 ELSE 0

------------------------------------------------------------------------------
Next ==
    \/ Unavailable
    \/ Answer
    \/ \E kind \in Kinds : Retry(kind) \/ Fail(kind)
    \/ Record

Spec == Init /\ [][Next]_vars

------------------------------------------------------------------------------
(* Properties *)

\* Retries per model are capped: no storm on a failing backend (resilient.py:4-9).
AttemptsCapped == \A m \in Models : calls[m] <= Budget

\* The log accounts for every call that was made, and paid for.
LogIsExact ==
    \A m \in Models :
        calls[m] = MapThenSumSet(LAMBDA i : log[i].attempts,
                                 { i \in DOMAIN log : log[i].model = m })
                   + IF phase = "trying" /\ chain[at] = m THEN tries ELSE 0

\* A request fails only when every model of its chain has failed
\* (resilient.py:77-82).
AllWereTried ==
    phase = "failed" =>
        /\ Len(log) = Len(chain)
        /\ \A i \in DOMAIN log : log[i].model = chain[i] /\ ~Succeeded(log[i])

FailedOn(m, kinds) == \E i \in DOMAIN log : log[i].model = m /\ log[i].kind \in kinds

\* A model that failed a request is charged with one error for it, whoever
\* answered in its place (model_health.py:14-16, 54-58).
FailuresCountOnce ==
    phase = "recorded" =>
        \A m \in Models :
            /\ Errors(m) <= 1
            /\ FailedOn(m, Kinds \ {"context_overflow"}) => Errors(m) = 1

\* A model is charged for what it did, not for a request that was too long.
OverflowIsNoError ==
    \A m \in Models : Errors(m) > 0 => FailedOn(m, Kinds \ {"context_overflow"})

==============================================================================
