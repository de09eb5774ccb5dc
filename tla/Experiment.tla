------------------------------ MODULE Experiment ------------------------------
(***************************************************************************)
(* Experiments (services/experiments.py): one prompt version and one model *)
(* against the records of a dataset, through generation and evaluation,    *)
(* aggregated into one row whose pass rate gates promotion, and compared   *)
(* with another row.                                                       *)
(*                                                                         *)
(* A run is one transaction: its traces, evaluations and its row appear    *)
(* together when it ends, or not at all.                                   *)
(***************************************************************************)
EXTENDS Integers, Sequences, FiniteSetsExt

CONSTANTS
    Scale,          \* a score, or a rate, of 1: four decimals are kept of it
    Runs,           \* the runs, 1..n: the last two are compared
    SampleSizes,    \* records a dataset has, or sample_size admits
    Outcomes,       \* what may come of one record
    Threshold       \* quality_pass_threshold

\* An error has no evaluation, whatever its other fields say.
OutcomeRecord ==
    [ ok : BOOLEAN, quality : 0..Scale, faithfulness : 0..Scale, relevance : 0..Scale,
      hallucination : 0..Scale, latency : Nat, cost : Nat ]

\* Of the constants; assumed by the module that instantiates this one.
ExperimentAssumption ==
    /\ Scale \in Nat \ {0}
    /\ SampleSizes \subseteq Nat
    /\ Outcomes \subseteq OutcomeRecord
    /\ Threshold \in 0..Scale

VARIABLES
    size,       \* per run: how many records it takes
    traces,     \* per run: the outcomes so far
    evaluated,  \* per run: how many traces have been through evaluation
    phase,      \* per run
    rows        \* per run: the row of experiments, once committed

vars == << size, traces, evaluated, phase, rows >>

NoRow == [ faithfulness |-> 0, relevance |-> 0, hallucination_rate |-> 0,
           p95_latency_ms |-> 0, cost_per_request |-> 0, pass_rate |-> 0 ]

TypeOK ==
    /\ size \in [Runs -> SampleSizes]
    /\ traces \in [Runs -> Seq(Outcomes)]
    /\ phase \in [Runs -> {"generating", "evaluating", "done", "refused", "lost"}]
    /\ \A r \in Runs : /\ evaluated[r] \in 0..Len(traces[r])
                       /\ Len(traces[r]) <= size[r]
                       /\ rows[r].pass_rate \in 0..Scale

\* A dataset without records is refused, as is one, or a prompt version, that does
\* not exist.
Init ==
    /\ size \in [Runs -> SampleSizes]
    /\ traces = [r \in Runs |-> <<>>]
    /\ evaluated = [r \in Runs |-> 0]
    /\ phase = [r \in Runs |-> IF size[r] = 0 THEN "refused" ELSE "generating"]
    /\ rows = [r \in Runs |-> NoRow]

------------------------------------------------------------------------------
(* run_experiment *)

Over(r) == phase[r] \in {"done", "refused", "lost"}

\* Record after record; a run follows the one before it.
Generate(r, outcome) ==
    /\ phase[r] = "generating"
    /\ r - 1 \in Runs => Over(r - 1)
    /\ Len(traces[r]) < size[r]
    /\ traces' = [traces EXCEPT ![r] = Append(@, outcome)]
    /\ phase' = [phase EXCEPT ![r] =
                    IF Len(traces'[r]) = size[r] THEN "evaluating" ELSE @]
    /\ UNCHANGED <<size, evaluated, rows>>

\* Only what answered is evaluated.
Evaluate(r) ==
    /\ phase[r] = "evaluating"
    /\ evaluated[r] < Len(traces[r])
    /\ evaluated' = [evaluated EXCEPT ![r] = @ + 1]
    /\ UNCHANGED <<size, traces, phase, rows>>

\* A request that raises (no candidate model, a budget that blocks), or an
\* evaluation that does, takes the whole run with it.
Lose(r) ==
    /\ \/ phase[r] = "generating" /\ traces[r] # <<>>
       \/ phase[r] = "evaluating"
    /\ phase' = [phase EXCEPT ![r] = "lost"]
    /\ traces' = [traces EXCEPT ![r] = <<>>]
    /\ evaluated' = [evaluated EXCEPT ![r] = 0]
    /\ UNCHANGED <<size, rows>>

------------------------------------------------------------------------------
(* _aggregate_into_experiment *)

Answered(r) == { i \in DOMAIN traces[r] : traces[r][i].ok }

Sum(r, I, field) == MapThenSumSet(LAMBDA i : traces[r][i][field], I)

\* round(x / n, 4), in units of the fourth decimal.
Rounded(x, n) == (2 * x + n) \div (2 * n)

\* Of nothing it is 0.
Mean(r, field) ==
    IF Answered(r) = {} THEN 0
    ELSE Rounded(Sum(r, Answered(r), field), Cardinality(Answered(r)))

\* latencies[min(n - 1, int(0.95 n))], from 0, of the sorted latencies.
P95(r) ==
    LET n == Cardinality(Answered(r))
        rank == Min({n - 1, (95 * n) \div 100}) + 1
        AtMost(l) == Cardinality({ i \in Answered(r) : traces[r][i].latency <= l })
    IN  IF n = 0 THEN 0
        ELSE Min({ traces[r][i].latency : i \in
                     { j \in Answered(r) : AtMost(traces[r][j].latency) >= rank } })

Passing(r) == { i \in Answered(r) : traces[r][i].quality >= Threshold }

\* Mutant: of those that were evaluated, as it once was.
RequestsMutant(r) == IF Answered(r) = {} THEN 1 ELSE Cardinality(Answered(r))

\* All of them: a request that failed did not pass.
Requests(r) == Len(traces[r])

Row(r) ==
    [ faithfulness |-> Mean(r, "faithfulness"), relevance |-> Mean(r, "relevance"),
      hallucination_rate |-> Mean(r, "hallucination"), p95_latency_ms |-> P95(r),
      cost_per_request |-> Mean(r, "cost"),
      pass_rate |-> Rounded(Scale * Cardinality(Passing(r)), Requests(r)) ]

Finish(r) ==
    /\ phase[r] = "evaluating"
    /\ evaluated[r] = Len(traces[r])
    /\ rows' = [rows EXCEPT ![r] = Row(r)]
    /\ phase' = [phase EXCEPT ![r] = "done"]
    /\ UNCHANGED <<size, traces, evaluated>>

------------------------------------------------------------------------------
(* compare_experiments *)

HigherIsBetter == {"faithfulness", "relevance", "pass_rate"}
LowerIsBetter == {"hallucination_rate", "p95_latency_ms", "cost_per_request"}
ComparisonMetrics == HigherIsBetter \cup LowerIsBetter

Better(a, b, metric) ==
    CASE a[metric] = b[metric]                              -> "tie"
      [] a[metric] # b[metric] /\ metric \in HigherIsBetter -> IF b[metric] > a[metric]
                                                               THEN "b" ELSE "a"
      [] OTHER                                              -> IF b[metric] < a[metric]
                                                               THEN "b" ELSE "a"

------------------------------------------------------------------------------
Next ==
    \E r \in Runs :
        \/ \E outcome \in Outcomes : Generate(r, outcome)
        \/ Evaluate(r)
        \/ Lose(r)
        \/ Finish(r)

Spec == Init /\ [][Next]_vars

------------------------------------------------------------------------------
(* Properties *)

Committed == { r \in Runs : phase[r] = "done" }

\* Request by request, no worse on what a pass is made of.
NoWorse(t, u) == u.ok => t.ok /\ t.quality >= u.quality

\* The rate that gates a promotion counts every request of the run against it, the
\* one that failed like the one that was answered badly: it is what a count of them
\* gives, to half a unit of the last decimal that is kept, so that it is full only if
\* fewer than one in 2 * Scale did not pass; and of two runs over the same records the
\* one that is no worse on any request is never the worse one
\* (services/experiments.py:181-184, 213-218).  A row whose run was lost has no rate.
PassRateIsEarned ==
    /\ \A r \in Runs \ Committed : rows[r] = NoRow
    /\ \A r \in Committed :
         LET n == size[r]
             bad == { i \in 1..n : ~traces[r][i].ok \/ traces[r][i].quality < Threshold }
             exact == 2 * (Scale * (n - Cardinality(bad)))
             kept == 2 * (rows[r].pass_rate * n)
         IN  kept <= exact + n /\ exact <= kept + n
    /\ \A r, s \in Committed :
         size[r] = size[s] /\ (\A i \in 1..size[r] : NoWorse(traces[r][i], traces[s][i]))
            => Better(rows[r], rows[s], "pass_rate") # "b"

\* A run that is compared with another is better on some metric only if it did
\* something better.
FailureIsNoGain ==
    \A r, s \in Committed :
        Answered(r) = {} /\ Answered(s) # {} =>
            \A m \in ComparisonMetrics : Better(rows[r], rows[s], m) # "a"

==============================================================================
