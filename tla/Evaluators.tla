------------------------------ MODULE Evaluators ------------------------------
(***************************************************************************)
(* The evaluation of one answer (evaluation/pipeline.py): the evaluators   *)
(* that need no model (deterministic.py), the judge with its retries and   *)
(* its fallback (judge.py), the support of every claim (hallucination.py)  *)
(* and the overall quality they are weighed into, which rollouts,          *)
(* experiments and regression detection decide by.                         *)
(*                                                                         *)
(* A text is what the evaluators see of it: its similarities to the other  *)
(* texts, in units of 1/Scale.  What is stored is rounded to a unit, what  *)
(* is compared with a threshold is not.                                    *)
(***************************************************************************)
EXTENDS Integers, Sequences, FiniteSetsExt

CONSTANTS
    Scale,          \* the similarity of equal texts
    Answers,        \* the answers to evaluate
    Judged,         \* whether a judge is configured: a set of Booleans
    Scores,         \* the scores a judge may give
    MaxAttempts     \* JudgeEvaluator's max_attempts

Similarity == -Scale..Scale

\* asked, plain: how close question and answer are, by the configured embeddings
\* and by the built-in ones.  whole, best: of a sentence, its similarity to the context and to the closest
\* sentence of the context.  A blank answer counts as one sentence, and makes no
\* claim.  latency, cost: in percent of the evaluator's threshold.
AnswerRecord ==
    [ blank : BOOLEAN, grounded : BOOLEAN, asked : Similarity, plain : Similarity,
      sentences : Seq([whole : Similarity, best : Similarity]) \ {<<>>},
      docs : Seq([answer : Similarity, question : Similarity]),
      blocked : BOOLEAN, injected : BOOLEAN, latency : Nat, cost : Nat ]

\* Of the constants; assumed by the module that instantiates this one.
EvaluatorAssumption ==
    /\ Scale \in Nat \ {0}
    /\ \A a \in Answers : a \in AnswerRecord /\ (a.blank => Len(a.sentences) = 1)
    /\ Judged \subseteq BOOLEAN
    /\ Scores \subseteq 0..Scale
    /\ MaxAttempts \in Nat \ {0}

VARIABLES
    answer,     \* the answer under evaluation
    judged,
    stage,      \* what comes next
    metrics,    \* per evaluator that has run: its score and whether it passed
    replies,    \* what the judge answered so far
    overall     \* overall_quality, once aggregated

vars == << answer, judged, stage, metrics, replies, overall >>

\* Malformed output and a provider that may recover are worth another attempt.
Replies == [kind : {"verdict"}, score : Scores]
           \cup [kind : {"malformed", "retryable", "fatal"}, score : {0}]

Metric(score, passed) == [score |-> score, passed |-> passed]

TypeOK ==
    /\ answer \in Answers
    /\ judged \in Judged
    /\ stage \in {"metrics", "judge", "claims", "done", "failed"}
    /\ \A n \in DOMAIN metrics : metrics[n].score \in 0..Scale
    /\ replies \in Seq(Replies)
    /\ overall \in 0..Scale

Init ==
    /\ answer \in Answers
    /\ judged \in Judged
    /\ stage = "metrics"
    /\ metrics = [n \in {} |-> Metric(0, "none")]
    /\ replies = <<>>
    /\ overall = 0

------------------------------------------------------------------------------
(* default_deterministic_evaluators *)

\* max(0, min(1, x))
Clamp(x) == Min({Scale, Max({0, x})})

Total(Value(_), n) == MapThenSumSet(Value, 1..n)

\* Is the average of n values with this sum at least pct percent?
Reaches(sum, n, pct) == 100 * sum >= pct * n * Scale

Verdict(passed) == IF passed THEN "passed" ELSE "failed"

\* A threshold is met by the sum of n similarities, not by their rounded average.
Average(sum, n, pct) == Metric(sum \div n, Verdict(Reaches(sum, n, pct)))

\* Nothing to judge: the metric neither passes nor fails.
NotApplicable(score) == Metric(score, "none")

Relevance ==
    IF answer.blank THEN Metric(0, "failed") ELSE Average(Clamp(answer.asked), 1, 35)

Faithfulness ==
    LET Support(i) == Clamp(answer.sentences[i].whole)
        n == Len(answer.sentences)
    IN  IF answer.grounded THEN Average(Total(Support, n), n, 55)
        ELSE NotApplicable(Scale \div 2)

ContextUtilization ==
    LET used == { Clamp(answer.docs[i].answer) : i \in DOMAIN answer.docs }
    IN  IF used = {} THEN NotApplicable(0) ELSE Average(Max(used), 1, 25)

RetrievalQuality ==
    LET AsksFor(i) == Clamp(answer.docs[i].question)
        n == Len(answer.docs)
    IN  IF n = 0 THEN NotApplicable(0) ELSE Average(Total(AsksFor, n), n, 30)

Safety == IF answer.blocked THEN Metric(0, "failed") ELSE Metric(Scale, "passed")

\* The score is a risk: it passes when it is low.
PromptInjection ==
    IF answer.injected THEN Metric(Scale, "failed") ELSE Metric(0, "passed")

\* Full marks for nothing, none at twice the threshold.
Thrift(percent) == Metric(Clamp(Scale - (percent * Scale) \div 200), Verdict(percent <= 100))

DeterministicMetrics ==
    [ relevance |-> Relevance, faithfulness |-> Faithfulness,
      context_utilization |-> ContextUtilization, retrieval_quality |-> RetrievalQuality,
      safety |-> Safety, prompt_injection_risk |-> PromptInjection,
      latency |-> Thrift(answer.latency), cost_efficiency |-> Thrift(answer.cost) ]

RunEvaluators ==
    /\ stage = "metrics"
    /\ metrics' = DeterministicMetrics
    /\ stage' = IF judged THEN "judge" ELSE "claims"
    /\ UNCHANGED <<answer, judged, replies, overall>>

------------------------------------------------------------------------------
(* JudgeEvaluator *)

Adds(metric) ==
    metrics' = [n \in DOMAIN metrics \cup {"judge_quality"} |->
                   IF n = "judge_quality" THEN metric ELSE metrics[n]]

\* Mutant: a reply that is not an object ends the retries.
WorthAnotherMutant(reply) == reply.kind = "retryable"

WorthAnother(reply) == reply.kind \in {"malformed", "retryable"}

\* max(0, similarity of question and answer), of a blank one too.
Fallback == Average(Clamp(answer.plain), 1, 60)

AskJudge(reply) ==
    /\ stage = "judge"
    /\ replies' = Append(replies, reply)
    /\ IF reply.kind = "verdict" THEN Adds(Average(reply.score, 1, 60)) /\ stage' = "claims"
       ELSE IF WorthAnother(reply) /\ Len(replies') < MaxAttempts THEN UNCHANGED <<metrics, stage>>
       ELSE Adds(Fallback) /\ stage' = "claims"
    /\ UNCHANGED <<answer, judged, overall>>

------------------------------------------------------------------------------
(* HallucinationDetector and _aggregate_quality *)

\* Unsupported counts in full, partly supported by half.
Unsupported(sentence) ==
    LET best == Clamp(sentence.best)
    IN  IF ~answer.grounded THEN Scale \div 2
        ELSE IF Reaches(best, 1, 60) THEN 0
        ELSE IF Reaches(best, 1, 30) THEN Scale \div 2
        ELSE Scale

Hallucination ==
    LET Weight(i) == Unsupported(answer.sentences[i])
        n == Len(answer.sentences)
    IN  IF answer.blank THEN 0 ELSE Total(Weight, n) \div n

Weights == [relevance |-> 30, faithfulness |-> 35, judge_quality |-> 35]
Weighed == DOMAIN Weights \cap DOMAIN metrics

\* Mutant: a judge that was not asked counts as a bad mark.
WeightTotalMutant == MapThenSumSet(LAMBDA n : Weights[n], DOMAIN Weights)

\* The weights of the evaluators that have run.
WeightTotal == MapThenSumSet(LAMBDA n : Weights[n], Weighed)

\* Four tenths of the hallucination and three of the risk, in tenths of a unit.
Penalty == 4 * Hallucination + 3 * metrics["prompt_injection_risk"].score

Aggregate ==
    LET sum == MapThenSumSet(LAMBDA n : Weights[n] * metrics[n].score, Weighed)
        safe == (10 * sum * metrics["safety"].score) \div Scale
    IN  Min({Scale, Max({0, safe - WeightTotal * Penalty}) \div (10 * WeightTotal)})

CheckClaims ==
    /\ stage = "claims"
    /\ overall' = Aggregate
    /\ stage' = "done"
    /\ UNCHANGED <<answer, judged, metrics, replies>>

\* An embedding that cannot be computed, at any stage, fails the evaluation.
Fail ==
    /\ stage \in {"metrics", "judge", "claims"}
    /\ stage' = "failed"
    /\ UNCHANGED <<answer, judged, metrics, replies, overall>>

Next ==
    \/ RunEvaluators
    \/ \E reply \in Replies : AskJudge(reply)
    \/ CheckClaims
    \/ Fail

Spec == Init /\ [][Next]_vars

------------------------------------------------------------------------------
(* Properties *)

Last == replies[Len(replies)]

\* A judge that is configured always leaves a verdict: its own if one came within
\* the attempts, otherwise the fallback, and the fallback only when they are used
\* up or no more can be gained (judge.py:1-8, 121-125).
JudgeRules ==
    /\ Len(replies) <= MaxAttempts
    /\ stage \in {"claims", "done"} /\ judged =>
         /\ "judge_quality" \in DOMAIN metrics
         /\ IF \E i \in DOMAIN replies : replies[i].kind = "verdict"
            THEN Last.kind = "verdict" /\ metrics["judge_quality"].score = Last.score
            ELSE /\ Len(replies) = MaxAttempts \/ Last.kind = "fatal"
                 /\ metrics["judge_quality"] = Fallback

\* What an answer deserves before penalties: between the lowest and the highest of
\* its weighed scores, whichever evaluators have run.  After them the overall
\* quality is in 0..1, it is 0 for blocked content, and it never makes up for an
\* unsupported claim or an injection (pipeline.py:45-59).  Without a context
\* faithfulness and every claim count by half, and no answer is above 0.625: below
\* the 0.7 an experiment asks for by default.
QualityIsEarned ==
    stage = "done" =>
        LET marks == { metrics[n].score : n \in Weighed }
        IN  /\ overall \in 0..Scale
            /\ answer.blocked => overall = 0
            /\ 10 * overall <= Max({0, 10 * Max(marks) - Penalty})
            /\ ~answer.blocked => 10 * (overall + 1) > 10 * Min(marks) - Penalty
            /\ ~answer.grounded /\ ~answer.blank => 1000 * overall <= 625 * Scale

==============================================================================
