----------------------------- MODULE MCSequential -----------------------------
(***************************************************************************)
(* The parts of the system that share no state with the rest.  One         *)
(* coroutine runs the first four of them from end to end: the verdict on a *)
(* rollout (MCRolloutPolicy), a request through its chain of models        *)
(* (FallbackChain), the evaluation of an answer (Evaluators) and an        *)
(* experiment (Experiment).  The fifth are the lookups of a corpus by the  *)
(* requests of one process (Retrieval).  A behaviour is one of these; the  *)
(* variables of the others stay as they are.                               *)
(***************************************************************************)
EXTENDS Integers, Sequences

CONSTANTS
    Parts,                                              \* what to run
    Scale,
    RateScale, Scores, GuardValues, MinSamples, MaxRequests,
    Models, NoModel, Fallbacks, MaxRetries,
    Answers, Judged, Marks, MaxAttempts,
    Runs, SampleSizes, Outcomes, Threshold,
    Datasets, Files, MaxRecords, Questions, Match, TopK, Capacity, Callers

VARIABLES
    part,
    seen, guards,
    chain, at, tries, calls, log, phase, trace,
    answer, judged, stage, metrics, replies, overall,
    size, traces, evaluated, progress, rows,
    corpora, indexes, lookups

verdictVars == << seen, guards >>
chainVars == << chain, at, tries, calls, log, phase, trace >>
answerVars == << answer, judged, stage, metrics, replies, overall >>
experimentVars == << size, traces, evaluated, progress, rows >>
corpusVars == << corpora, indexes, lookups >>
sequentialVars == << part, verdictVars, chainVars, answerVars, experimentVars, corpusVars >>

V == INSTANCE MCRolloutPolicy WITH Scale <- RateScale
C == INSTANCE FallbackChain
E == INSTANCE Evaluators WITH Scores <- Marks
X == INSTANCE Experiment WITH phase <- progress
D == INSTANCE Retrieval WITH rows <- corpora, Requests <- Callers

ASSUME SequentialAssumption ==
    V!PolicyAssumption /\ C!ChainAssumption /\ E!EvaluatorAssumption /\ X!ExperimentAssumption
    /\ D!RetrievalAssumption

------------------------------------------------------------------------------
(* Behaviours *)

\* A part that does not run is in one state.
SequentialInit ==
    /\ part \in Parts
    /\ IF part = "verdict" THEN V!Init ELSE seen = <<>> /\ guards = <<>>
    /\ IF part = "chain" THEN C!Init
       ELSE /\ chain = <<>> /\ at = 0 /\ tries = 0 /\ calls = <<>> /\ log = <<>>
            /\ phase = "none" /\ trace = <<>>
    /\ IF part = "answer" THEN E!Init
       ELSE /\ answer = <<>> /\ judged = FALSE /\ stage = "none" /\ metrics = <<>>
            /\ replies = <<>> /\ overall = 0
    /\ IF part = "experiment" THEN X!Init
       ELSE /\ size = <<>> /\ traces = <<>> /\ evaluated = <<>> /\ progress = <<>>
            /\ rows = <<>>
    /\ IF part = "retrieval" THEN D!Init
       ELSE corpora = <<>> /\ indexes = <<>> /\ lookups = <<>>

Verdict == /\ part = "verdict" /\ V!Next
           /\ UNCHANGED << part, chainVars, answerVars, experimentVars, corpusVars >>
Request == /\ part = "chain" /\ C!Next
           /\ UNCHANGED << part, verdictVars, answerVars, experimentVars, corpusVars >>
Evaluation == /\ part = "answer" /\ E!Next
              /\ UNCHANGED << part, verdictVars, chainVars, experimentVars, corpusVars >>
Experiments == /\ part = "experiment" /\ X!Next
               /\ UNCHANGED << part, verdictVars, chainVars, answerVars, corpusVars >>
Corpora == /\ part = "retrieval" /\ D!Next
           /\ UNCHANGED << part, verdictVars, chainVars, answerVars, experimentVars >>

SequentialNext == Verdict \/ Request \/ Evaluation \/ Experiments \/ Corpora

SequentialSpec == SequentialInit /\ [][SequentialNext]_sequentialVars

------------------------------------------------------------------------------
(* Inputs for TLC *)

\* Fallback lists without a repetition, and all of them.
Distinct == { f \in UNION { [1..n -> Models] : n \in 0..3 } :
                \A i, j \in DOMAIN f : f[i] = f[j] => i = j }
AnyList == UNION { [1..n -> Models] : n \in 0..2 }

\* In twentieths: below, at and between the thresholds; opposite texts too.
Sentences == { [whole |-> p[1], best |-> p[2]] :
                 p \in { <<-20, 0>>, <<11, 5>>, <<12, 12>>, <<10, 6>>, <<20, 20>> } }
Docs == { <<>>, << [answer |-> 5, question |-> 6] >>,
          << [answer |-> -3, question |-> 20], [answer |-> 20, question |-> -8] >> }
SomeAnswers ==
    { a \in [ blank : BOOLEAN, grounded : BOOLEAN, asked : {-6, 7, 20}, plain : {3},
              sentences : UNION { [1..n -> Sentences] : n \in 1..2 }, docs : Docs,
              blocked : BOOLEAN, injected : BOOLEAN, latency : {90}, cost : {101} ] :
        a.blank => Len(a.sentences) = 1 /\ ~a.blocked }

Result(ok, quality, hallucination, latency) ==
    [ ok |-> ok, quality |-> quality, faithfulness |-> quality, relevance |-> quality,
      hallucination |-> hallucination, latency |-> latency, cost |-> latency ]
SomeOutcomes ==
    { Result(FALSE, 0, 0, 0), Result(TRUE, 13, 10, 2), Result(TRUE, 14, 10, 5),
      Result(TRUE, 20, 0, 1) }

\* Uploads that are imported, with a line to skip too, and that are not.
File(format, lines) == [format |-> format, header |-> TRUE, lines |-> lines]
SomeFiles ==
    { File("jsonl", << "text", "blank", "bare" >>), File("csv", << "text", "text" >>),
      File("jsonl", << "text", "malformed" >>), File("jsonl", << "blank" >>),
      File("other", << "text" >>), [File("csv", << "text" >>) EXCEPT !.header = FALSE] }

\* The second record fits better.
SomeMatch == [q \in Questions |-> << 1, 2 >>]

------------------------------------------------------------------------------
(* Properties: those of the modules, of the part that runs *)

\* The verdict is the first gate that the requests themselves break
\* (MCRolloutPolicy).
VerdictIsExact == part = "verdict" => V!VerdictIsExact

\* The log of a request accounts for every call it made; calls to one model are
\* capped (resilient.py:4-9), and a request fails only when every model of its
\* chain has failed (FallbackChain).
CallsAreAccounted ==
    part = "chain" => C!AttemptsCapped /\ C!LogIsExact /\ C!AllWereTried

\* A failing model is charged once per request, whoever answered (FallbackChain).
FailuresCountOnce == part = "chain" => C!FailuresCountOnce

\* A model listed twice is called beyond the cap of its attempts.
AttemptsCapped == part = "chain" => C!AttemptsCapped

\* A request that was too long is no error of the model (FallbackChain).
OverflowIsNoError == part = "chain" => C!OverflowIsNoError

\* The judge leaves a verdict, and the fallback only for cause (Evaluators).
JudgeRules == part = "answer" => E!JudgeRules

\* Overall quality is what the evaluators that ran make of an answer (Evaluators).
QualityIsEarned == part = "answer" => E!QualityIsEarned

\* The rate that gates promotion counts every request against it (Experiment).
PassRateIsEarned == part = "experiment" => X!PassRateIsEarned

\* What is retrieved is the dataset's best, and up to date (Retrieval).
RetrievalIsFresh == part = "retrieval" => D!RetrievalIsFresh

\* A run that answered nothing is better on no metric (Experiment).
FailureIsNoGain == part = "experiment" => X!FailureIsNoGain

==============================================================================
