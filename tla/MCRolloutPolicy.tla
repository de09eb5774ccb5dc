--------------------------- MODULE MCRolloutPolicy ---------------------------
(***************************************************************************)
(* Evidence arriving one request at a time on either arm, and the verdict  *)
(* RolloutPolicy gives on it, compared with a definition of the gates that *)
(* never divides and never cross-multiplies.                               *)
(***************************************************************************)
EXTENDS RolloutPolicy, FiniteSetsExt

CONSTANTS
    Scores,         \* the scores an evaluation may give
    GuardValues,    \* the values the three thresholds take
    MinSamples,     \* the values of min_sample_size
    MaxRequests     \* bound on the requests of one arm

Arms == {"challenger", "incumbent"}

\* Of the constants; assumed by the module that instantiates this one.
PolicyAssumption ==
    /\ Scale \in Nat \ {0}
    /\ Scores \subseteq 0..Scale
    /\ GuardValues \subseteq 0..Scale
    /\ MinSamples \subseteq Nat \ {0}
    /\ MaxRequests \in Nat

VARIABLES
    seen,   \* per arm: failed requests, requests without a score, and the
            \* number of requests of each score
    guards

vars == <<seen, guards>>

RequestsOf(s) ==
    s.failed + s.unscored + MapThenSumSet(LAMBDA q : s.scored[q], Scores)

WindowOf(s) ==
    [ requests |-> RequestsOf(s), errors |-> s.failed,
      evaluated |-> MapThenSumSet(LAMBDA q : s.scored[q], Scores),
      quality |-> MapThenSumSet(LAMBDA q : q * s.scored[q], Scores) ]

Verdict == JudgeChallenger(WindowOf(seen["challenger"]),
                           WindowOf(seen["incumbent"]), guards)

Init ==
    /\ seen = [a \in Arms |-> [ failed |-> 0, unscored |-> 0,
                                scored |-> [q \in Scores |-> 0] ]]
    /\ guards \in [ qualityFloor : GuardValues,
                    maxQualityRegression : GuardValues,
                    maxErrorRate : GuardValues, minSampleSize : MinSamples ]

Room(a) == RequestsOf(seen[a]) < MaxRequests

ObserveFailure(a) ==
    /\ Room(a)
    /\ seen' = [seen EXCEPT ![a].failed = @ + 1]
    /\ UNCHANGED guards

ObserveUnscored(a) ==
    /\ Room(a)
    /\ seen' = [seen EXCEPT ![a].unscored = @ + 1]
    /\ UNCHANGED guards

\* A new request that is scored already.
ObserveScored(a, q) ==
    /\ Room(a)
    /\ seen' = [seen EXCEPT ![a].scored[q] = @ + 1]
    /\ UNCHANGED guards

Next ==
    \E a \in Arms :
        \/ ObserveFailure(a)
        \/ ObserveUnscored(a)
        \/ \E q \in Scores : ObserveScored(a, q)

Spec == Init /\ [][Next]_vars

TypeOK ==
    /\ \A a \in Arms : WindowOf(seen[a]) \in ArmWindow
    /\ guards \in Guards

------------------------------------------------------------------------------
(***************************************************************************)
(* The gates as excesses added up over requests: a rate is over its limit  *)
(* when the requests exceed it on balance, and one average is more than r  *)
(* below another when, over all pairs of one score of each, the deficits   *)
(* beyond r outweigh the rest.                                             *)
(***************************************************************************)
ErrorExcess(s) ==
    s.failed * (Scale - guards.maxErrorRate)
      - (RequestsOf(s) - s.failed) * guards.maxErrorRate

FloorMargin(s) ==
    MapThenSumSet(LAMBDA q : s.scored[q] * (q - guards.qualityFloor), Scores)

PairMargin(c, i) ==
    MapThenSumSet(
        LAMBDA p : c.scored[p[1]] * i.scored[p[2]]
                     * (p[1] - p[2] + guards.maxQualityRegression),
        Scores \X Scores)

Enough(s) ==
    MapThenSumSet(LAMBDA q : s.scored[q], Scores) >= guards.minSampleSize

\* The verdict names the first gate of the module docstring's order
\* (rollout_policy.py:9-15) that the requests themselves break: rates and
\* averages are compared exactly, and a thin arm is never judged on quality.
VerdictIsExact ==
    LET c == seen["challenger"]
        i == seen["incumbent"]
    IN  /\ Verdict = "error_rate" <=> ErrorExcess(c) > 0
        /\ Verdict = "quality_floor" <=>
             ErrorExcess(c) <= 0 /\ Enough(c) /\ FloorMargin(c) < 0
        /\ Verdict = "quality_regression" <=>
             /\ ErrorExcess(c) <= 0
             /\ Enough(c)
             /\ FloorMargin(c) >= 0
             /\ Enough(i)
             /\ PairMargin(c, i) < 0

==============================================================================
