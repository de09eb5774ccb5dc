---------------------------- MODULE RolloutPolicy ----------------------------
(***************************************************************************)
(* The guard-rail judgement shared by every progressive rollout of         *)
(* SentinelLLM (services/rollout_policy.py): model canaries and prompt     *)
(* canaries judge their challenger by the same three gates and step        *)
(* traffic by the same rule.                                               *)
(*                                                                         *)
(* Rates and scores are fractions in the code.  Here they are integers out *)
(* of Scale, and a quotient is never formed: every comparison of averages  *)
(* is cross-multiplied, which is exact.  (The code compares IEEE doubles;  *)
(* the rounding of a quotient is abstracted away.)                         *)
(***************************************************************************)
EXTENDS Integers

CONSTANT Scale      \* the integer that stands for 1.0 (100%)

ASSUME ScaleAssumption == Scale \in Nat \ {0}

(***************************************************************************)
(* ArmWindow: one arm's traffic over an evidence window.  quality is the   *)
(* sum of the scores of the evaluated requests.                            *)
(***************************************************************************)
ArmWindow ==
    { w \in [requests : Nat, errors : Nat, evaluated : Nat, quality : Nat] :
        /\ w.errors <= w.requests
        /\ w.evaluated <= w.requests
        /\ w.quality <= Scale * w.evaluated }

Guards ==
    [ qualityFloor : 0..Scale, maxQualityRegression : 0..Scale,
      maxErrorRate : 0..Scale, minSampleSize : Nat \ {0} ]

\* The average quality of an arm counts only with enough evaluated requests.
QualityKnown(w, g) == w.evaluated >= g.minSampleSize

\* Mutant: the rate is taken over evaluated requests.
ErrorRateExceededMutant(w, g) == w.errors * Scale > g.maxErrorRate * w.evaluated

\* error_rate > max_error_rate; an empty window has rate 0.
ErrorRateExceeded(w, g) == w.errors * Scale > g.maxErrorRate * w.requests

BelowFloor(w, g) == w.quality < g.qualityFloor * w.evaluated

\* challenger average < incumbent average - max_quality_regression
Regressed(c, i, g) ==
    c.quality * i.evaluated
      < (i.quality - g.maxQualityRegression * i.evaluated) * c.evaluated

\* Which gate the challenger violates, the gates tried in the code's order.
JudgeChallenger(c, i, g) ==
    IF ErrorRateExceeded(c, g) THEN "error_rate"
    ELSE IF QualityKnown(c, g) /\ BelowFloor(c, g) THEN "quality_floor"
    ELSE IF QualityKnown(c, g) /\ QualityKnown(i, g) /\ Regressed(c, i, g)
    THEN "quality_regression"
    ELSE "none"

\* (new traffic, reached the ceiling): one step up, capped at the ceiling.
NextTraffic(current, step, ceiling) ==
    LET new == IF current + step < ceiling THEN current + step ELSE ceiling
    IN  [traffic |-> new, promoted |-> new >= ceiling]

==============================================================================
