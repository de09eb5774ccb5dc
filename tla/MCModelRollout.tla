---------------------------- MODULE MCModelRollout ----------------------------
(* Small instances of ModelRollout for TLC. *)
EXTENDS ModelRollout, TLC

\* The guard rails of every rollout: floor 50%, regression 25%, errors 50%.
GuardOf(n) == [ qualityFloor |-> 2, maxQualityRegression |-> 1,
                maxErrorRate |-> 2, minSampleSize |-> n ]
OneSample == GuardOf(1)
TwoSamples == GuardOf(2)

Symmetry == Permutations(Traces) \cup Permutations(Replicas) \cup Permutations(Operators)

==============================================================================
