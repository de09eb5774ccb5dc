SPECIFICATION FairSpec
CONSTANTS
    quality = quality
    hallucination = hallucination
    w1 = w1
    w2 = w2
    Replicas = {w1, w2}
    NoOne = NoOne
    Rules = {error_rate}
    Apps = {a1}
    Metrics = {quality, hallucination}
    Rising = {hallucination}
    MaxTraces = 3
    Evaluations <- TwoFindings
    Size = 1
    MinTraces = 1
    ThresholdPct <- Thresholds
    Floor = 1
    Dedupe = 1
    MaxChanges = 2
    MaxTime = 2
    MaxFaults = 1
INVARIANTS
    OncePerWindow
    RegressionIsJudgedFairly
PROPERTIES
    BreachIsRaised
