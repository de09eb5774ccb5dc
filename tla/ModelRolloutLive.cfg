SPECIFICATION FairSpec
CONSTANTS
    Scale = 4
    Apps = {a1}
    Traces = {t1, t2}
    Replicas = {w1, w2}
    Operators = {o1}
    NoOne = NoOne
    NoApp = NoApp
    Failed = Failed
    Unscored = Unscored
    MaxRollouts = 1
    InitialPcts = {10}
    StepPct = 50
    MaxPct = 100
    Guard <- TwoSamples
    Scores = {1}
    PinnedArms = {}
    Grace = 1
    CommitLag = 0
    MaxTime = 2
    MaxFaults = 1
INVARIANTS
    NoEvidenceSkipped
PROPERTIES
    ReadyIsDecided
