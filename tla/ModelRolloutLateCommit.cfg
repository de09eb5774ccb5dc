SPECIFICATION Spec
CONSTANTS
    Scale = 4
    Apps = {a1}
    Traces = {t1, t2}
    Replicas = {w1}
    Operators = {o1}
    NoOne = NoOne
    NoApp = NoApp
    Failed = Failed
    Unscored = Unscored
    MaxRollouts = 1
    InitialPcts = {10}
    StepPct = 50
    MaxPct = 100
    Guard <- OneSample
    Scores = {1, 4}
    PinnedArms = {"challenger"}
    Grace = 1
    CommitLag = 1
    MaxTime = 3
    MaxFaults = 0
SYMMETRY Symmetry
INVARIANTS
    NoEvidenceSkipped
