SPECIFICATION Spec
CONSTANTS
    Scale = 4
    Apps = {a1}
    Traces = {t1, t2}
    Replicas = {w1, w2}
    Operators = {o1}
    NoOne = NoOne
    NoApp = NoApp
    Failed = Failed
    Unscored = Unscored
    MaxRollouts = 1
    InitialPcts = {10, 70}
    StepPct = 40
    MaxPct = 100
    Guard <- OneSample
    Scores = {1, 4}
    PinnedArms = {"challenger"}
    Grace = 1
    CommitLag = 0
    MaxTime = 3
    MaxFaults = 1
SYMMETRY Symmetry
INVARIANTS
    TrafficBacked
PROPERTIES
    AutoRollbackAnnounced
