SPECIFICATION Spec
CONSTANTS
    Scale = 4
    Apps = {a1, a2}
    Traces = {}
    Replicas = {w1, w2}
    Operators = {o1, o2}
    NoOne = NoOne
    NoApp = NoApp
    Failed = Failed
    Unscored = Unscored
    MaxRollouts = 3
    InitialPcts = {60}
    StepPct = 50
    MaxPct = 100
    Guard <- OneSample
    Scores = {1}
    PinnedArms = {"challenger"}
    Grace = 1
    CommitLag = 0
    MaxTime = 0
    MaxFaults = 1
SYMMETRY Symmetry
INVARIANTS
    ServedRollout
    Isolation
PROPERTIES
    LifecycleSpec
