SPECIFICATION MCFairSpec
CONSTANTS
    Clients = {c1, c2}
    Promoters = {c1, c2}
    NoOne = NoOne
    MaxVersion = 2
    MaxExperiments = 2
    Relabels = {"deprecated", "production"}
    Scale = 100
    MaxRollouts = 2
    InitialPct = 10
    StepPct = 60
    MaxPct = 100
INVARIANTS
    ProductionIsEarned
    RolloutDecides
PROPERTIES
    DeprecatedIsPulled
