\* Each of the two is violated: check them one at a time.
SPECIFICATION MCSpec
CONSTANTS
    Clients = {c1}
    Promoters = {c1}
    NoOne = NoOne
    MaxVersion = 2
    MaxExperiments = 1
    Relabels = {"deprecated"}
    Scale = 100
    MaxRollouts = 1
    InitialPct = 10
    StepPct = 90
    MaxPct = 50
INVARIANTS
    PromotedIsPinned
PROPERTIES
    DeprecatedNeverWins
