SPECIFICATION FairHealthSpec
CONSTANTS
    Parts = {"registry", "router"}
    Fleet = {m1}
    Operators = {o1}
    NoModel = NoModel
    Named = {}
    MinSample = 2
    MaxSample = 3
    Models = {1, 2}
    Profiles <- TwoAlike
    Preferred = {1}
    Prompts <- PlainAndRisky
    Scale = 20
    Rounding = 50
    Scores = {4}
    Latencies = {2}
    NoScore = NoScore
    Weights <- DefaultWeights
    Depth = 2
    MinSamples = 2
    Hour = 1
INVARIANT
    PinsStand
PROPERTIES
    NeverDominated
    OutageEnds
