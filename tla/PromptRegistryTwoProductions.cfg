SPECIFICATION RegistrySpec
CONSTANTS
    Clients = {c1, c2}
    Promoters = {c1, c2}
    NoOne = NoOne
    MaxVersion = 3
    MaxExperiments = 5
    Relabels = {}
INVARIANTS
    OneProduction
