SPECIFICATION Spec
CONSTANTS
    Models = {m1}
    Operators = {o1}
    NoModel = NoModel
    Preferred = {}
    MinSample = 1
    MaxSample = 1
PROPERTIES
    NeverOverridden
    PatchTakesEffect
