\* Every request is over, and the clock stops.
CHECK_DEADLOCK FALSE
SPECIFICATION Spec
CONSTANTS
    m1 = m1
    m2 = m2
    Requests = {q1, q2}
    Models = {m1, m2}
    NoModel = NoModel
    Price <- TwoPrices
    Fallbacks <- OneFallback
    Questions = {x}
    NoRequest = NoRequest
    TTL = 1
    MaxChanges = 2
    MaxTime = 2
SYMMETRY Symmetry
INVARIANTS
    AnswerIsOwn
    ArmEvidence
    LostToExpiryOnly
