\* Each of the two is violated: check them one at a time.  A model that is down is no
\* pin to the budget guard; two hits of an entry overlap.  Every request is over at last.
CHECK_DEADLOCK FALSE
SPECIFICATION Spec
CONSTANTS
    m1 = m1
    m2 = m2
    Requests = {q1, q2, q3}
    Models = {m1, m2}
    NoModel = NoModel
    Price <- TwoPrices
    Fallbacks <- OneFallback
    Questions = {x}
    NoRequest = NoRequest
    TTL = 1
    MaxChanges = 1
    MaxTime = 1
INVARIANTS
    NeverDearer
PROPERTIES
    NoHitIsLost
