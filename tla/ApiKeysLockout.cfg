SPECIFICATION Spec
CONSTANTS
    Apps = {a1, a2}
    Requests = {r1, r2}
    MaxKeys = 3
    MaxTime = 1
    UseInterval = 1
    Graces = {0, 2}
    Issuable <- MCIssuable
    FirstKeys <- MCFirstKeys
    a1 = a1
    a2 = a2
    r1 = r1
    r2 = r2
SYMMETRY MCSymmetry
INVARIANTS
    AdminRemains
CHECK_DEADLOCK FALSE
