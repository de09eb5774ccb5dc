\* Every request is answered or refused, and the clock stops.
CHECK_DEADLOCK FALSE
SPECIFICATION Spec
CONSTANTS
    Replicas = {r1}
    Requests = {q1, q2, q3}
    Names = {id, name}
    NoBudget = NoBudget
    Rules <- OneBudget
    Costs = {1}
    TTL = 1
    Window = 1
    MaxChanges = 1
    MaxTime = 2
SYMMETRY Symmetry
INVARIANTS
    SpendIsRespected
    RuleInForce
