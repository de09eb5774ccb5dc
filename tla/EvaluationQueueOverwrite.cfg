SPECIFICATION QueueSpec
CONSTANTS
    Traces = {t1}
    Workers = {w1, w2}
    NoTrace = NoTrace
    StuckAfter = 1
    OrphanedAfter = 2
    MaxFaults = 0
INVARIANTS
    EvaluatedIsCompleted
