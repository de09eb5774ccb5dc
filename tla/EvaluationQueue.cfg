SPECIFICATION FairQueueSpec
CONSTANTS
    Traces = {t1, t2}
    Workers = {w1, w2}
    NoTrace = NoTrace
    StuckAfter = 1
    OrphanedAfter = 2
    MaxFaults = 2
INVARIANTS
    NeverEvaluatedTwice
    CompletedIsEvaluated
    QueuedOnce
PROPERTIES
    SettledForGood
    Settles
