\* Each of the invariants is violated: check them one at a time.  A request and an
\* experiment end.
CHECK_DEADLOCK FALSE
SPECIFICATION SequentialSpec
CONSTANTS
    Parts = {"chain", "experiment"}
    Scale = 20
    RateScale = 4
    Scores = {0, 2, 3, 4}
    GuardValues = {0, 1, 3}
    MinSamples = {1, 2}
    MaxRequests = 3
    Models = {m1, m2, m3}
    NoModel = NoModel
    Fallbacks <- AnyList
    MaxRetries = 3
    Answers <- SomeAnswers
    Judged = {TRUE, FALSE}
    Marks = {0, 12, 20}
    MaxAttempts = 3
    Runs = {1, 2}
    SampleSizes = {0, 2, 3}
    Outcomes <- SomeOutcomes
    Threshold = 14
    Datasets = {"faq", "manual"}
    Files <- SomeFiles
    MaxRecords = 2
    Questions = {"q"}
    Match <- SomeMatch
    TopK = {1}
    Capacity = 1
    Callers = {1, 2}
INVARIANTS
    AttemptsCapped
    OverflowIsNoError
    FailureIsNoGain
