SPECIFICATION Spec
CONSTANTS
    Attempt = {aA}
    NoAttempt = NoAttempt
    Lines = 3
    MaxRuns = 2
    Capacity = 2
    MaxCrashes = 2
    MaxFailures = 2
    MaxMissing = 1
CHECK_DEADLOCK FALSE
INVARIANTS
    ReportedOnce
    NothingSkipped
