SPECIFICATION FairSpec
CONSTANTS
    Task = {t1}
    MaxAttempts = 2
    RetryGeneration = 2
    Ttl = 2
    AlarmDelay = 1
    MaxSuspended = 2
    MaxRestarts = 1
CHECK_DEADLOCK FALSE
INVARIANTS
    OnlyNewestLive
    StatusAgrees
PROPERTIES
    EndedAttemptIsFinal
    ExpiredIsCollected
