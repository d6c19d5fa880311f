SPECIFICATION FairSpec
CONSTANTS
    Schedule = {sA}
    Event = {eA, eB}
    Delays = {0, 1}
    Recur = 1
    RetryAfter = 1
    InboxTurns = 1
    InboxRetained = 1
    MaxTime = 1
    MaxDue = 2
    MaxPosts = 1
    MaxCrashes = 1
    MaxProcesses = 1
    MaxPrograms = 1
    NoAlarm = NoAlarm
    NoRow = NoRow
CHECK_DEADLOCK FALSE
INVARIANTS
    FiredOnce
    AlarmCovers
    NoEventLost
PROPERTY DueIsServed
