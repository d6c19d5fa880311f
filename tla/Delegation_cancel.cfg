SPECIFICATION FairSpec
CONSTANTS
    Task = {t1, t2}
    FanOut = 1
    Capacity = 2
    MaxFaults = 1
    NoTask = NoTask
CHECK_DEADLOCK FALSE
INVARIANTS
    DelTypeOK
    ConfirmedIsStopped
PROPERTIES
    CancelFreesConversation
    HalfSubmittedIsFreed
