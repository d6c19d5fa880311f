SPECIFICATION FairSpec
CONSTANTS
    Machine = {mA}
    NoMachine = NoMachine
    MaxAssignments = 2
    Capacity = 2
    StaleAfter = 1
    SweepDelay = 1
    MaxSuspended = 2
    MaxRestarts = 2
CHECK_DEADLOCK FALSE
INVARIANT HolderAgrees
PROPERTIES
    SilentBecomesStale
    CancelStopsRunner
