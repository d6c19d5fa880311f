SPECIFICATION Spec
CONSTANTS
    Message = {m1, m2, m3, m4}
    NoMessage = NoMessage
    MaxGen = 2
    QueueLimit = 2
    Notifying = {1}
    RouteDeny = FALSE
    MaxCrashes = 1
SYMMETRY Symmetry
CHECK_DEADLOCK FALSE
INVARIANTS
    OnlyNewestActive
    ServedOnce
    NoOrphanRunning
PROPERTY ImplementsRunSlot
