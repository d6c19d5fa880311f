SPECIFICATION FairSpec
CONSTANTS
    Message = {m1, m2}
    NoMessage = NoMessage
    MaxGen = 2
    QueueLimit = 1
    Notifying = {1}
    RouteDeny = TRUE
    MaxCrashes = 0
CHECK_DEADLOCK FALSE
PROPERTIES
    StopTakesEffect
    QueueDrains
