SPECIFICATION Spec
CONSTANTS
    Body = {b1, b2}
    MaxRows = 3
    Flusher = {f1, f2}
    NoFlusher = NoFlusher
    MaxEpoch = 3
    MaxCrashes = 1
    MaxFailures = 2
SYMMETRY Symmetry
CHECK_DEADLOCK FALSE
INVARIANTS
    AckedIsPublished
    InOrder
