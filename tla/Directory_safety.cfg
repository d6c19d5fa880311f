SPECIFICATION DirSpec
CONSTANTS
    Chat = {cD, c1}
    Default = cD
    Request = {r1, r2}
    ChatsPerOwner = 1
    Idle = Idle
    MaxMessages = 1
    MaxPushes = 2
    MaxFaults = 2
SYMMETRY Symmetry
CHECK_DEADLOCK FALSE
INVARIANTS
    DirTypeOK
    WithinLimit
    ListedIsOpen
    PreviewSettles
