SPECIFICATION Spec
CONSTANTS
    User = {u1, u2, u3}
    Nobody = Nobody
    Invite = {i1, i2}
    Token = {t1}
    Request = {r1, r2}
    Idle = Idle
    MaxMachines = 3
SYMMETRY Symmetry
CHECK_DEADLOCK FALSE
INVARIANTS
    OwnerStays
    MembersWereInvited
    AdmitsOne
    SecondEnrollOverlaps
