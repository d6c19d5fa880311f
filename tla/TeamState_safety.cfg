SPECIFICATION TeamSpec
CONSTANTS
    Conv = {c1, c2}
    Team = Team
    Legacy = {c1}
    Title = {t1}
    Handler = {h1, h2}
    MaxRev = 1
    MaxEvents = 4
    MaxFaults = 1
SYMMETRY Symmetry
CHECK_DEADLOCK FALSE
INVARIANTS
    TeamTypeOK
    RevisionNamesContent
    ViewSettles
