SPECIFICATION FairSpec
CONSTANTS
    Proc = {p1, p2, p3, p4}
    Permits = 2
INVARIANTS
    DownSucceeds
    PermitsConserved
    NoLostWakeup
PROPERTIES
    NoOvertaking
    WaitersEnter
