SPECIFICATION Spec
SYMMETRY Symmetry
CONSTANTS
    Proc = {idle, p1, p2}
    Idle = idle
    Mm = {m1, m2}
    Frames = {1,2,3,4,5,6,7,8,9,10,11,12}
    Slots = {0, 1}
    PTPages = 4
    UserPages = 8
    StackPages = 2
    MaxArgs = 2
    Programs <- MCPrograms
    Touched = {1, 2, 6}
    MaxForks = 1
    MaxExecs = 2
    None = None
    Boot = Boot
INVARIANTS
    FramesAccounted
    TlbCoherent
    ReadsOwnWrites
    AreasSound
    PanicsOnlyWithoutMemory
CHECK_DEADLOCK FALSE
