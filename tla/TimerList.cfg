SPECIFICATION Spec
SYMMETRY Symmetry
CONSTANTS
    Proc = {p1, p2, p3, p4}
    MaxSleep = 4
PROPERTY
    ImplementsTimers
