SPECIFICATION Spec
CONSTANTS
    NPages = 6
    MAX_ORDER = 2
    MaxHeld = 3
    MaxRuns = 1
    MaxRun = 4
    Cache <- Shapes
INVARIANTS
    EveryObjectOnce
    PagesOwned
    LayoutSound
