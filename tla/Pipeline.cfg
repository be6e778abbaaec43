SPECIFICATION Spec
CONSTANTS
    W = 4
    Reg <- MCReg
    Link = 3
    TlbVector = 8
    Vector = 12
    MissingPage = {2}
    Programs <- All
    InitialReg <- MCInitialReg
    InitialRam <- MCInitialRam
    MaxIrq = 1
    Skip = TRUE
INVARIANTS
    InOrder
    StateAgrees
PROPERTY
    Progress
