SPECIFICATION Spec
SYMMETRY Symmetry
CONSTANTS
    Procs = {p1, p2}
    initproc = initproc
    FirstProc = p1
    NENTRY = 2
    MaxSize = 1
    MaxKept = 1
    Flags = {{}, {"O_WRONLY"}, {"O_WRONLY", "O_TRUNC"}, {"O_WRONLY", "O_APPEND"}, {"O_TRUNC"}, {"O_CREAT"}, {"O_CREAT", "O_EXCL"}, {"O_WRONLY", "O_RDWR"}}
    Paths <- MCPaths
INVARIANTS
    RefsAgree
CHECK_DEADLOCK FALSE
