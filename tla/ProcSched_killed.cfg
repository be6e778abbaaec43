SPECIFICATION FairSpec
CONSTANTS
    idleproc = idleproc
    initproc = initproc
    AnyPid = AnyPid
    User = {u1, u2}
    MaxTimeSlice = 1
    MaxSleep = 1
    BufSize = 1
PROPERTY
    KilledDies
