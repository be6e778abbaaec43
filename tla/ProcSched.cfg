SPECIFICATION FairSpec
CONSTANTS
    idleproc = idleproc
    initproc = initproc
    AnyPid = AnyPid
    User = {u1, u2}
    MaxTimeSlice = 1
    MaxSleep = 2
    BufSize = 1
INVARIANTS
    NoAssertFails
    RunQueueExact
    NoLostWakeup
    StackRecordsOwned
    Forest
PROPERTIES
    ZombieReapedByParent
    TimersContract
    NoStarvation
    SleepersWake
    InitReaps
