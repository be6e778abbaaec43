CONSTANTS
    Byte = {0, 1}
    InitialWord <- MCInitialWord
    RamAddresses <- MCRamAddresses
    DeviceAddresses <- MCDeviceAddresses
    ByteLanes = {1}
SPECIFICATION LiveSpec
INVARIANTS
    AnswersOwnRead
    StartWhenIdle
PROPERTIES
    PulseFramed
    AlwaysReady
