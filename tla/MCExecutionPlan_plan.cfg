CONSTANTS
    SettingsBlocks <- MCSettings
    ScriptActions <- MCActions
    FileSize <- MCFileSize
    HardwareConcurrency = 2
    MaxActions = 5
    SizeMod = 1024
    U32Mod = 256
    U16Mod = 4
    PathOf <- MCPathOf
    Addresses <- MCAddresses
    MaxDatagram = 11
SPECIFICATION Spec
INVARIANTS AcceptedScriptsAreOrdered PlanFollowsScript NoApplicationError PlanIsRunnable
CHECK_DEADLOCK FALSE
