CONSTANTS
    SettingsBlocks <- MCSettings
    ScriptActions <- MCDescending
    FileSize <- MCFileSize
    HardwareConcurrency = 2
    MaxActions = 3
    SizeMod = 1024
    U32Mod = 256
    U16Mod = 4
    PathOf <- MCPathOf
    Addresses <- MCAddresses
    MaxDatagram = 11
SPECIFICATION Spec
INVARIANTS PayloadsReplaceBytes
CHECK_DEADLOCK FALSE
