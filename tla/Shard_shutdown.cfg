CONSTANTS
    NumSessions = 1
    ActionTypes = {"CONNECT"}
    MaxStarts = 1
    MaxActions = 1
    MaxPulls = 0
    MayThrow = FALSE
SPECIFICATION Spec
INVARIANTS ShutdownStopsSessions
CHECK_DEADLOCK FALSE
