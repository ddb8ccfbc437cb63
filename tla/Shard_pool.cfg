CONSTANTS
    NumSessions = 2
    ActionTypes = {"CONNECT", "SEND", "DRAIN", "DISCONNECT"}
    MaxStarts = 2
    MaxActions = 3
    MaxPulls = 1
    MayThrow = TRUE
SPECIFICATION Spec
INVARIANTS ActiveSessionsExact ClosedReportedOnceAndLast ExitLeavesNoSession
PROPERTIES ImplementsContract
CHECK_DEADLOCK FALSE
