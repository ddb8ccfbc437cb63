CONSTANTS
    Threads = {"main", "orchestrator", "shards"}
    MaxLogged = 2
SPECIFICATION Spec
INVARIANTS NoMissedNotify HeldWhilePaused OnlyAcknowledgedTraffic ThreadOutlived EverythingPrinted
PROPERTIES RunEnds
CHECK_DEADLOCK FALSE
