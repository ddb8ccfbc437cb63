CONSTANTS
    NumPayloads = 2
    LoopPayloads = TRUE
    ReadMessages = TRUE
    SendCounts = {1, 2}
    AllowFlood = TRUE
    MaxMsgs = 2
SPECIFICATION Spec
INVARIANTS OneSendOneReceive NoLostWakeup DrainDelivers
PROPERTIES DrainCloses ImplementsContract
CHECK_DEADLOCK FALSE
