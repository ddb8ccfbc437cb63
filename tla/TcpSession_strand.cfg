CONSTANTS
    NumPayloads = 2
    LoopPayloads = {TRUE, FALSE}
    ReadMessages = TRUE
    Traffic = {"send", "flood"}
    SendCounts = {1, 2}
    MaxStarts = 1
    MaxMsgs = 2
SPECIFICATION NetSpec
INVARIANTS TypeOK SingleWriter SingleReader DisconnectOncePerStart NoLostWakeup DrainDelivers
PROPERTIES DrainClosesSends ClosedQuiesces ImplementsContract
CHECK_DEADLOCK FALSE
