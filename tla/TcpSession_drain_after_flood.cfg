CONSTANTS
    NumPayloads = 2
    LoopPayloads = {FALSE}
    ReadMessages = FALSE
    Traffic = {"send", "flood"}
    SendCounts = {1, 2}
    MaxStarts = 1
    MaxMsgs = 0
SPECIFICATION NetSpec
PROPERTIES DrainCloses
CHECK_DEADLOCK FALSE
