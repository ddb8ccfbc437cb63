CONSTANTS
    NumShards = 3
    NumSessions = 5
    Actions <- MCActions
    EarlyStops = 1
    MayThrow = {0, 1}
SPECIFICATION Spec
INVARIANTS ReturnsAfterShards RoundOwnsHistories EachSessionOnce
PROPERTIES Terminates
CHECK_DEADLOCK FALSE
