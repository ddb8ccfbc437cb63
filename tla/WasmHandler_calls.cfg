CONSTANTS
    Word = 8
    MemorySizes = {4, 8}
    Headers = {0, 1}
    Bodies = {0, 2}
    Guests = {"honest", "any"}
    MaxCalls = 2
SPECIFICATION HandlerSpec
INVARIANTS AnsweredOnce GuestBlocksBalanced
PROPERTIES HostStaysInMemory
CHECK_DEADLOCK FALSE
