CONSTANTS
    Sessions = {s1, s2}
    Payloads <- MCPayloads
    Steps <- MCSteps
    Times = {5, 200}
    MaxFills = 2
    Byte = 2
    U64Mod = 256
SPECIFICATION Spec
INVARIANTS SlicesStayValid CounterSequence NumbersReadBack
CHECK_DEADLOCK FALSE
