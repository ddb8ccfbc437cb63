\* Nine pairs of blocks in either order, whole or after one edit.
SPECIFICATION Spec
CONSTANTS
    Scripts <- MCScripts
    Strays <- MCStrays
    IntMax = 2999
    MaxPort = 100
    MsRests = {"ms"}
    SecondRests = {"s", "xs"}
    DEFAULT_OFFSET_MS = 250
    Unset = Unset
INVARIANTS ParsedAsWritten
PROPERTIES ParseAnswers
CHECK_DEADLOCK FALSE
