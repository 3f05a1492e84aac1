CONSTANTS
    Kinds = {"file"}
    Block = 2
    MaxRetry = 1
    MaxLen = 2
    MaxChunks = 3
SPECIFICATION Spec
INVARIANT ClosedWhenSent
CHECK_DEADLOCK FALSE
