\* Everything an application may return, up to three chunks of two bytes.
CONSTANTS
    Kinds = {"list", "file", "iter", "empty_iter", "iterable", "none"}
    Block = 2
    MaxRetry = 1
    MaxLen = 2
    MaxChunks = 3
SPECIFICATION FairSpec
INVARIANT PrefixSent
INVARIANT StreamComplete
INVARIANT FileIsClosed
PROPERTY ResponseEnds
CHECK_DEADLOCK FALSE
