\* Every split of every request of up to 2 + 4 + 2 + 2 bytes, with clients
\* of every kind.
CONSTANTS
    MaxBuff = 5
    MaxHead = 2
    MaxBody = 2
    MaxSays = 4
    ClientFaults = {"other_case", "other_text", "early_eof"}
SPECIFICATION Spec
INVARIANT BodyExact
INVARIANT CompleteIsAnswered
CHECK_DEADLOCK FALSE
