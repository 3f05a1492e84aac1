\* All sequences of up to two header lines, the malformed ones included.
CONSTANTS
    MaxHeaders = 2
    Malformed = {"blank_value", "no_colon"}
SPECIFICATION HeaderSpec
INVARIANT DictExact
CHECK_DEADLOCK FALSE
