\* Two browsers, two requests at a time, a clock that runs past the expiry.
SPECIFICATION Spec
CONSTANTS
    Browser = {b1, b2}
    Request = {r1, r2}
    Id = {i1, i2}
    NoId = NoId
    Key = {k1}
    Value = {v1, v2}
    NoValue = NoValue
    MaxAge = 2
    Second = 2
    MaxTime = 5
SYMMETRY Symmetry
INVARIANT OwnDataOnly
INVARIANT NothingAfterExpiry
INVARIANT ReadsLastWrite
CHECK_DEADLOCK FALSE
