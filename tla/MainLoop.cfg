\* Two connections, two ids and the -1 of an id() the server cannot read: two
\* clients compete for an id, and one is served while the other is parked.
\* Safety is proved for any number.
SPECIFICATION FairSpec
CONSTANTS
    Conn = {c1, c2}
    NoConn = NoConn
    PyId = {p1, p2, minus1}
    NoId = NoId
    NotFound = minus1
    MaxRetry = 1
    MaxIter = 1
    AppFaults = {}
CHECK_DEADLOCK FALSE
INVARIANT TypeOK
INVARIANT NoDanglingPointer
INVARIANT OneDriver
INVARIANT RegistryExact
INVARIANT OneHeader
PROPERTY AnsweredNeverExpires
PROPERTY RequestsEnd
PROPERTY ImplementsDeferredResponse
