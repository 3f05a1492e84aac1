\* Three connections: one publishes while two are parked.
SPECIFICATION Spec
CONSTANTS
    Conn = {c1, c2, c3}
    Client = {p1, p2}
    NoClient = NoClient
    Channel = {ch}
    Content = {x}
    NoMessage = NoMessage
    MaxMid = 2
INVARIANT SubsAreParked
INVARIANT NobodyWaitsInVain
INVARIANT StreamsExact
PROPERTY EveryoneIsTold
PROPERTY PublishedStays
CHECK_DEADLOCK FALSE
