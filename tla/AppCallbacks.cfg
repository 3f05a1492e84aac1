\* Three elements, so that a queue of four holds duplicates; one timer beside
\* the one a function stops.
SPECIFICATION AppSpec
CONSTANTS
    MaxTimers = 2
    Task = {commit, t2, t3}
    NoTask = NoTask
    MaxQueue = 4
    Commit = commit
    MaxDisplay = 3
CHECK_DEADLOCK FALSE
INVARIANT QueueInv
PROPERTY StoppedStays
PROPERTY StartedFires
PROPERTY ImplementsDefer
PROPERTY DisplaysCommitted
