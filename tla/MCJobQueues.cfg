SPECIFICATION Spec
CONSTANTS
    NumThreads = 2
    NumSessions = 3
    Producer = {p1, p2}
    PoolLimit = 1
    MaxPushes = 3
INVARIANTS TypeOK NoJobShared
PROPERTY ImplementsInbox
CHECK_DEADLOCK FALSE
