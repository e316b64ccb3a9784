CONSTANTS
    Sender = {s1, s2}
    Worker = {w1, w2}
    Limit = 1
    BatchMax = 2
    MaxSends = 4
    MaxConns = 2
SPECIFICATION TeardownSpec
INVARIANTS QueuedBuffersAreOurs SentAtMostOnce
CHECK_DEADLOCK FALSE
