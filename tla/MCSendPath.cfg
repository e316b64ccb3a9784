CONSTANTS
    Sender = {s1, s2}
    Worker = {w1, w2}
    Limit = 2
    BatchMax = 2
    MaxSends = 6
SPECIFICATION FairSpec
INVARIANTS TypeOK OneSendAtATime NoOrphanInQueue NoReleaseInFlight EveryBufferInOnePlace QueueBounded
PROPERTIES ImplementsChannel TakenIsSent
CHECK_DEADLOCK FALSE
