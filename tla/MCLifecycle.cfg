SPECIFICATION FairSpec
CONSTANTS
    NumSessions = 2
    NumSockets = 3
    PreAccepts = 1
    Worker = {w1, w2}
    NumLogicThreads = 1
    MaxSends = 1
    Reuse = TRUE
    Timeouts = FALSE
    Logouts = FALSE
    Malformed = TRUE
    AcceptFails = TRUE
INVARIANTS OnePlace NoSessionLost  
PROPERTY SessionComesBack
CHECK_DEADLOCK FALSE
