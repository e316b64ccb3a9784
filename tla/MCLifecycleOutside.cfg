SPECIFICATION Spec
CONSTANTS
    NumSessions = 2
    NumSockets = 2
    PreAccepts = 1
    Worker = {w1, w2}
    NumLogicThreads = 1
    MaxSends = 0
    Reuse = FALSE
    Timeouts = TRUE
    Logouts = TRUE
    Malformed = FALSE
    AcceptFails = TRUE
INVARIANT OnePlace
CHECK_DEADLOCK FALSE
