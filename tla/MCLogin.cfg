SPECIFICATION FairSpec
CONSTANTS
    DbWorker = {d1, d2}
    NumThreads = 2
    MaxTasks = 2
    NumSessions = 2
    MaxClients = 2
    Account = {"a"}
    Password = {"p", "q"}
    Nobody = Nobody
INVARIANTS NoSleepingOnWork   
 
CHECK_DEADLOCK FALSE
