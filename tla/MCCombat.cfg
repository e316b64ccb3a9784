SPECIFICATION FairSpec
CONSTANTS
    NumSessions = 2
    NumThreads = 2
    MaxHp = 2
    DamageOne = 1
    DamageAround = 2
    WheelSize = 2
    RespawnTicks = 2
    MaxLogins = 3
 
PROPERTIES RespawnOnTime 
