CONSTANTS
    BufferSize = 5
    HeaderSize = 2
    MaxPacketSize = 3
    PacketSizes = {1, 2, 3, 4}
    MaxPackets = 3
    MaxConns = 2
    Window = 3
    SendFails = TRUE
SPECIFICATION FairSpec
   
PROPERTIES CleanCloseLosesNothing PacketsBecomeJobs
CHECK_DEADLOCK FALSE
