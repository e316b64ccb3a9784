CONSTANTS
    BufferSize = 5
    HeaderSize = 2
    MaxPacketSize = 3
    PacketSizes = {2, 3, 4}
    MaxPackets = 3
    MaxConns = 2
    Window = 6
    SendFails = FALSE
SPECIFICATION Spec
INVARIANT FreeSlotKept
CHECK_DEADLOCK FALSE
