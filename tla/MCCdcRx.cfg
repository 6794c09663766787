SPECIFICATION LiveSpec
CONSTANTS
    RingSize = 2
    IndexLimit = 4
    PacketSize = 2
    Slots = 4
    Drops = 2
    MaxByte = 6
INVARIANTS TypeOK NothingLost
PROPERTIES InOrder Arrives
CHECK_DEADLOCK FALSE
