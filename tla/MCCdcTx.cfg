SPECIFICATION LiveSpec
CONSTANTS
    RingSize = 3
    IndexLimit = 6
    PacketSize = 2
    Codings = 1
    Resets = 1
    Closes = 1
    MaxByte = 6
INVARIANTS PacketIsNext NothingLost
PROPERTIES PutReturns Arrives ReadReturns
