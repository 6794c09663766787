SPECIFICATION Spec
CONSTANTS
    RingSize = 4
    IndexLimit = 8
    PacketSize = 2
    Codings = 1
    Resets = 0
    Closes = 1
    MaxByte = 5
INVARIANTS HeldAppears
