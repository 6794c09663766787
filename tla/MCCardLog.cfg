CONSTANTS
    Logs = 3
    Blocks = 4
    PerCluster = 2
    Clusters = 6
    Bits = 3
    DirSectors = 3
    Slots = 4
    MAX_OPEN = 1
    MaxCuts = 2
    MaxFails = 1
SPECIFICATION Spec
INVARIANTS FilesDisjoint RecoveredExact
PROPERTY RecoverEnds
