CONSTANTS
    Blocks = {1, 2, 3}
    Places = {1, 2, 3, 4}
    Buffers = {1, 2}
    Depth = 2
    MaxEdits = 1
    MaxRuns = 1
    MaxFaults = 1
SPECIFICATION Spec
 
PROPERTIES UpdateKept CallerResident StatusTrue
