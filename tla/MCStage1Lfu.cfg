CONSTANTS
    Images = {1, 2}
    Factory = 1
    Dead = {1}
    Hangs = {}
    Refused = {2}
    OnCard = 2
    Sent = {}
    StartTries = 3
    TrialBoots = 3
    Rounds = 2
    MaxInputs = 0
    MaxCuts = 0
    MaxFails = 0
SPECIFICATION Spec
PROPERTY SilentGetsRecovery
CHECK_DEADLOCK FALSE
