CONSTANTS
    Images = {1, 2, 3, 4}
    Factory = 1
    Dead = {2}
    Hangs = {4}
    Refused = {}
    OnCard = 2
    Sent = {3, 4}
    StartTries = 2
    TrialBoots = 2
    Rounds = 2
    MaxInputs = 3
    MaxCuts = 1
    MaxFails = 1
SPECIFICATION Spec
PROPERTIES RequestKept ConfirmIsOwn RecoveryHasReason EscapeWorks  
CHECK_DEADLOCK FALSE
