CONSTANTS
    Receivers = {"ymodem", "ymrecv"}
    Blocks = 3
    PerBlock = 2
    Modulus = 4
    Retries = 3
    Polls = 3
    Attempts = 2
    MaxLosses = 2
    MaxTroubles = 2
SPECIFICATION Spec
INVARIANTS TakenIsWhole DoneIsWhole
  
CHECK_DEADLOCK FALSE
