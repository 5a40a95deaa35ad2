SPECIFICATION ConnSpec
CONSTANTS
    MaxGen = 2
    MaxOutput = 1
    MaxQueue = 1
    MaxClicks = 2
    Impatient = FALSE
CHECK_DEADLOCK FALSE
INVARIANTS
    FlushTerminates
