SPECIFICATION ConnSpec
CONSTANTS
    MaxGen = 2
    MaxOutput = 0
    MaxQueue = 1
    MaxClicks = 3
    Impatient = TRUE
CHECK_DEADLOCK FALSE
INVARIANTS
    OnlineIsAuthenticated
