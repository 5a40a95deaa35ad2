SPECIFICATION FairConnSpec
CONSTANTS
    MaxGen = 2
    MaxOutput = 1
    MaxQueue = 1
    MaxClicks = 3
    Impatient = FALSE
CHECK_DEADLOCK FALSE
INVARIANTS
    ConnTypeOK
    OnlineIsAuthenticated
    SettledOnlineIsLive
    SettledOfflineHasNoShell
    AuthenticationIsNotLost
PROPERTIES
    GoesOnlineAuthenticated
    ConnectingSettles
