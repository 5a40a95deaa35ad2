SPECIFICATION FairSpec
CONSTANTS
    MaxGen = 2
    MaxOutput = 0
    MaxQueue = 2
INVARIANTS
    TypeOK
    SessionIsWatched
    NoSilentEnd
    NoClientIsStranded
PROPERTIES
    ImplementsLifecycle
    EverySessionIsReported
