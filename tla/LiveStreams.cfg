SPECIFICATION StreamsSpec
CONSTANTS
    MaxStream = 3
    MaxSteps = 5
CHECK_DEADLOCK FALSE
INVARIANTS
    StreamsTypeOK
    OneClient
    UndisturbedStreamsEnd
    LiveHasStream
    ButtonAgrees
