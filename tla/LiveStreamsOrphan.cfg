SPECIFICATION StreamsSpec
CONSTANTS
    MaxStream = 3
    MaxSteps = 5
CHECK_DEADLOCK FALSE
INVARIANTS
    StreamsEndWithConnection
