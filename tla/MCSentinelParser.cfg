SPECIFICATION ParserSpec
CONSTANTS
    underscore = underscore
    letter = letter
    CR = CR
    LF = LF
    Byte <- MCByte
    Sentinel <- MCSentinel
    MaxInput = 7
CHECK_DEADLOCK FALSE
INVARIANTS
    ParserTypeOK
PROPERTIES
    FiltersTerminal
