SPECIFICATION Spec
CONSTANTS
    Formats <- MCFormats
    Sizes = {0, 1, 4, 7}
    MemSize = 8
    IntMod = 16
    LongLongMod = 64
    Ints <- MCInts
    LongLongs <- MCLongLongs
    Chars <- MCChars
    Strings <- MCStrings
    Codes <- MCCodes
    error_string <- MCErrors
    NULL = NULL
INVARIANTS
    PrintsAsDirected
    OwnReadings
    BufferBounded
PROPERTY Finishes
CHECK_DEADLOCK FALSE
