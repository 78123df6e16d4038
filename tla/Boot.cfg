SPECIFICATION Spec
CONSTANTS
    Images <- MCImages
    SECTSIZE = 2
    ELFHDR = 2
    HeaderSize = 4
    A20Line = 8
    MemSize = 24
INVARIANTS
    ImageLoaded
    HeaderKept
PROPERTY Loads
CHECK_DEADLOCK FALSE
