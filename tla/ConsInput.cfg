SPECIFICATION Spec
CONSTANTS
    Char = {a, b}
    NoChar = NoChar
    CONSBUFSIZE = 4
    KbdQueue = 2
    Mouse = Mouse
    MaxAhead = 5
INVARIANT RingIsQueue
PROPERTIES
    OldestFirst
    AllTypedRead
