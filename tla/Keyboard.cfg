SPECIFICATION Spec
CONSTANTS
    Keyboards <- MCKeyboards
    QueueMax = 2
INVARIANT NoStuckModifier
PROPERTIES
    DecodesAsPressed
    ResetOnlyOnRequest
CHECK_DEADLOCK FALSE
