SPECIFICATION Spec
CONSTANTS
    BUFLEN = 12
    MAXARGS = 4
    Word = 256
    WHITESPACE <- MCWhitespace
    commands <- MCCommands
    Code <- MCCode
    PanicsBefore <- MCPanicsBefore
    PanicsAfter <- MCPanicsAfter
    Lines <- MCLines
INVARIANT AnswerRight
PROPERTY PromptReturns
CHECK_DEADLOCK FALSE
