SPECIFICATION Spec
CONSTANTS
    CRT_ROWS = 2
    CRT_COLS = 2
    Glyph <- MCGlyph
    Printable <- MCPrintable
    BiosText <- MCBiosText
    NoSerial <- MCNoSerial
    Polls = 2
INVARIANT LinesCarryText
PROPERTIES
    ImplementsTerminal
    CallsReturn
