SPECIFICATION Spec
CONSTANTS
    CRT_ROWS = 3
    CRT_COLS = 2
    BUFLEN = 4
    Glyph <- MCGlyph
    Key <- MCKey
    Prompt <- MCPrompt
    DEL = "del"
INVARIANT ScreenShowsLine
PROPERTY ErasedIsBlank
