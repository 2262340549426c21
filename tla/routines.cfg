SPECIFICATION Spec
CONSTANTS
    LCD_WIDTH = 5
    LCD_HEIGHT = 4
    Points <- MCPoints
    WordMod = 1048576
    FONT_SIZE = 64
    Fonts <- MCFonts
    Texts <- MCTexts
    WORD = 2
    MemBytes = 6
    MaxCount = 4
    Contents <- MCContents
    WORDS = 4
    TURNS = 6
    IntMod = 256
    powers <- MCPowers
    Prints <- MCPrints
INVARIANTS
    LineInBox
    LineNearest
    LineUnbroken
    LoadsFace
    
    CopiesExactly
    ComparesBytes
    PrintsNumber
    UpdatesOneWord
PROPERTIES
    RoutinesReturn
