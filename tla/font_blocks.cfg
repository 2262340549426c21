SPECIFICATION FontSpec
CONSTANTS
    LCD_WIDTH = 5
    LCD_HEIGHT = 4
    Points <- MCPoints
    WordMod = 1048576
    FONT_SIZE = 64
    Fonts <- MCFonts
    Texts <- MCTexts
INVARIANT
    WritesStayInBlocks
