CONSTANTS
    IntBits = 4
    LongBits = 8
    Chars <- AllChars
    XResolution = 8
    YResolution = 12
    XCharSize = 2
    YCharSize = 5
    TabStop = 2
    Mapped = 168
    BufSize = 18
    Scripts <- AllScripts
    HandlerCalls <- Handlers
    INTERRUPT_DEBUG = TRUE
SPECIFICATION Spec
INVARIANTS
    TypeOK
    CursorOnScreen
    GlyphsInVideoMemory
    TextIsWhole
    NumbersReadBack
