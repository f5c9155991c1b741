CONSTANTS
    Boots <- SmallBoots
    BUFFER_HEIGHT = 3
    BUFFER_WIDTH = 3
    NewRow = 2
    MaxTicks = 3
    MaxKeys = 2
    MemoryMaps <- SmallMaps
SPECIFICATION Spec
INVARIANTS
    TypeOK
    NeverSpins
    ScreenShowsLog
    PrintsAreWhole
    WritersOverlaid
    FramesDistinct
PROPERTIES
    EveryScancodeRead
    TestsPass
