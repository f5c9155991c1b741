CONSTANTS
    Pins <- TimerKeyboardRtc
    MaxKeys = 3
    MaxNest = 3
SPECIFICATION Spec
INVARIANTS
    TypeOK
    OnlyKeyboardAndSpurious
    NothingLeftInService
PROPERTIES
    AcknowledgesItsOwn
    EveryScancodeRead
