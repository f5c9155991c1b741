CONSTANTS
    Exceptions <- AllExceptions
    IRQs <- KeyboardOnly
SPECIFICATION Spec
CHECK_DEADLOCK FALSE
INVARIANTS
    TypeOK
    HandlersGetTheirFrame
    NoReentry
PROPERTIES
    IrqRestoresScene
    IrqCompletes
