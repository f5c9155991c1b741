CONSTANTS
    Exceptions <- SomeExceptions
    IRQs <- SomeIRQs
SPECIFICATION Spec
CHECK_DEADLOCK FALSE
INVARIANTS
    HandlerStackKept
