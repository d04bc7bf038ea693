\* One request, all interleavings of its two goroutines.
CONSTANTS
    None = None
    HandlerCodes = {201, 409}
SPECIFICATION LiveSpec
CHECK_DEADLOCK FALSE
INVARIANTS
    TypeOK
    AnswerIntact
    StatusRecorded
PROPERTIES
    RequestServed
    PanicEnds
