CONSTANTS
    Token = {t1, t2}
    Message = {a, b, c}
    SeenLimit = 2
    HandlerFaults = TRUE
    Cancels = TRUE
SPECIFICATION AcceptingSpec
INVARIANTS TypeOK ConnectedUntilClosed BackoffGrows HandledOnce
PROPERTIES StopEnds ComesBack
CHECK_DEADLOCK FALSE
