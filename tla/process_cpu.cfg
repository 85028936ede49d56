CONSTANTS
    Sec = 4
    TimeLimits = {5}
    CompileTimeout = 4
    Threads = 1
SPECIFICATION Spec
INVARIANT OkWithinTimeLimit
CHECK_DEADLOCK FALSE
