CONSTANTS
    Sec = 2
    TimeLimits = {1, 2, 3}
    CompileTimeout = 4
    Threads = 2
SPECIFICATION Spec
INVARIANTS
    TypeOK
    TimeoutIsJustified
    NoCrashFromCpuLimit
    OkIsClean
 
CHECK_DEADLOCK FALSE
