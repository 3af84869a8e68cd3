CONSTANTS
    LongBits = 8
    MAX_ARGUMENTS = 3
    PRINTBUF = 4
    PtrStep = 4
    SECTSIZE = 3
    NENV = 6
    ENVGENSHIFT = 3
    Jobs <- IdJobs
SPECIFICATION Spec
INVARIANT EveryIdFound
CHECK_DEADLOCK FALSE
