CONSTANTS
    LongBits = 8
    MAX_ARGUMENTS = 3
    PRINTBUF = 4
    PtrStep = 4
    SECTSIZE = 3
    NENV = 6
    ENVGENSHIFT = 3
    Jobs <- MCJobs
SPECIFICATION Spec
INVARIANTS LibraryExact SymbolFound BootSafe IdNamesOne CallsArrive SortsAll
CHECK_DEADLOCK FALSE
