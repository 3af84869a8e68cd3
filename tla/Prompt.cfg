SPECIFICATION Spec
CONSTANTS
    CONSBUFSIZE = 3
    CRT_ROWS = 2
    CRT_COLS = 5
    PROMPT_LEN = 2
    BUFLEN = 4
    HISTORY_MAX = 0
    Commands <- MCCommands
    UserPrograms <- MCUserPrograms
    Programs = {p, q}
    PromptKeys <- MCPromptKeys
    ProgramKeys <- MCProgramKeys
    HoldKeys <- MCHoldKeys
    Beyond <- MCBeyond
    Starts <- MCStarts
    KbdMax = 2
    PlainKeys <- MCPlainKeys
    MaxStrokes = 8
    MaxReads = 3
    MaxLines = 3
INVARIANTS KeyboardSound LineAsShown
PROPERTIES AtomicLine
CHECK_DEADLOCK FALSE
