CONSTANTS
    P = 4
    Width = 64
    TableSpan = 4
    StackPage = 15
    Programs <- MCPrograms
    WSSizes = {1, 2, 4, 9}
    DebugVA = 0
    Cap = 1
    TWSMax = 3
    NFrames = 24
    NDisk = 10
SPECIFICATION Spec
INVARIANT FileHasProgram MemoryMatches
PROPERTY CreationEnds
\* The model ends when env_create returns or panics.
CHECK_DEADLOCK FALSE
