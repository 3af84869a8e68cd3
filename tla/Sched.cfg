CONSTANTS
    Envs = {1, 2, 3, 4}
    NoEnv = NoEnv
    InitFree <- MCInitFree
SPECIFICATION FairSpec
INVARIANT QueuesSound
PROPERTY NoOvertaking SelfCheckHolds ReadyRuns ImplementsLife
\* The kernel stops when it follows a NULL curenv.
CHECK_DEADLOCK FALSE
