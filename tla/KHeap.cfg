CONSTANTS
    NPages = 5
    Frames = {1, 2, 3, 4}
    NoFrame = NoFrame
    InitFreeList <- MCInitFreeList
    UserPages = {u1}
    Sizes = {1, 2, 3, 6}
    MaxAllocs = 4
SPECIFICATION LFairSpec
INVARIANT FramesConserved BlocksIsolated
PROPERTY HeldBlocksUntouched ImplementsKHeap KmallocReturns
\* kmalloc can spin for ever (SearchForever): the kernel then really stops.
CHECK_DEADLOCK FALSE
