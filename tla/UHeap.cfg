CONSTANTS
    NPages = 5
    DiskFrames = 3
    Sizes = {1, 2, 3, 6}
SPECIFICATION SSpec
INVARIANT TablesSound DiskConserved
PROPERTY HeldPagesKept ImplementsUHeap MallocAnswers
