CONSTANTS
    NEnvs = 2
    Frames = {f1, f2, f3, f4, f5}
    NoFrame = NoFrame
    Heap = {h1, h2}
    Stack = {s1}
    Top = s1
    Touches <- MCTouches
    WSMax <- MCWSMax
    Lengths = {0, 2}
    NoPage = NoPage
SYMMETRY Symmetry
SPECIFICATION Spec
INVARIANT FramesSound WSMatches ContentsKept
\* The model stops where the kernel breaks its own lists.
CHECK_DEADLOCK FALSE
