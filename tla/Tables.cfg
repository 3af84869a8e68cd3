CONSTANTS
    Envs = {e1, e2}
    NRegions = 2
    NSlots = 3
    NPages = 2
    Frames = {f1, f2, f3, f4}
    NoFrame = NoFrame
    MaxRemoved = 1
SYMMETRY MCSymmetry
SPECIFICATION Spec
INVARIANT SpacesApart FreeMemExact NothingLost RequiredFramesExact
\* After a NULL table has been used the kernel is down.
CHECK_DEADLOCK FALSE
