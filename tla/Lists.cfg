CONSTANTS
    Heads = {new, ready, free}
    Elems = {e1, e2, e3}
    Null = Null
SPECIFICATION Spec
INVARIANT WellLinked
PROPERTY ImplementsLists
