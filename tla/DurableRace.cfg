SPECIFICATION Spec
CONSTANTS
    Proc = {p1, p2, p3}
    MaxLand = 3
SYMMETRY Symmetry
INVARIANT FileKept
PROPERTY ImplementsAtomicFile
