\* Ranges that begin above the heights that can be checked.
SPECIFICATION Spec
CONSTANTS
    Label = {x, y}
    Missing = Missing
    Wrong = Wrong
    NoBlock = NoBlock
    Depth = 2
    Chunk = 2
    TopHeight = 3
    BlockBound = 5
SYMMETRY LabelSymmetry
INVARIANTS
    ConsistentInspects
CHECK_DEADLOCK FALSE
