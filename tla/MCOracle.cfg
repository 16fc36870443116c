\* Reorganisations of at most 2 blocks.
SPECIFICATION Spec
CONSTANTS
    Label = {x, y}
    Missing = Missing
    Wrong = Wrong
    NoBlock = NoBlock
    Depth = 2
    Chunk = 2
    TopHeight = 5
    BlockBound = 8
SYMMETRY LabelSymmetry
INVARIANTS
    NoFalseAlarm
    VerdictLasts
    WalkIsUnbroken
CHECK_DEADLOCK FALSE
