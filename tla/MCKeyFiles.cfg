\* One key file and one backup of it, two processes, two keys, on a devnet and off it.
SPECIFICATION Spec
CONSTANTS
    live = live
    b1 = b1
    p1 = p1
    p2 = p2
    k1 = k1
    k2 = k2
    Path = {live}
    BackupPath = {b1}
    Process = {p1, p2}
    Key = {k1, k2}
    NoFile = NoFile
    Torn = Torn
SYMMETRY Interchangeable
INVARIANTS
    AnnouncedIsKept
    ActsUnderHeldKeys
    SavedIsRestorable
    RestoredWasSaved
CHECK_DEADLOCK FALSE
