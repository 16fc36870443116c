\* The feeder crashes just before an update.
SPECIFICATION Spec
CONSTANTS
    Commit = {a, b}
    NoFile = NoFile
    Partial = Partial
    KillSteps = {}
    Crashes = TRUE
    Meddles = FALSE
    RunBound = 2
SYMMETRY CommitSymmetry
INVARIANT UpdateTakesEffect
CHECK_DEADLOCK FALSE
