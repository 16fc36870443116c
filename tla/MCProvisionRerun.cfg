\* The script dies while it installs.
SPECIFICATION Spec
CONSTANTS
    Commit = {a, b}
    NoFile = NoFile
    Partial = Partial
    KillSteps = {"npm", "key"}
    Crashes = FALSE
    Meddles = FALSE
    RunBound = 2
SYMMETRY CommitSymmetry
INVARIANT SafeToRerun
CHECK_DEADLOCK FALSE
