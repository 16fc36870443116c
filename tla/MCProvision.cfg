\* The script dies anywhere but while it rewrites .env, and the feeder crashes.
SPECIFICATION Spec
CONSTANTS
    Commit = {a, b}
    NoFile = NoFile
    Partial = Partial
    KillSteps = {"checkout", "deps", "npm", "typecheck", "env", "key", "service", "verify", "stream"}
    Crashes = TRUE
    Meddles = FALSE
    RunBound = 3
SYMMETRY CommitSymmetry
INVARIANTS
    RunningFeederIsUpdated
    HeartbeatKept
    StoppedStaysStopped
CHECK_DEADLOCK FALSE
