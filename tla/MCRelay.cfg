\* Any two of the files, two chains, runs of every mode, and strangers.
SPECIFICATION Spec
CONSTANTS
    c1 = c1
    c2 = c2
    Chain = {c1, c2}
    NoChain = NoChain
    Free = Free
    Offered <- SomeFiles
    Ttl = 0
    TimeBound = 1
INVARIANTS
    OwnershipIsEarned
    SignedIsOurs
    RelayedIsJudged
    ChecksLeakNothing
    RerunSkipsWhatLanded
CHECK_DEADLOCK FALSE
