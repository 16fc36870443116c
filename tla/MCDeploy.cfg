\* One chain, one deploy run at a time, unsigned or direct, and a send; a lookup may
\* fail, and a copy may land at any time.
SPECIFICATION Spec
CONSTANTS
    Chain = {c1}
    Run = {r1}
    Mode = {"unsigned", "direct"}
    Unanswered = TRUE
    Free = Free
    Copy = Copy
    NoFile = NoFile
    Ttl = 1
    TimeBound = 3
INVARIANTS
    OneLiveCommand
    LosesOnlyToACopy
    LostIsNotOurs
    ProofIsNeverLost
PROPERTIES
    ImplementsRace
