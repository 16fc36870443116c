\* Two deploy runs that overlap: one may remove the file another has just recorded.
SPECIFICATION Spec
CONSTANTS
    Chain = {c1}
    Run = {r1, r2}
    Mode = {"unsigned", "direct"}
    Unanswered = FALSE
    Free = Free
    Copy = Copy
    NoFile = NoFile
    Ttl = 1
    TimeBound = 2
SYMMETRY RunSymmetry
INVARIANTS
    HeldIsProven
