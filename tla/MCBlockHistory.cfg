\* What the module promises, whatever its deploy wrote, reorganisations included.
SPECIFICATION Spec
CONSTANTS
    h1 = h1
    h2 = h2
    t1 = t1
    s1 = s1
    Hash = {h1, h2}
    NoHash = NoHash
    Time = {t1, t2}
    Epoch = Epoch
    Sender = {s1, s2}
    NoRow = NoRow
    MaxHeight = 3
    Depth = 2
    TipBound = 5
    Plantings <- AnyDeploy
INVARIANTS
    RowsAreForkConsistent
    LatestIsHighest
    OneEventPerRow
    AttestNeverAborts
    AcceptedRowsStand
PROPERTIES
    RowsArePermanent
    ImplementsRecord
