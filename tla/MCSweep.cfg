\* Requests go unanswered, runs die, transfers expire, the feeder comes back.
SPECIFICATION Spec
CONSTANTS
    Chain = {c1, c2}
    Fee = 2
    Funds = {0, 2, 3, 7}
    Nothing = Nothing
    RunBound = 2
SYMMETRY ChainSymmetry
INVARIANTS
    CompleteMeansSwept
    NoTransferBurnsGas
    CalmRunsSucceed
