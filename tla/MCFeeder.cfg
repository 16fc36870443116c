\* One chain and one extra host: what is counted, and what must happen, whatever
\* the node does.
SPECIFICATION FairSpec
CONSTANTS
    Chain = {c1}
    Host = {a}
    WAITING = TRUE
    MAX_INFLIGHT = 1
    SAMPLE_POLL = 2
    MaxDelay = 2
    TopHeight = 1
    AttestBound = 3
INVARIANTS
    EveryAttestIsCounted
    EverySendIsCounted
    OneReactivePerHeight
    TimersOnlyWhileConnected
    
PROPERTIES
    WaitingIsAnchored
    AttestsEnd
    StopEnds
    StreamComesBack
    HeadersAreClaimed
CHECK_DEADLOCK FALSE
