SPECIFICATION FairSpec
CONSTANTS
    Incidents = {1}
    Workers = {w1}
    Operators = {o1}
    MaxAttempts = 3
    Proposals = {1, 2}
    Tools <- AllTools
    Gated <- GatedTools
    ManualActions <- ByHand
    MaxHints = 1
    MaxCrashes = 1
    MaxStops = 1
INVARIANTS
    RcaFollows
    WaitingAccounted
PROPERTIES
    IdentifiedReachesHuman
    ImplementsLifecycle
