SPECIFICATION Spec
CONSTANTS
    Incidents = {i1}
    Requests = {r1, r2}
    Proposals = {p1, p2}
    Tools <- AllTools
    Gated <- GatedTools
    ActionLists <- RcaLists
    MaxEvents = 4
    MaxFaults = 1
CHECK_DEADLOCK FALSE
SYMMETRY Symmetry
INVARIANTS
    GatedRunApproved
    OutcomeJustified
PROPERTIES
    ImplementsLifecycle
