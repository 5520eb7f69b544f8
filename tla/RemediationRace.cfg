SPECIFICATION Spec
CONSTANTS
    Incidents = {i1}
    Requests = {r1, r2}
    Proposals = {p1}
    Tools <- AllTools
    Gated <- GatedTools
    ActionLists <- RcaLists
    MaxEvents = 4
    MaxFaults = 0
CHECK_DEADLOCK FALSE
SYMMETRY Symmetry
INVARIANT OneDecision
