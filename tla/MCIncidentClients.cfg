SPECIFICATION Spec
CONSTANTS
    Clients = {c1, c2, c3}
    Incidents = {i1}
    Targets <- CalledTargets
    MaxEvents = 4
SYMMETRY Symmetry
INVARIANTS
    TimelineChain
    OneWinner
    ListedInCommitOrder
PROPERTIES
    ImplementsLifecycle
