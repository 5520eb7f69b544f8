SPECIFICATION Spec
CONSTANTS
    Incidents = {1}
    Workers = {w1, w2}
    MaxAttempts = 3
    OutsideTargets <- RemediationTargets
    MaxEvents = 5
    MaxFaults = 1
    MaxCrashes = 1
    MaxStops = 1
    MaxStalls = 1
SYMMETRY Symmetry
INVARIANTS
    ClaimHeld
    ExclusiveClaim
    AttemptsExact
    OneRunPerTriage
    CompletedIsSettled
PROPERTIES
    AdvancedOnlyWhileProcessing
    ImplementsLifecycle
    RcaNeverErased
