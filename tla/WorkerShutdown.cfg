SPECIFICATION Spec
CONSTANTS
    Incidents = {1}
    Workers = {w1}
    MaxAttempts = 3
    OutsideTargets = {}
    MaxEvents = 6
    MaxFaults = 0
    MaxCrashes = 0
    MaxStops = 1
    MaxStalls = 0
INVARIANTS
    ShutdownDrains
