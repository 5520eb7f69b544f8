SPECIFICATION FairSpec
CONSTANTS
    Incidents = {1, 2}
    Workers = {w1}
    MaxAttempts = 3
    OutsideTargets <- RemediationTargets
    MaxEvents = 3
    MaxFaults = 0
    MaxCrashes = 0
    MaxStops = 0
    MaxStalls = 0
PROPERTIES
    EveryJobEnds
