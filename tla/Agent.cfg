\* One attempt against one operator, with any one thing going wrong.
CONSTANTS
    Investigators = {w1}
    Operators = {o1}
    Callers = {w1, o1}
    Registry <- MCRegistry
    BatchTools <- MCBatchTools
    CallLists <- MCCallLists
    OperatorTools <- MCOperatorTools
    maxAgentRounds = 2
    MaxRows = 2
    MaxFaults = 1
SPECIFICATION FairSpec
INVARIANTS AuditAgrees CallsAnswered RunsBounded
PROPERTIES ImplementsAudit AttemptEnds
CHECK_DEADLOCK FALSE
