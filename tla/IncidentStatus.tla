--------------------------- MODULE IncidentStatus ---------------------------
(***************************************************************************)
(* The status machine of an incident: the statuses a stored incident can   *)
(* have and the transition table the domain layer consults before it lets  *)
(* a caller move an incident (internal/domain/incident/status.go).         *)
(***************************************************************************)

\* The status of an incident that has no row yet.
NoStatus == "none"

validTransitions ==
    [RECEIVED              |-> {"TRIAGING", "CANCELLED", "ESCALATED"},
     TRIAGING              |-> {"INVESTIGATING", "FAILED", "CANCELLED", "ESCALATED"},
     INVESTIGATING         |-> {"ROOT_CAUSE_IDENTIFIED", "FAILED", "CANCELLED", "ESCALATED"},
     ROOT_CAUSE_IDENTIFIED |-> {"REMEDIATION_PROPOSED", "RESOLVED", "FAILED", "ESCALATED"},
     REMEDIATION_PROPOSED  |-> {"WAITING_FOR_APPROVAL", "RESOLVED", "FAILED", "CANCELLED"},
     WAITING_FOR_APPROVAL  |-> {"REMEDIATION_EXECUTED", "CANCELLED", "FAILED", "ESCALATED"},
     REMEDIATION_EXECUTED  |-> {"RESOLVED", "FAILED"},
     RESOLVED              |-> {},
     FAILED                |-> {"TRIAGING", "ESCALATED"},
     CANCELLED             |-> {},
     ESCALATED             |-> {"INVESTIGATING", "RESOLVED", "FAILED"}]

\* The values ValidateStatus accepts.
Status == {"RECEIVED", "TRIAGING", "INVESTIGATING", "ROOT_CAUSE_IDENTIFIED",
           "REMEDIATION_PROPOSED", "WAITING_FOR_APPROVAL", "REMEDIATION_EXECUTED",
           "RESOLVED", "FAILED", "CANCELLED", "ESCALATED"}

CanTransition(current, next) ==
    current \in Status /\ next \in validTransitions[current]

=============================================================================
