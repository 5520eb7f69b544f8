----------------------- MODULE MCInvestigationWorker -----------------------
(***************************************************************************)
(* Constants for InvestigationWorker.                                      *)
(***************************************************************************)
EXTENDS InvestigationWorker, TLC

\* The targets of the Transition calls in remediation/service.go.
RemediationTargets == {"REMEDIATION_PROPOSED", "WAITING_FOR_APPROVAL", "REMEDIATION_EXECUTED",
                       "RESOLVED", "FAILED", "CANCELLED"}

Symmetry == Permutations(Workers)

=============================================================================
