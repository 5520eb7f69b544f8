-------------------------- MODULE MCIncidentClients --------------------------
(***************************************************************************)
(* Constants for IncidentClients.  CalledTargets are the statuses the      *)
(* worker and the remediation service pass to Transition; no caller in the *)
(* program asks for RECEIVED or ESCALATED.                                 *)
(***************************************************************************)
EXTENDS IncidentClients, TLC

CalledTargets == Status \ {"RECEIVED", "ESCALATED"}

Symmetry == Permutations(Clients)

=============================================================================
