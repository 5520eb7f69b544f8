--------------------------- MODULE MCRemediation ---------------------------
(***************************************************************************)
(* Constants for Remediation.                                              *)
(***************************************************************************)
EXTENDS Remediation, TLC

AllTools == {"create_github_issue", "send_slack_notification"}
GatedTools == {"create_github_issue"}

\* What actionsFromRCA appends to the advisory actions.
RcaActions == <<"create_github_issue", "send_slack_notification">>
RcaLists == {RcaActions}

Symmetry == Permutations(Requests)

=============================================================================
