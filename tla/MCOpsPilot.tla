----------------------------- MODULE MCOpsPilot -----------------------------
(***************************************************************************)
(* Constants for OpsPilot.                                                 *)
(***************************************************************************)
EXTENDS OpsPilot

AllTools == {"create_github_issue", "send_slack_notification"}
GatedTools == {"create_github_issue"}

\* An operator's proposal with one tool: when it fails while the incident is
\* investigated, the incident is FAILED and the next attempt triages it again.
ByHand == <<"create_github_issue">>

=============================================================================
