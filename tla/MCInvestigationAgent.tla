------------------------ MODULE MCInvestigationAgent ------------------------
(***************************************************************************)
(* A small instance: one tool of each permission level and one that is not *)
(* registered; replies that ask for nothing, for one tool or for two.      *)
(***************************************************************************)
EXTENDS InvestigationAgent

MCRegistry == [logs |-> "READ_ONLY", notify |-> "AUTONOMOUS", issue |-> "REQUIRES_APPROVAL"]

MCBatchTools == <<"logs", "logs">>
MCOperatorTools == {"logs", "issue"}

Asks(tool) == [tool |-> tool, valid |-> TRUE]
Garbled(tool) == [tool |-> tool, valid |-> FALSE]

MCCallLists == {<<>>, <<Asks("logs"), Asks("notify")>>,
                <<Asks("issue"), Garbled("logs")>>, <<Asks("unknown")>>}

=============================================================================
