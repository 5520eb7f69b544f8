------------------------------ MODULE ToolAudit ------------------------------
(***************************************************************************)
(* What tool_executions promises whoever audits it: every run of a tool is *)
(* announced by a row before it starts, a row is never removed and is      *)
(* settled at most once, and no row of an automatic caller is about a tool *)
(* that needs approval.  InvestigationAgent implements it.                 *)
(***************************************************************************)
EXTENDS Naturals, Sequences

CONSTANTS Registry,   \* the registered tools, each with its permission level
          Callers,    \* who runs tools
          Automatic   \* those of them nobody approves anything for

VARIABLE execs

Row == [tool : DOMAIN Registry, by : Callers, status : {"running", "completed", "failed"}]

Init == execs = <<>>

Announce(c, tool) ==
    /\ c \in Automatic => Registry[tool] # "REQUIRES_APPROVAL"
    /\ execs' = Append(execs, [tool |-> tool, by |-> c, status |-> "running"])

Settle(k, status) ==
    /\ execs[k].status = "running"
    /\ execs' = [execs EXCEPT ![k].status = status]

Next == \/ \E c \in Callers, tool \in DOMAIN Registry : Announce(c, tool)
        \/ \E k \in DOMAIN execs, status \in {"completed", "failed"} : Settle(k, status)

Spec == Init /\ [][Next]_execs

=============================================================================
