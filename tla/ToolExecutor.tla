---------------------------- MODULE ToolExecutor ----------------------------
(***************************************************************************)
(* Executor.Execute (agent/tools/executor.go) and its audit table.  One    *)
(* step is one round trip to PostgreSQL, or the tool.  Who calls it, and   *)
(* what the caller does next, is up to the module that EXTENDS this one.   *)
(*                                                                         *)
(*   execs[k]    row k of tool_executions, in the order of the inserts     *)
(*   told[k]     what Execute, or the caller's copy of the row, said of    *)
(*               run k: that it succeeded, that it failed, or nothing      *)
(*   call[c]     the call of Execute made by c, and where it is            *)
(*   cancelled   callers whose context is cancelled: calls on it fail      *)
(*   faults      how much went wrong so far, up to its bound               *)
(***************************************************************************)
EXTENDS Naturals, Sequences

CONSTANTS Callers,
          Registry,    \* the registered tools, each with its permission level
          MaxFaults    \* bound: failed database calls, cancellations and crashes

PermissionLevel == {"READ_ONLY", "REQUIRES_APPROVAL", "AUTONOMOUS"}

ASSUME RegistryAssumption == \A tool \in DOMAIN Registry : Registry[tool] \in PermissionLevel
ASSUME FaultsAssumption == MaxFaults \in Nat

VARIABLES execs, told, call, cancelled, faults

auditVars == <<execs, told>>
executorVars == <<auditVars, call, cancelled, faults>>

Row == [tool : DOMAIN Registry, by : Callers, status : {"running", "completed", "failed"}]

\* id: the row of the run; ok: whether the tool returned a result.
Execution == [pc : {"idle", "run", "update"}, id : Nat, ok : BOOLEAN]

NoExecution == [pc |-> "idle", id |-> 0, ok |-> FALSE]

ExecutorTypeOK == /\ execs \in Seq(Row)
                  /\ told \in Seq({"nothing", "ok", "error"})
                  /\ call \in [Callers -> Execution]
                  /\ cancelled \in SUBSET Callers
                  /\ faults \in Nat

ExecutorInit == /\ execs = <<>> /\ told = <<>>
                /\ call = [c \in Callers |-> NoExecution]
                /\ cancelled = {}
                /\ faults = 0

-----------------------------------------------------------------------------

Inside(c) == call[c].pc # "idle"
Live(c) == c \notin cancelled

NoFault == UNCHANGED <<cancelled, faults>>
Fault == faults < MaxFaults /\ faults' = faults + 1 /\ UNCHANGED cancelled
\* A call that fails without effect, as each one on a cancelled context does.
Refused(c) == IF Live(c) THEN Fault ELSE NoFault

\* Mutant: approval is not asked for.
AuthorizeAll(level, approved) == level \in PermissionLevel

Authorize(level, approved) ==
    level \in {"READ_ONLY", "AUTONOMOUS"} \/ (level = "REQUIRES_APPROVAL" /\ approved)

\* The checks that come before the audit row.  valid: the input is JSON.
Allowed(tool, approved, valid) ==
    tool \in DOMAIN Registry /\ Authorize(Registry[tool], approved) /\ valid

CreateRow(c, tool) ==
    /\ execs' = Append(execs, [tool |-> tool, by |-> c, status |-> "running"])
    /\ told' = Append(told, "nothing")

\* Insert the row and go on to the tool, or return without a row in hand.  onRun and
\* onError are what the caller does.
Begin(c, tool, onRun, onError) ==
    \/ /\ Live(c) /\ CreateRow(c, tool) /\ NoFault /\ onRun
       /\ call' = [call EXCEPT ![c] = [pc |-> "run", id |-> Len(execs) + 1, ok |-> FALSE]]
    \/ Live(c) /\ CreateRow(c, tool) /\ Fault /\ onError /\ UNCHANGED call
    \/ Refused(c) /\ onError /\ UNCHANGED <<auditVars, call>>

\* The tool, under the timeout: a result, or an error (also of encoding the result).
Run(c) ==
    /\ call[c].pc = "run"
    /\ \E ok \in BOOLEAN : call' = [call EXCEPT ![c].pc = "update", ![c].ok = ok]
    /\ UNCHANGED <<auditVars, cancelled, faults>>

Settled(c) == IF call[c].ok THEN "completed" ELSE "failed"

UpdateRow(k, status) == execs' = [execs EXCEPT ![k].status = status]

\* Mutant: a failed run is reported and not recorded.
UpdateSkipsFailed(c, lost, onOk, onError) ==
    LET k == call[c].id
        recorded == UpdateRow(k, IF call[c].ok THEN "completed" ELSE execs[k].status)
        tell(what) == told' = [told EXCEPT ![k] = what]
    IN /\ call[c].pc = "update"
       /\ call' = [call EXCEPT ![c] = NoExecution]
       /\ \/ Live(c) /\ recorded /\ NoFault
             /\ IF call[c].ok THEN tell("ok") /\ onOk ELSE tell("error") /\ onError
          \/ Live(c) /\ recorded /\ Fault
             /\ tell(IF call[c].ok THEN lost ELSE "error") /\ onError
          \/ Refused(c) /\ UNCHANGED execs
             /\ tell(IF call[c].ok THEN lost ELSE "error") /\ onError

\* The row is settled.  The error of a failed tool is returned whatever becomes of
\* its row; a result whose row could not be settled is returned with an error, and
\* lost is what the caller makes of it.
Update(c, lost, onOk, onError) ==
    LET k == call[c].id
        recorded == UpdateRow(k, Settled(c))
        tell(what) == told' = [told EXCEPT ![k] = what]
        unsure == tell(IF call[c].ok THEN lost ELSE "error") /\ onError
    IN /\ call[c].pc = "update"
       /\ call' = [call EXCEPT ![c] = NoExecution]
       /\ \/ /\ Live(c) /\ recorded /\ NoFault
             /\ IF call[c].ok THEN tell("ok") /\ onOk ELSE tell("error") /\ onError
          \/ Live(c) /\ recorded /\ Fault /\ unsure
          \/ Refused(c) /\ UNCHANGED execs /\ unsure

\* The process of c dies with what it held, or c's context is cancelled.
Abandon(c) ==
    /\ Fault
    /\ call' = [call EXCEPT ![c] = NoExecution]
    /\ UNCHANGED auditVars

Cancel(c) ==
    /\ Live(c)
    /\ faults < MaxFaults /\ faults' = faults + 1
    /\ cancelled' = cancelled \cup {c}
    /\ UNCHANGED <<auditVars, call>>

-----------------------------------------------------------------------------

\* Rows whose run is over and that do not say what its caller was told.
Held(k) == \E c \in Callers : Inside(c) /\ call[c].id = k
Agrees(k) == /\ execs[k].status # "running"
             /\ told[k] = "ok" => execs[k].status = "completed"
             /\ told[k] = "error" => execs[k].status = "failed"
Wrong == {k \in DOMAIN execs : ~Held(k) /\ ~Agrees(k)}

\* ... and those that a call on a cancelled context will leave so.
HeldLive(k) == \E c \in Callers : Inside(c) /\ Live(c) /\ call[c].id = k
Lost == {k \in DOMAIN execs : ~HeldLive(k) /\ ~Agrees(k)}

\* A call holds a row of its own that still runs.
HoldsOwnRow ==
    \A c \in Callers : Inside(c) =>
        /\ call[c].id \in DOMAIN execs
        /\ execs[call[c].id].status = "running" /\ execs[call[c].id].by = c

=============================================================================
