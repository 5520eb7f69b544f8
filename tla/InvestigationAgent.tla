------------------------- MODULE InvestigationAgent -------------------------
(***************************************************************************)
(* One investigation attempt's use of tools and model: the batch of        *)
(* read-only tools, then InvestigationAgent.Run, a loop of at most         *)
(* maxAgentRounds exchanges with the model, whose replies may ask for      *)
(* further tools.  Operators (POST .../tools/{name}/execute, and           *)
(* executeActions of the remediation service) run tools at the same time.  *)
(* InvestigationWorker sees all of an attempt as its one step Analyse.     *)
(*                                                                         *)
(*   ag[w]   the locals of the attempt of investigator w, and where it is  *)
(***************************************************************************)
EXTENDS ToolExecutor, Integers, FiniteSets

CONSTANTS Investigators, Operators,
          BatchTools,       \* defaultInvestigationTools, in order
          CallLists,        \* the tool calls a reply of the model can make, in order
          OperatorTools,    \* the tools operators ask for
          maxAgentRounds,
          MaxRows           \* bound: operators run no tool once there are this many rows

ToolCall == [tool : STRING, valid : BOOLEAN]

ASSUME CallersAssumption ==
    Callers = Investigators \cup Operators /\ Investigators \cap Operators = {}
ASSUME ListsAssumption == BatchTools \in Seq(STRING) \ {<<>>} /\ CallLists \subseteq Seq(ToolCall)
ASSUME RoundsAssumption == maxAgentRounds \in Nat \ {0} /\ MaxRows \in Nat

VARIABLE ag

vars == <<executorVars, ag>>

\* next: the position in the batch, or in calls, the tool calls of the last reply.
\* unanswered: tool calls in messages that no tool message answers yet.
\* valid: whether the content of the last reply is a valid RCA.
Local == [pc : {"batch", "lookup", "generate", "calls", "parse", "end"},
          next : Nat, round : Nat, calls : Seq(ToolCall), unanswered : Int,
          valid : BOOLEAN, outcome : {"none", "rca", "waiting", "invalid", "error", "crashed"}]

TypeOK == ExecutorTypeOK /\ ag \in [Investigators -> Local]

Start == [pc |-> "batch", next |-> 1, round |-> 0, calls |-> <<>>, unanswered |-> 0,
          valid |-> FALSE, outcome |-> "none"]

Init == ExecutorInit /\ ag = [w \in Investigators |-> Start]

-----------------------------------------------------------------------------

At(w, pc) == ag[w].pc = pc
End(w, outcome) == ag' = [ag EXCEPT ![w].pc = "end", ![w].outcome = outcome]
Stay == UNCHANGED ag

\* A call of Execute that is refused by its checks, or begins.
Execute(c, tool, approved, valid, onError) ==
    /\ ~Inside(c)
    /\ IF Allowed(tool, approved, valid)
       THEN Begin(c, tool, Stay, onError)
       ELSE onError /\ UNCHANGED executorVars

\* ExecuteBatch: one tool after the other, until one fails.  GetServiceEnvironment
\* failing first has the effect of the first insert failing.
BatchOver(w) == ag' = [ag EXCEPT ![w].pc = "lookup"]
BatchNext(w) ==
    IF ag[w].next < Len(BatchTools) THEN ag' = [ag EXCEPT ![w].next = @ + 1] ELSE BatchOver(w)

BatchCall(w) ==
    At(w, "batch") /\ Execute(w, BatchTools[ag[w].next], FALSE, TRUE, BatchOver(w))

\* The result joins the evidence as the executor left it, completed or failed.
BatchReturn(w) == At(w, "batch") /\ Update(w, "ok", BatchNext(w), BatchOver(w))

\* GetByID; an error ends the attempt.
Lookup(w) ==
    /\ At(w, "lookup")
    /\ \/ Live(w) /\ NoFault /\ ag' = [ag EXCEPT ![w].pc = "generate"]
       \/ Refused(w) /\ End(w, "error")
    /\ UNCHANGED <<auditVars, call>>

\* Mutant: the model is asked again until it answers.
GenerateRetries(w) ==
    /\ At(w, "generate")
    /\ \/ /\ Live(w)
          /\ \E calls \in CallLists, valid \in BOOLEAN :
                ag' = [ag EXCEPT ![w].pc = IF calls = <<>> THEN "parse" ELSE "calls",
                                 ![w].next = 1, ![w].calls = calls,
                                 ![w].unanswered = @ + Len(calls), ![w].valid = valid]
       \/ Stay
    /\ UNCHANGED executorVars

\* A reply with or without tool calls, or none at all.
Generate(w) ==
    /\ At(w, "generate")
    /\ \/ /\ Live(w)
          /\ \E calls \in CallLists, valid \in BOOLEAN :
                ag' = [ag EXCEPT ![w].pc = IF calls = <<>> THEN "parse" ELSE "calls",
                                 ![w].next = 1, ![w].calls = calls,
                                 ![w].unanswered = @ + Len(calls), ![w].valid = valid]
       \/ End(w, "waiting")
    /\ UNCHANGED executorVars

LastCall(w) == ag[w].next = Len(ag[w].calls)

\* Mutant: one round too many.
AnswerOneMore(w) ==
    IF ~LastCall(w)
    THEN ag' = [ag EXCEPT ![w].next = @ + 1, ![w].unanswered = @ - 1]
    ELSE ag' = [ag EXCEPT ![w].round = @ + 1, ![w].unanswered = @ - 1,
                          ![w].pc = IF ag[w].round < maxAgentRounds THEN "generate" ELSE "parse"]

\* The tool message, with the result or the error; then the next call, the next
\* round, or, after the last round, the reply that asked for the tools is the RCA.
Answer(w) ==
    IF ~LastCall(w)
    THEN ag' = [ag EXCEPT ![w].next = @ + 1, ![w].unanswered = @ - 1]
    ELSE ag' = [ag EXCEPT ![w].round = @ + 1, ![w].unanswered = @ - 1,
                          ![w].pc = IF ag[w].round + 1 < maxAgentRounds THEN "generate" ELSE "parse"]

\* Mutant: a refused call is passed over.
CallToolSilent(w) ==
    LET tc == ag[w].calls[ag[w].next] IN
    /\ At(w, "calls")
    /\ Execute(w, tc.tool, FALSE, tc.valid,
               IF ~LastCall(w) THEN ag' = [ag EXCEPT ![w].next = @ + 1]
               ELSE ag' = [ag EXCEPT ![w].round = @ + 1,
                                     ![w].pc = IF ag[w].round + 1 < maxAgentRounds THEN "generate" ELSE "parse"])

CallTool(w) ==
    LET tc == ag[w].calls[ag[w].next] IN
    At(w, "calls") /\ Execute(w, tc.tool, FALSE, tc.valid, Answer(w))

CallReturn(w) == At(w, "calls") /\ Update(w, "error", Answer(w), Answer(w))

Parse(w) ==
    /\ At(w, "parse")
    /\ End(w, IF ag[w].valid THEN "rca" ELSE "invalid")
    /\ UNCHANGED executorVars

Step(w) ==
    \/ BatchCall(w) \/ BatchReturn(w) \/ Lookup(w) \/ Generate(w)
    \/ CallTool(w) \/ CallReturn(w) \/ Parse(w)
    \/ (Run(w) /\ Stay)

-----------------------------------------------------------------------------

\* An operator's request; approved is what the request says.
OperatorCall(o) ==
    /\ ~Inside(o)
    /\ Len(execs) < MaxRows
    /\ \E tool \in OperatorTools, approved \in BOOLEAN :
          Allowed(tool, approved, TRUE) /\ Begin(o, tool, Stay, Stay)

OperatorReturn(o) == Update(o, "error", Stay, Stay)

\* The next request comes with a context of its own.
NextRequest(o) ==
    /\ ~Inside(o) /\ ~Live(o)
    /\ cancelled' = cancelled \ {o}
    /\ UNCHANGED <<auditVars, call, faults, ag>>

OperatorStep(o) ==
    \/ OperatorCall(o) \/ OperatorReturn(o) \/ NextRequest(o)
    \/ (Run(o) /\ Stay)
    \/ (Inside(o) /\ Cancel(o) /\ Stay)
    \/ (Inside(o) /\ Abandon(o) /\ Stay)

\* SIGTERM, and the death of the worker process.
Shutdown(w) == ~At(w, "end") /\ Cancel(w) /\ Stay
Crash(w) == ~At(w, "end") /\ Abandon(w) /\ End(w, "crashed")

Next == \/ \E w \in Investigators : Step(w) \/ Shutdown(w) \/ Crash(w)
        \/ \E o \in Operators : OperatorStep(o)

Spec == Init /\ [][Next]_vars
FairSpec == Spec /\ \A w \in Investigators : WF_vars(Step(w))

-----------------------------------------------------------------------------
(***************************************************************************)
(* Properties                                                              *)
(***************************************************************************)

\* README, "Full auditability of agent and tool executions".  Once a run is over its
\* row is settled and says what the caller was told, except for at most one run for
\* each thing that went wrong: nothing else leaves a row running or makes it lie.
AuditAgrees == Cardinality(Wrong) <= faults

\* What makes it inductive: a call owns its row until it settles it, and a cancelled
\* call's row is charged to the cancellation at once.
AuditInductive == /\ ExecutorTypeOK /\ Len(told) = Len(execs)
                  /\ HoldsOwnRow /\ Cardinality(Lost) <= faults

\* The audit table as its readers see it.
Audit == INSTANCE ToolAudit WITH Automatic <- Investigators
ImplementsAudit == Audit!Spec

\* The model is never asked to go on while a tool call of its own has no answer,
\* whatever became of that call: providers reject such a conversation.
CallsAnswered == \A w \in Investigators : At(w, "generate") \/ At(w, "parse") => ag[w].unanswered = 0

\* Within a round, the calls from next on are the unanswered ones; before and after, none is.
AnswersInOrder ==
    \A w \in Investigators :
        IF At(w, "calls")
        THEN ag[w].next \in 1 .. Len(ag[w].calls) /\ ag[w].unanswered = Len(ag[w].calls) + 1 - ag[w].next
        ELSE ~At(w, "end") => ag[w].unanswered = 0

\* An attempt runs no more tools than the batch and maxAgentRounds replies ask for,
\* whatever the model replies and whatever fails.
MostCalls == CHOOSE n \in {Len(calls) : calls \in CallLists} : \A calls \in CallLists : Len(calls) <= n
RunsBounded ==
    \A w \in Investigators :
        Cardinality({k \in DOMAIN execs : execs[k].by = w})
            <= Len(BatchTools) + maxAgentRounds * MostCalls

\* Every attempt ends: the loop is bounded, and every failure leads on.
AttemptEnds == \A w \in Investigators : <>At(w, "end")

=============================================================================
