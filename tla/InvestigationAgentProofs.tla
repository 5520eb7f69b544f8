---------------------- MODULE InvestigationAgentProofs ----------------------
(***************************************************************************)
(* Safety of tool runs and of the agent's conversation, for any registry,  *)
(* any number of investigators and operators, any replies of the model and *)
(* any number of failures, cancellations and crashes.                      *)
(***************************************************************************)
EXTENDS InvestigationAgent, FiniteSetTheorems, WellFoundedInduction, TLAPS

USE RegistryAssumption, FaultsAssumption, CallersAssumption, ListsAssumption, RoundsAssumption

-----------------------------------------------------------------------------
(* What a step does to the audit table and to the calls in flight: one of   *)
(* these, for one caller, or nothing.                                       *)

\* A row for a tool that c may run.
Announces(c, tool) ==
    /\ tool \in DOMAIN Registry
    /\ c \in Investigators => Registry[tool] # "REQUIRES_APPROVAL"
    /\ ~Inside(c) /\ Live(c)
    /\ CreateRow(c, tool)

Starts(c, tool) ==
    /\ Announces(c, tool) /\ NoFault
    /\ call' = [call EXCEPT ![c] = [pc |-> "run", id |-> Len(execs) + 1, ok |-> FALSE]]

Orphans(c, tool) == Announces(c, tool) /\ Fault /\ UNCHANGED call

Fails == UNCHANGED <<auditVars, call>> /\ (NoFault \/ Fault)

Tells(c) ==
    \E what \in {"nothing", "ok", "error"} : told' = [told EXCEPT ![call[c].id] = what]

Ends(c) == call[c].pc = "update" /\ call' = [call EXCEPT ![c] = NoExecution] /\ Tells(c)

Settles(c) ==
    /\ Ends(c)
    /\ execs' = [execs EXCEPT ![call[c].id].status = Settled(c)]
    /\ \/ NoFault /\ told' = [told EXCEPT ![call[c].id] = IF call[c].ok THEN "ok" ELSE "error"]
       \/ Fault

Drops(c) == Ends(c) /\ Refused(c) /\ UNCHANGED execs

Reopens(c) ==
    /\ ~Inside(c) /\ ~Live(c)
    /\ cancelled' = cancelled \ {c}
    /\ UNCHANGED <<auditVars, call, faults>>

Effect(c) ==
    \/ \E tool \in DOMAIN Registry : Starts(c, tool) \/ Orphans(c, tool)
    \/ Run(c) \/ Settles(c) \/ Drops(c) \/ Reopens(c)
    \/ Abandon(c) \/ Cancel(c) \/ Fails

LEMMA BeginEffect ==
  ASSUME NEW c \in Callers, NEW tool, NEW approved \in BOOLEAN, NEW valid,
         NEW onRun, NEW onError,
         ~Inside(c), Allowed(tool, approved, valid), c \in Investigators => ~approved,
         Begin(c, tool, onRun, onError)
  PROVE  Effect(c)
<1>1. tool \in DOMAIN Registry
  BY DEF Allowed
<1>2. c \in Investigators => Registry[tool] # "REQUIRES_APPROVAL"
  BY DEF Allowed, Authorize
<1>3. Starts(c, tool) \/ Orphans(c, tool) \/ Fails
  BY <1>1, <1>2 DEF Begin, Starts, Orphans, Announces, Fails, Refused
<1>4. QED
  BY <1>1, <1>3 DEF Effect

LEMMA UpdateEffect ==
  ASSUME NEW c \in Callers, NEW lost \in {"ok", "error"}, NEW onOk, NEW onError,
         Update(c, lost, onOk, onError)
  PROVE  Settles(c) \/ Drops(c)
<1>1. Ends(c)
  BY DEF Update, Ends, Tells
<1>2. QED
  BY <1>1 DEF Update, UpdateRow, Settles, Drops, Settled

LEMMA ExecuteEffect ==
  ASSUME NEW w \in Investigators, NEW tool, NEW valid, NEW onError,
         Execute(w, tool, FALSE, valid, onError)
  PROVE  Effect(w) \/ UNCHANGED executorVars
BY BeginEffect DEF Execute

LEMMA InvestigatorEffect ==
  ASSUME NEW w \in Investigators, Step(w) \/ Shutdown(w) \/ Crash(w)
  PROVE  Effect(w) \/ UNCHANGED executorVars
<1>1. CASE BatchCall(w)
  BY <1>1, ExecuteEffect DEF BatchCall
<1>2. CASE BatchReturn(w)
  BY <1>2, UpdateEffect DEF BatchReturn, Effect
<1>3. CASE Lookup(w)
  BY <1>3 DEF Lookup, Effect, Fails, Refused
<1>4. CASE Generate(w)
  BY <1>4 DEF Generate
<1>5. CASE CallTool(w)
  BY <1>5, ExecuteEffect DEF CallTool
<1>6. CASE CallReturn(w)
  BY <1>6, UpdateEffect DEF CallReturn, Effect
<1>7. CASE Parse(w)
  BY <1>7 DEF Parse
<1>8. CASE Run(w) /\ Stay
  BY <1>8 DEF Effect
<1>9. CASE Shutdown(w) \/ Crash(w)
  BY <1>9 DEF Shutdown, Crash, Effect
<1>10. QED
  BY <1>1, <1>2, <1>3, <1>4, <1>5, <1>6, <1>7, <1>8, <1>9 DEF Step

LEMMA OperatorEffect ==
  ASSUME NEW o \in Operators, OperatorStep(o)
  PROVE  Effect(o) /\ Stay
<1>1. CASE OperatorCall(o)
  BY <1>1, BeginEffect DEF OperatorCall, Begin
<1>2. CASE OperatorReturn(o)
  BY <1>2, UpdateEffect DEF OperatorReturn, Effect, Update
<1>3. CASE NextRequest(o)
  BY <1>3 DEF NextRequest, Effect, Reopens, Stay
<1>4. QED
  BY <1>1, <1>2, <1>3 DEF OperatorStep, Effect

LEMMA NextEffect ==
  ASSUME Next
  PROVE  (\E c \in Callers : Effect(c)) \/ UNCHANGED executorVars
BY InvestigatorEffect, OperatorEffect DEF Next

-----------------------------------------------------------------------------
(* A call owns its row.                                                     *)

Owned == ExecutorTypeOK /\ Len(told) = Len(execs) /\ HoldsOwnRow

LEMMA AnnounceOwned ==
  ASSUME Owned, NEW c \in Callers, NEW tool \in DOMAIN Registry, Announces(c, tool)
  PROVE  /\ execs' \in Seq(Row) /\ told' \in Seq({"nothing", "ok", "error"})
         /\ Len(execs') = Len(execs) + 1 /\ Len(told') = Len(execs')
         /\ execs'[Len(execs) + 1] = [tool |-> tool, by |-> c, status |-> "running"]
         /\ \A k \in DOMAIN execs :
                k \in DOMAIN execs' /\ execs'[k] = execs[k] /\ told'[k] = told[k]
<1>1. [tool |-> tool, by |-> c, status |-> "running"] \in Row
  BY DEF Row
<1>2. execs' = Append(execs, [tool |-> tool, by |-> c, status |-> "running"]) /\ told' = Append(told, "nothing")
  BY DEF Announces, CreateRow
<1>3. QED
  BY <1>1, <1>2 DEF Owned, ExecutorTypeOK

LEMMA SettleOwned ==
  ASSUME Owned, NEW c \in Callers, Settles(c) \/ Drops(c)
  PROVE  /\ execs' \in Seq(Row) /\ told' \in Seq({"nothing", "ok", "error"})
         /\ call' \in [Callers -> Execution]
         /\ Len(execs') = Len(execs) /\ Len(told') = Len(execs')
         /\ \A k \in DOMAIN execs : k # call[c].id => execs'[k] = execs[k] /\ told'[k] = told[k]
<1>1. call[c].id \in DOMAIN execs /\ call[c].id \in DOMAIN told
  BY DEF Owned, HoldsOwnRow, Inside, Settles, Drops, Ends, ExecutorTypeOK
<1>2. PICK what \in {"nothing", "ok", "error"} : told' = [told EXCEPT ![call[c].id] = what]
  BY DEF Settles, Drops, Ends, Tells
<1>3. told' \in Seq({"nothing", "ok", "error"}) /\ Len(told') = Len(told)
  BY <1>1, <1>2 DEF Owned, ExecutorTypeOK
<1>4. call' \in [Callers -> Execution]
  <2>1. NoExecution \in Execution
    BY DEF NoExecution, Execution
  <2>2. call' = [call EXCEPT ![c] = NoExecution]
    BY DEF Settles, Drops, Ends
  <2>3. QED
    BY <2>1, <2>2 DEF Owned, ExecutorTypeOK
<1>5. CASE Settles(c)
  <2>1. Settled(c) \in {"completed", "failed"}
    BY DEF Settled
  <2>2. execs' = [execs EXCEPT ![call[c].id].status = Settled(c)]
    BY <1>5 DEF Settles
  <2> HIDE DEF Settled
  <2>3. execs[call[c].id] \in Row
    BY <1>1 DEF Owned, ExecutorTypeOK
  <2>4. [execs[call[c].id] EXCEPT !.status = Settled(c)] \in Row
    BY <2>1, <2>3 DEF Row
  <2>5. execs' \in Seq(Row) /\ Len(execs') = Len(execs)
    BY <1>1, <2>2, <2>4 DEF Owned, ExecutorTypeOK
  <2>6. QED
    BY <1>2, <1>3, <1>4, <2>2, <2>5 DEF Owned, ExecutorTypeOK
<1>6. CASE Drops(c)
  BY <1>2, <1>3, <1>4, <1>6 DEF Owned, ExecutorTypeOK, Drops
<1>7. QED
  BY <1>5, <1>6

LEMMA FaultsType ==
  ASSUME ExecutorTypeOK, NEW c \in Callers, Effect(c)
  PROVE  cancelled' \in SUBSET Callers /\ faults' \in Nat
BY DEF ExecutorTypeOK, Effect, Starts, Orphans, Run, Settles, Drops, Ends, Reopens, Abandon, Cancel,
       Fails, Refused, NoFault, Fault

LEMMA EffectOwned ==
  ASSUME Owned, NEW c \in Callers, Effect(c)
  PROVE  Owned'
<1>0. cancelled' \in SUBSET Callers /\ faults' \in Nat
  BY FaultsType DEF Owned
<1>1. ASSUME NEW tool \in DOMAIN Registry, Starts(c, tool) PROVE Owned'
  <2>1. Announces(c, tool)
    BY <1>1 DEF Starts
  <2>2. [pc |-> "run", id |-> Len(execs) + 1, ok |-> FALSE] \in Execution
    BY DEF Execution, Owned, ExecutorTypeOK
  <2>3. call' = [call EXCEPT ![c] = [pc |-> "run", id |-> Len(execs) + 1, ok |-> FALSE]]
    BY <1>1 DEF Starts
  <2>4. call' \in [Callers -> Execution]
    BY <2>2, <2>3 DEF Owned, ExecutorTypeOK
  <2>5. HoldsOwnRow'
    <3> SUFFICES ASSUME NEW d \in Callers, Inside(d)'
                 PROVE  /\ (call[d].id \in DOMAIN execs)'
                        /\ (execs[call[d].id].status = "running")'
                        /\ (execs[call[d].id].by = d)'
      BY DEF HoldsOwnRow
    <3>1. CASE d = c
      <4>1. call'[d].id = Len(execs) + 1
        BY <3>1, <2>3 DEF Owned, ExecutorTypeOK
      <4>2. call'[d].id \in DOMAIN execs'
        <5>1. Len(execs) \in Nat
          BY DEF Owned, ExecutorTypeOK
        <5>2. execs' \in Seq(Row) /\ Len(execs') = Len(execs) + 1
          BY <2>1, AnnounceOwned
        <5>3. DOMAIN execs' = 1 .. Len(execs) + 1
          BY <5>2
        <5>4. QED
          BY <4>1, <5>1, <5>3
      <4>3. execs'[call'[d].id] = [tool |-> tool, by |-> c, status |-> "running"]
        BY <4>1, <2>1, AnnounceOwned
      <4>4. QED
        BY <3>1, <4>2, <4>3
    <3>2. CASE d # c
      <4>1. call'[d] = call[d] /\ Inside(d)
        BY <3>2, <2>3 DEF Owned, ExecutorTypeOK, Inside
      <4>2. /\ call[d].id \in DOMAIN execs /\ execs[call[d].id].status = "running"
            /\ execs[call[d].id].by = d
        BY <4>1 DEF Owned, HoldsOwnRow
      <4>3. QED
        BY <4>1, <4>2, <2>1, AnnounceOwned
    <3>3. QED
      BY <3>1, <3>2
  <2>6. QED
    BY <1>0, <2>1, <2>4, <2>5, AnnounceOwned DEF Owned, ExecutorTypeOK
<1>2. ASSUME NEW tool \in DOMAIN Registry, Orphans(c, tool) PROVE Owned'
  <2>1. Announces(c, tool) /\ call' = call
    BY <1>2 DEF Orphans
  <2>2. QED
    BY <1>0, <2>1, AnnounceOwned DEF Owned, ExecutorTypeOK, HoldsOwnRow, Inside
<1>3. CASE Settles(c) \/ Drops(c)
  <2>1. call' = [call EXCEPT ![c] = NoExecution]
    BY <1>3 DEF Settles, Drops, Ends
  <2>2. HoldsOwnRow'
    <3> SUFFICES ASSUME NEW d \in Callers, Inside(d)'
                 PROVE  /\ (call[d].id \in DOMAIN execs)'
                        /\ (execs[call[d].id].status = "running")'
                        /\ (execs[call[d].id].by = d)'
      BY DEF HoldsOwnRow
    <3>1. d # c /\ call'[d] = call[d] /\ Inside(d)
      BY <2>1 DEF Owned, ExecutorTypeOK, Inside, NoExecution
    <3>2. Inside(c)
      BY <1>3 DEF Settles, Drops, Ends, Inside
    <3>3. call[d].id \in DOMAIN execs /\ call[d].id # call[c].id
      BY <3>1, <3>2 DEF Owned, HoldsOwnRow
    <3>4. QED
      BY <1>3, <3>1, <3>3, SettleOwned DEF Owned, HoldsOwnRow, ExecutorTypeOK
  <2>3. QED
    BY <1>0, <1>3, <2>2, SettleOwned DEF Owned, ExecutorTypeOK
<1>4. CASE Run(c)
  <2>1. PICK ok \in BOOLEAN : call' = [call EXCEPT ![c].pc = "update", ![c].ok = ok]
    BY <1>4 DEF Run
  <2>2. call' \in [Callers -> Execution]
    BY <2>1 DEF Owned, ExecutorTypeOK, Execution
  <2>3. \A d \in Callers : call'[d].id = call[d].id /\ (call'[d].pc # "idle" => call[d].pc # "idle")
    BY <1>4, <2>1 DEF Owned, ExecutorTypeOK, Execution, Run
  <2>4. execs' = execs /\ told' = told
    BY <1>4 DEF Run, auditVars
  <2>5. QED
    BY <1>0, <2>2, <2>3, <2>4 DEF Owned, ExecutorTypeOK, HoldsOwnRow, Inside
<1>5. CASE Abandon(c)
  <2>1. call' = [call EXCEPT ![c] = NoExecution] /\ execs' = execs /\ told' = told
    BY <1>5 DEF Abandon, auditVars
  <2>2. call' \in [Callers -> Execution]
    BY <2>1 DEF Owned, ExecutorTypeOK, Execution, NoExecution
  <2>3. \A d \in Callers : call'[d].pc # "idle" => call'[d] = call[d]
    BY <2>1 DEF Owned, ExecutorTypeOK, NoExecution
  <2>4. QED
    BY <1>0, <2>1, <2>2, <2>3 DEF Owned, ExecutorTypeOK, HoldsOwnRow, Inside
<1>6. CASE Reopens(c) \/ Cancel(c) \/ Fails
  <2>1. execs' = execs /\ told' = told /\ call' = call
    BY <1>6 DEF Reopens, Cancel, Fails, auditVars
  <2>2. QED
    BY <1>0, <2>1 DEF Owned, ExecutorTypeOK, HoldsOwnRow, Inside
<1>7. QED
  BY <1>1, <1>2, <1>3, <1>4, <1>5, <1>6 DEF Effect

-----------------------------------------------------------------------------
(* Each thing that goes wrong costs the audit at most one row.              *)

LEMMA LostFinite ==
  ASSUME execs \in Seq(Row)
  PROVE  IsFiniteSet(Lost)
<1>1. IsFiniteSet(1 .. Len(execs))
  BY FS_Interval
<1>2. Lost \subseteq 1 .. Len(execs)
  BY DEF Lost
<1>3. QED
  BY <1>1, <1>2, FS_Subset

\* c lets go of its row, or may at any time, without settling it.
LEMMA LetGo ==
  ASSUME Owned, NEW c \in Callers, execs' = execs, told' = told \/ Tells(c),
         \A d \in Callers : d # c => (call'[d] = call[d] /\ (d \in cancelled' => d \in cancelled))
  PROVE  Lost' \subseteq Lost \cup {call[c].id}
<1> SUFFICES ASSUME NEW k \in Lost', k # call[c].id PROVE k \in Lost
  OBVIOUS
<1>1. k \in DOMAIN execs /\ ~HeldLive(k)' /\ ~Agrees(k)'
  BY DEF Lost
<1>2. told'[k] = told[k]
  <2>1. k \in DOMAIN told
    BY <1>1 DEF Owned, ExecutorTypeOK
  <2>2. QED
    BY <2>1 DEF Tells
<1>3. ~Agrees(k)
  BY <1>1, <1>2 DEF Agrees
<1>4. ~HeldLive(k)
  <2> SUFFICES ASSUME NEW d \in Callers, Inside(d), Live(d), call[d].id = k PROVE FALSE
    BY DEF HeldLive
  <2>1. d # c
    OBVIOUS
  <2>2. Inside(d)' /\ Live(d)' /\ call'[d].id = k
    BY <2>1 DEF Inside, Live
  <2>3. QED
    BY <1>1, <2>2 DEF HeldLive
<1>5. QED
  BY <1>1, <1>3, <1>4 DEF Lost

LEMMA LostStep ==
  ASSUME Owned, NEW c \in Callers, Effect(c)
  PROVE  \/ Lost' \subseteq Lost /\ faults' \in {faults, faults + 1}
         \/ \E k : Lost' \subseteq Lost \cup {k} /\ faults' = faults + 1
<1>1. ASSUME NEW tool \in DOMAIN Registry, Announces(c, tool), cancelled' = cancelled,
             \/ call' = [call EXCEPT ![c] = [pc |-> "run", id |-> Len(execs) + 1, ok |-> FALSE]]
             \/ call' = call
      PROVE  Lost' \subseteq Lost \cup {Len(execs) + 1}
  <2> SUFFICES ASSUME NEW k \in Lost', k # Len(execs) + 1 PROVE k \in Lost
    OBVIOUS
  <2>1. k \in DOMAIN execs' /\ ~HeldLive(k)' /\ ~Agrees(k)'
    BY DEF Lost
  <2>2. k \in DOMAIN execs
    <3>1. Len(execs) \in Nat /\ DOMAIN execs = 1 .. Len(execs)
      BY DEF Owned, ExecutorTypeOK
    <3>2. DOMAIN execs' = 1 .. Len(execs) + 1
      <4>1. execs' \in Seq(Row) /\ Len(execs') = Len(execs) + 1
        BY <1>1, AnnounceOwned
      <4>2. QED
        BY <4>1
    <3>3. QED
      BY <2>1, <3>1, <3>2
  <2>3. ~Agrees(k)
    BY <1>1, <2>1, <2>2, AnnounceOwned DEF Agrees
  <2>4. ~HeldLive(k)
    <3> SUFFICES ASSUME NEW d \in Callers, Inside(d), Live(d), call[d].id = k PROVE FALSE
      BY DEF HeldLive
    <3>1. d # c
      BY <1>1 DEF Announces
    <3>2. call'[d] = call[d]
      BY <1>1, <3>1 DEF Owned, ExecutorTypeOK
    <3>3. Inside(d)' /\ Live(d)'
      BY <1>1, <3>2 DEF Inside, Live
    <3>4. QED
      BY <2>1, <3>2, <3>3 DEF HeldLive
  <2>5. QED
    BY <2>2, <2>3, <2>4 DEF Lost
<1>2. ASSUME NEW tool \in DOMAIN Registry, Starts(c, tool)
      PROVE  Lost' \subseteq Lost /\ faults' = faults
  <2>1. Lost' \subseteq Lost \cup {Len(execs) + 1}
    BY <1>1, <1>2 DEF Starts, NoFault
  <2>2. Inside(c)' /\ Live(c)' /\ call'[c].id = Len(execs) + 1
    BY <1>2 DEF Starts, Announces, NoFault, Owned, ExecutorTypeOK, Inside, Live
  <2>3. Len(execs) + 1 \notin Lost'
    BY <2>2 DEF Lost, HeldLive
  <2>4. QED
    BY <1>2, <2>1, <2>3 DEF Starts, NoFault
<1>3. ASSUME NEW tool \in DOMAIN Registry, Orphans(c, tool)
      PROVE  Lost' \subseteq Lost \cup {Len(execs) + 1} /\ faults' = faults + 1
  BY <1>1, <1>3 DEF Orphans, Fault
<1>4. CASE Settles(c)
  <2>0. PICK k : k = call[c].id
    OBVIOUS
  <2>1. Lost' \subseteq Lost \cup {k}
    <3> SUFFICES ASSUME NEW j \in Lost', j # k PROVE j \in Lost
      OBVIOUS
    <3>1. j \in DOMAIN execs /\ ~HeldLive(j)' /\ ~Agrees(j)'
      BY <1>4, SettleOwned DEF Lost, Owned, ExecutorTypeOK
    <3>2. ~Agrees(j)
      BY <1>4, <2>0, <3>1, SettleOwned DEF Agrees
    <3>3. ~HeldLive(j)
      <4> SUFFICES ASSUME NEW d \in Callers, Inside(d), Live(d), call[d].id = j PROVE FALSE
        BY DEF HeldLive
      <4>1. d # c
        BY <2>0
      <4>2. call'[d] = call[d] /\ cancelled' = cancelled
        BY <1>4, <4>1 DEF Settles, Ends, NoFault, Fault, Owned, ExecutorTypeOK
      <4>3. QED
        BY <3>1, <4>2 DEF HeldLive, Inside, Live
    <3>4. QED
      BY <3>1, <3>2, <3>3 DEF Lost
  <2>2. CASE Fault
    BY <2>1, <2>2 DEF Fault
  <2>3. CASE NoFault /\ told' = [told EXCEPT ![k] = IF call[c].ok THEN "ok" ELSE "error"]
    <3>1. k \in DOMAIN execs /\ k \in DOMAIN told
      BY <1>4, <2>0 DEF Owned, HoldsOwnRow, Inside, Settles, Ends, ExecutorTypeOK
    <3>2. told'[k] = IF call[c].ok THEN "ok" ELSE "error"
      BY <2>3, <3>1
    <3>3. execs'[k].status = IF call[c].ok THEN "completed" ELSE "failed"
      <4>1. execs' = [execs EXCEPT ![k].status = Settled(c)]
        BY <1>4, <2>0 DEF Settles
      <4>2. execs[k] \in Row
        BY <3>1 DEF Owned, ExecutorTypeOK
      <4>3. execs'[k] = [execs[k] EXCEPT !.status = Settled(c)]
        BY <3>1, <4>1 DEF Owned, ExecutorTypeOK
      <4>4. QED
        BY <4>2, <4>3 DEF Settled, Row
    <3>4. Agrees(k)'
      BY <3>2, <3>3 DEF Agrees
    <3>5. QED
      BY <2>1, <2>3, <3>4 DEF Lost, NoFault
  <2>4. QED
    BY <1>4, <2>0, <2>2, <2>3 DEF Settles
<1>5. CASE Drops(c)
  <2>1. Lost' \subseteq Lost \cup {call[c].id}
    BY <1>5, LetGo DEF Drops, Ends, Refused, NoFault, Fault, Owned, ExecutorTypeOK
  <2>2. CASE Live(c)
    BY <1>5, <2>1, <2>2 DEF Drops, Refused, Fault
  <2>3. CASE ~Live(c)
    <3>1. call[c].id \in DOMAIN execs /\ execs[call[c].id].status = "running" /\ execs[call[c].id].by = c
      BY <1>5 DEF Owned, HoldsOwnRow, Inside, Drops, Ends
    <3>2. ~HeldLive(call[c].id)
      BY <2>3, <3>1 DEF HeldLive, Owned, HoldsOwnRow
    <3>3. call[c].id \in Lost
      BY <3>1, <3>2 DEF Lost, Agrees
    <3>4. QED
      BY <1>5, <2>1, <2>3, <3>3 DEF Drops, Refused, NoFault
  <2>4. QED
    BY <2>2, <2>3
<1>6. CASE Abandon(c)
  <2>1. Lost' \subseteq Lost \cup {call[c].id}
    BY <1>6, LetGo DEF Abandon, Fault, auditVars, Owned, ExecutorTypeOK
  <2>2. QED
    BY <1>6, <2>1 DEF Abandon, Fault
<1>7. CASE Cancel(c)
  <2>1. Lost' \subseteq Lost \cup {call[c].id}
    BY <1>7, LetGo DEF Cancel, auditVars, Owned, ExecutorTypeOK
  <2>2. QED
    BY <1>7, <2>1 DEF Cancel
<1>8. CASE Run(c) \/ Reopens(c) \/ Fails
  <2>1. execs' = execs /\ told' = told /\ faults' \in {faults, faults + 1}
    BY <1>8 DEF Run, Reopens, Fails, auditVars, NoFault, Fault
  <2>2. \A d \in Callers : Inside(d) /\ Live(d) => Inside(d)' /\ Live(d)' /\ call'[d].id = call[d].id
    <3>1. CASE Run(c)
      <4>1. PICK ok \in BOOLEAN : call' = [call EXCEPT ![c].pc = "update", ![c].ok = ok]
        BY <3>1 DEF Run
      <4>2. \A d \in Callers : call'[d].id = call[d].id /\ (call[d].pc # "idle" => call'[d].pc # "idle")
        BY <4>1 DEF Owned, ExecutorTypeOK, Execution
      <4>3. QED
        BY <3>1, <4>2 DEF Run, Inside, Live
    <3>2. CASE Reopens(c) \/ Fails
      BY <3>2 DEF Reopens, Fails, NoFault, Fault, Inside, Live
    <3>3. QED
      BY <1>8, <3>1, <3>2
  <2>3. Lost' \subseteq Lost
    BY <2>1, <2>2 DEF Lost, HeldLive, Agrees
  <2>4. QED
    BY <2>1, <2>3
<1>9. QED
  BY <1>2, <1>3, <1>4, <1>5, <1>6, <1>7, <1>8 DEF Effect

LEMMA LostCounted ==
  ASSUME Owned, Cardinality(Lost) <= faults, NEW c \in Callers, Effect(c)
  PROVE  Cardinality(Lost') <= faults'
<1>1. IsFiniteSet(Lost) /\ Cardinality(Lost) \in Nat /\ faults \in Nat
  BY LostFinite, FS_CardinalityType DEF Owned, ExecutorTypeOK
<1>2. CASE Lost' \subseteq Lost /\ faults' \in {faults, faults + 1}
  <2>1. Cardinality(Lost') \in Nat /\ Cardinality(Lost') <= Cardinality(Lost)
    BY <1>1, <1>2, FS_Subset, FS_CardinalityType
  <2>2. QED
    BY <1>1, <1>2, <2>1
<1>3. ASSUME NEW k, Lost' \subseteq Lost \cup {k}, faults' = faults + 1
      PROVE  Cardinality(Lost') <= faults'
  <2>1. IsFiniteSet(Lost \cup {k}) /\ Cardinality(Lost \cup {k}) <= Cardinality(Lost) + 1
    <3>1. /\ IsFiniteSet(Lost \cup {k})
          /\ Cardinality(Lost \cup {k}) = IF k \in Lost THEN Cardinality(Lost) ELSE Cardinality(Lost) + 1
      BY <1>1, FS_AddElement
    <3>2. QED
      BY <1>1, <3>1
  <2>2. IsFiniteSet(Lost') /\ Cardinality(Lost') <= Cardinality(Lost \cup {k})
    BY <1>3, <2>1, FS_Subset
  <2>3. Cardinality(Lost') \in Nat /\ Cardinality(Lost \cup {k}) \in Nat
    BY <2>1, <2>2, FS_CardinalityType
  <2>4. QED
    BY <1>1, <1>3, <2>1, <2>2, <2>3
<1>4. QED
  BY <1>2, <1>3, LostStep

-----------------------------------------------------------------------------
(* The audit table.                                                         *)

LEMMA AuditStep ==
  ASSUME AuditInductive, [Next]_vars
  PROVE  AuditInductive'
<1>1. CASE UNCHANGED executorVars
  BY <1>1 DEF AuditInductive, executorVars, auditVars, ExecutorTypeOK, HoldsOwnRow, Inside, Lost,
              HeldLive, Live, Agrees
<1>2. ASSUME NEW c \in Callers, Effect(c) PROVE AuditInductive'
  BY <1>2, EffectOwned, LostCounted DEF AuditInductive, Owned
<1>3. QED
  BY <1>1, <1>2, NextEffect DEF vars

\* The strengthening of AuditAgrees is inductive: a call owns its row, and the rows it
\* lost, or will lose to a cancelled context, are paid for.
THEOREM AgentAuditInductive == Spec => []AuditInductive
<1>1. Init => AuditInductive
  <2> SUFFICES ASSUME Init PROVE AuditInductive
    OBVIOUS
  <2>1. ExecutorTypeOK /\ Len(told) = Len(execs) /\ HoldsOwnRow
    BY DEF Init, ExecutorInit, ExecutorTypeOK, HoldsOwnRow, Inside, NoExecution, Execution
  <2>2. Lost = {}
    BY DEF Init, ExecutorInit, Lost
  <2>3. Cardinality(Lost) <= faults
    BY <2>2, FS_EmptySet DEF Init, ExecutorInit
  <2>4. QED
    BY <2>1, <2>3 DEF AuditInductive
<1>2. QED
  BY <1>1, AuditStep, PTL DEF Spec

\* Whatever is registered, replied and asked for, and however much goes wrong: each
\* thing that goes wrong costs the audit at most one row.
THEOREM AgentAuditAgrees == Spec => []AuditAgrees
<1>1. AuditInductive => AuditAgrees
  <2> SUFFICES ASSUME AuditInductive PROVE Cardinality(Wrong) <= faults
    BY DEF AuditAgrees
  <2>1. Wrong \subseteq Lost
    BY DEF Wrong, Lost, Held, HeldLive
  <2>2. IsFiniteSet(Lost)
    BY LostFinite DEF AuditInductive, ExecutorTypeOK
  <2>3. /\ IsFiniteSet(Wrong) /\ Cardinality(Wrong) <= Cardinality(Lost)
        /\ Cardinality(Lost) \in Nat
    BY <2>1, <2>2, FS_Subset, FS_CardinalityType
  <2>4. Cardinality(Wrong) \in Nat
    BY <2>3, FS_CardinalityType
  <2>5. QED
    BY <2>3, <2>4 DEF AuditInductive, ExecutorTypeOK
<1>2. QED
  BY <1>1, AgentAuditInductive, PTL

LEMMA EffectAudit ==
  ASSUME Owned, NEW c \in Callers, Effect(c)
  PROVE  [Audit!Next]_execs
<1>1. ASSUME NEW tool \in DOMAIN Registry, Starts(c, tool) \/ Orphans(c, tool)
      PROVE  Audit!Next
  BY <1>1 DEF Starts, Orphans, Announces, CreateRow, Audit!Next, Audit!Announce
<1>2. CASE Settles(c)
  <2>1. call[c].id \in DOMAIN execs /\ execs[call[c].id].status = "running"
    BY <1>2 DEF Owned, HoldsOwnRow, Inside, Settles, Ends
  <2>2. Audit!Settle(call[c].id, Settled(c)) /\ Settled(c) \in {"completed", "failed"}
    BY <1>2, <2>1 DEF Settles, Settled, Audit!Settle
  <2>3. QED
    BY <2>1, <2>2 DEF Audit!Next
<1>3. CASE Run(c) \/ Drops(c) \/ Reopens(c) \/ Abandon(c) \/ Cancel(c) \/ Fails
  BY <1>3 DEF Run, Drops, Reopens, Abandon, Cancel, Fails, auditVars
<1>4. QED
  BY <1>1, <1>2, <1>3 DEF Effect

\* Runs are announced and settled at most once, and the model and the batch never run a
\* tool that needs approval, whatever the model asks for.
THEOREM AgentImplementsAudit == Spec => ImplementsAudit
<1>1. Init => Audit!Init
  BY DEF Init, ExecutorInit, Audit!Init
<1>2. ASSUME AuditInductive, [Next]_vars PROVE [Audit!Next]_execs
  <2>1. CASE UNCHANGED executorVars
    BY <2>1 DEF executorVars, auditVars
  <2>2. ASSUME NEW c \in Callers, Effect(c) PROVE [Audit!Next]_execs
    BY <1>2, <2>2, EffectAudit DEF AuditInductive, Owned
  <2>3. QED
    BY <1>2, <2>1, <2>2, NextEffect DEF vars
<1>3. QED
  BY <1>1, <1>2, AgentAuditInductive, PTL DEF Spec, ImplementsAudit, Audit!Spec

-----------------------------------------------------------------------------
(* The conversation.                                                        *)

Conversation == ag \in [Investigators -> Local] /\ AnswersInOrder

\* An investigator's locals, well typed and with its tool calls answered in order.
Orderly(l) ==
    /\ l \in Local
    /\ IF l.pc = "calls"
       THEN l.next \in 1 .. Len(l.calls) /\ l.unanswered = Len(l.calls) + 1 - l.next
       ELSE l.pc # "end" => l.unanswered = 0

LEMMA ConversationOrderly ==
  Conversation <=> ag \in [Investigators -> Local] /\ \A w \in Investigators : Orderly(ag[w])
BY DEF Conversation, AnswersInOrder, Orderly, At

LEMMA OrderlyStep ==
  ASSUME Conversation, NEW w \in Investigators, NEW l, Orderly(l), ag' = [ag EXCEPT ![w] = l]
  PROVE  Conversation'
<1>1. ag' \in [Investigators -> Local]
  BY DEF Conversation, Orderly
<1>2. \A v \in Investigators : Orderly(ag'[v])
  BY ConversationOrderly DEF Conversation
<1>3. QED
  BY <1>1, <1>2 DEF Conversation, AnswersInOrder, Orderly, At

LEMMA EndOrderly ==
  ASSUME Conversation, NEW w \in Investigators, NEW outcome \in {"rca", "waiting", "invalid", "error", "crashed"},
         End(w, outcome)
  PROVE  Conversation'
<1> DEFINE l == [ag[w] EXCEPT !.pc = "end", !.outcome = outcome]
<1>1. Orderly(l)
  BY DEF Conversation, Orderly, Local
<1>2. ag' = [ag EXCEPT ![w] = l]
  BY DEF End, Conversation, Local
<1> HIDE DEF l
<1>3. QED
  BY <1>1, <1>2, OrderlyStep

LEMMA BatchOrderly ==
  ASSUME Conversation, NEW w \in Investigators, At(w, "batch"), BatchOver(w) \/ BatchNext(w)
  PROVE  Conversation'
<1>0. Orderly(ag[w]) /\ ag[w] \in Local
  BY ConversationOrderly DEF Conversation
<1>1. CASE ag' = [ag EXCEPT ![w].pc = "lookup"]
  <2> DEFINE l == [ag[w] EXCEPT !.pc = "lookup"]
  <2>1. Orderly(l)
    BY <1>0 DEF Orderly, Local, At
  <2>2. ag' = [ag EXCEPT ![w] = l]
    BY <1>1 DEF Conversation, Local
  <2> HIDE DEF l
  <2>3. QED
    BY <2>1, <2>2, OrderlyStep
<1>2. CASE ag' = [ag EXCEPT ![w].next = @ + 1]
  <2> DEFINE l == [ag[w] EXCEPT !.next = @ + 1]
  <2>1. Orderly(l)
    BY <1>0 DEF Orderly, Local, At
  <2>2. ag' = [ag EXCEPT ![w] = l]
    BY <1>2 DEF Conversation, Local
  <2> HIDE DEF l
  <2>3. QED
    BY <2>1, <2>2, OrderlyStep
<1>3. QED
  BY <1>1, <1>2 DEF BatchOver, BatchNext

LEMMA AnswerOrderly ==
  ASSUME Conversation, NEW w \in Investigators, At(w, "calls"), Answer(w)
  PROVE  Conversation'
<1>0. Orderly(ag[w]) /\ ag[w] \in Local
  BY ConversationOrderly DEF Conversation
<1>1. /\ ag[w].next \in 1 .. Len(ag[w].calls) /\ Len(ag[w].calls) \in Nat
      /\ ag[w].unanswered = Len(ag[w].calls) + 1 - ag[w].next
  BY <1>0 DEF Orderly, At, Local
<1>2. CASE ~LastCall(w)
  <2> DEFINE l == [ag[w] EXCEPT !.next = @ + 1, !.unanswered = @ - 1]
  <2>1. Orderly(l)
    <3>1. /\ ag[w].next + 1 \in 1 .. Len(ag[w].calls)
          /\ ag[w].unanswered - 1 = Len(ag[w].calls) + 1 - (ag[w].next + 1)
      <4>0. ag[w].next # Len(ag[w].calls)
        BY <1>2, Zenon DEF LastCall
      <4> DEFINE n == ag[w].next
                 m == Len(ag[w].calls)
      <4>1. n \in 1 .. m /\ m \in Nat /\ n # m /\ ag[w].unanswered = m + 1 - n
        BY <1>1, <4>0
      <4> HIDE DEF n, m
      <4>2. n \in Int /\ m \in Int /\ 1 <= n /\ n <= m /\ n # m
        BY <4>1
      <4>3. n + 1 \in 1 .. m
        BY <4>2
      <4>4. ag[w].unanswered - 1 = m + 1 - (n + 1)
        BY <4>1
      <4>5. QED
        BY <4>3, <4>4 DEF n, m
    <3>2. ag[w].next + 1 \in Nat /\ ag[w].unanswered - 1 \in Int
      BY <1>0 DEF Local
    <3>3. l \in Local
      BY <1>0, <3>2 DEF Local
    <3>4. /\ l.pc = "calls" /\ l.next = ag[w].next + 1 /\ l.calls = ag[w].calls
          /\ l.unanswered = ag[w].unanswered - 1
      BY <1>0 DEF Local, At
    <3> HIDE DEF l
    <3>5. QED
      BY <3>1, <3>3, <3>4 DEF Orderly
  <2>2. ag' = [ag EXCEPT ![w] = l]
    <3>1. ag' = [ag EXCEPT ![w].next = @ + 1, ![w].unanswered = @ - 1]
      BY <1>2, Zenon DEF Answer
    <3>2. QED
      BY <3>1, Zenon
  <2> HIDE DEF l
  <2>3. QED
    BY <2>1, <2>2, OrderlyStep
<1>3. CASE LastCall(w)
  <2>1. PICK pc \in {"generate", "parse"} :
            ag' = [ag EXCEPT ![w].round = @ + 1, ![w].unanswered = @ - 1, ![w].pc = pc]
    BY <1>3 DEF Answer
  <2> DEFINE l == [ag[w] EXCEPT !.round = @ + 1, !.unanswered = @ - 1, !.pc = pc]
  <2>2. Orderly(l)
    <3>1. ag[w].unanswered - 1 = 0
      BY <1>1, <1>3 DEF LastCall
    <3>2. ag[w].round + 1 \in Nat /\ ag[w].unanswered - 1 \in Int
      BY <1>0 DEF Local
    <3>3. l \in Local
      BY <1>0, <3>2 DEF Local
    <3>4. l.pc = pc /\ l.unanswered = ag[w].unanswered - 1
      BY <1>0 DEF Local
    <3> HIDE DEF l
    <3>5. QED
      BY <3>1, <3>3, <3>4 DEF Orderly
  <2>3. ag' = [ag EXCEPT ![w] = l]
    BY <2>1 DEF Conversation, Local
  <2> HIDE DEF l
  <2>4. QED
    BY <2>2, <2>3, OrderlyStep
<1>4. QED
  BY <1>2, <1>3

LEMMA GenerateOrderly ==
  ASSUME Conversation, NEW w \in Investigators, Generate(w)
  PROVE  Conversation'
<1>0. Orderly(ag[w]) /\ ag[w] \in Local
  BY ConversationOrderly DEF Conversation
<1>1. ASSUME NEW calls \in CallLists, NEW valid \in BOOLEAN,
             ag' = [ag EXCEPT ![w].pc = IF calls = <<>> THEN "parse" ELSE "calls",
                              ![w].next = 1, ![w].calls = calls,
                              ![w].unanswered = @ + Len(calls), ![w].valid = valid]
      PROVE  Conversation'
  <2> DEFINE l == [ag[w] EXCEPT !.pc = IF calls = <<>> THEN "parse" ELSE "calls",
                                !.next = 1, !.calls = calls,
                                !.unanswered = @ + Len(calls), !.valid = valid]
  <2>1. calls \in Seq(ToolCall) /\ Len(calls) \in Nat /\ (calls = <<>> <=> Len(calls) = 0)
    OBVIOUS
  <2>2. ag[w].unanswered = 0
    BY <1>0 DEF Orderly, Generate, At
  <2>3. Orderly(l)
    <3>1. ag[w].unanswered + Len(calls) = Len(calls)
      BY <2>1, <2>2
    <3>2. l \in Local
      <4>1. (IF calls = <<>> THEN "parse" ELSE "calls") \in {"parse", "calls"}
        OBVIOUS
      <4>2. ag[w].unanswered + Len(calls) \in Int
        BY <2>1, <3>1
      <4>3. QED
        BY <1>0, <2>1, <4>1, <4>2 DEF Local
    <3>3. /\ l.pc = IF calls = <<>> THEN "parse" ELSE "calls"
          /\ l.next = 1 /\ l.calls = calls /\ l.unanswered = Len(calls)
      BY <1>0, <3>1 DEF Local
    <3> HIDE DEF l
    <3>4. QED
      BY <2>1, <3>2, <3>3 DEF Orderly
  <2>4. ag' = [ag EXCEPT ![w] = l]
    BY <1>1 DEF Conversation, Local
  <2> HIDE DEF l
  <2>5. QED
    BY <2>3, <2>4, OrderlyStep
<1>2. CASE End(w, "waiting")
  BY <1>2, EndOrderly
<1>3. QED
  BY <1>1, <1>2 DEF Generate

LEMMA ConversationStep ==
  ASSUME Conversation, [Next]_vars
  PROVE  Conversation'
<1>1. CASE Stay
  BY <1>1 DEF Stay, Conversation, AnswersInOrder, At
<1>2. ASSUME NEW w \in Investigators, Step(w) \/ Shutdown(w) \/ Crash(w), ~Stay
      PROVE  Conversation'
  <2>1. CASE BatchCall(w) \/ BatchReturn(w)
    <3>1. BatchOver(w) \/ BatchNext(w)
      BY <1>2, <2>1 DEF BatchCall, BatchReturn, Execute, Begin, Update
    <3>2. QED
      BY <2>1, <3>1, BatchOrderly DEF BatchCall, BatchReturn
  <2>2. CASE Lookup(w)
    <3>1. CASE ag' = [ag EXCEPT ![w].pc = "generate"]
      <4> DEFINE l == [ag[w] EXCEPT !.pc = "generate"]
      <4>1. Orderly(ag[w]) /\ ag[w] \in Local
        BY ConversationOrderly DEF Conversation
      <4>2. Orderly(l)
        BY <2>2, <4>1 DEF Orderly, Local, Lookup, At
      <4>3. ag' = [ag EXCEPT ![w] = l]
        BY <3>1 DEF Conversation, Local
      <4> HIDE DEF l
      <4>4. QED
        BY <4>2, <4>3, OrderlyStep
    <3>2. CASE End(w, "error")
      BY <3>2, EndOrderly
    <3>3. QED
      BY <2>2, <3>1, <3>2 DEF Lookup
  <2>3. CASE Generate(w)
    BY <2>3, GenerateOrderly
  <2>4. CASE CallTool(w) \/ CallReturn(w)
    <3>1. Answer(w)
      BY <1>2, <2>4 DEF CallTool, CallReturn, Execute, Begin, Update
    <3>2. QED
      BY <2>4, <3>1, AnswerOrderly DEF CallTool, CallReturn
  <2>5. CASE Parse(w)
    BY <2>5, EndOrderly DEF Parse
  <2>6. CASE Crash(w)
    BY <2>6, EndOrderly DEF Crash
  <2>7. QED
    BY <1>2, <2>1, <2>2, <2>3, <2>4, <2>5, <2>6 DEF Step, Shutdown
<1>3. ASSUME NEW o \in Operators, OperatorStep(o) PROVE Stay
  BY <1>3 DEF OperatorStep, OperatorCall, OperatorReturn, NextRequest, Begin, Update, Stay
<1>4. QED
  BY <1>1, <1>2, <1>3 DEF Next, vars, Stay

LEMMA AgentConversation == Spec => []Conversation
<1>1. Init => Conversation
  BY DEF Init, Start, Conversation, AnswersInOrder, Local, At
<1>2. QED
  BY <1>1, ConversationStep, PTL DEF Spec

\* The audit table, the calls in flight and the locals of every attempt stay well typed.
THEOREM AgentTypeOK == Spec => []TypeOK
<1>1. AuditInductive /\ Conversation => TypeOK
  BY DEF AuditInductive, Conversation, TypeOK
<1>2. QED
  BY <1>1, AgentAuditInductive, AgentConversation, PTL

\* Whatever the model asks for, and whatever becomes of it, every tool call has its
\* answer before the model is asked again or its reply is taken as the root cause.
THEOREM AgentCallsAnswered == Spec => []CallsAnswered
<1>1. Conversation => CallsAnswered
  BY DEF Conversation, AnswersInOrder, CallsAnswered, At
<1>2. QED
  BY <1>1, AgentConversation, PTL

-----------------------------------------------------------------------------
(* How many tools an attempt runs.                                          *)

RowsOf(w) == {k \in DOMAIN execs : execs[k].by = w}

\* The rows an attempt may have made by now: those of the batch so far, or of the
\* whole batch, the rounds before this one and the calls of this one so far.
Allowance(l, busy) ==
    IF l.pc = "batch" THEN l.next - 1 + busy
    ELSE IF l.pc \in {"parse", "end"} THEN Len(BatchTools) + maxAgentRounds * MostCalls
    ELSE Len(BatchTools) + l.round * MostCalls
             + IF l.pc = "calls" THEN l.next - 1 + busy ELSE 0

Within(l) ==
    /\ l.pc = "batch" => l.next <= Len(BatchTools) /\ l.next >= 1 /\ l.round = 0
    /\ l.pc = "lookup" => l.round = 0
    /\ l.pc \in {"generate", "calls"} => l.round < maxAgentRounds
    /\ l.pc = "calls" => Len(l.calls) <= MostCalls

Busy(w) == IF Inside(w) THEN 1 ELSE 0

\* A call of Execute is only under way in the batch, or in the calls of a reply.
Accounted(w) ==
    /\ Within(ag[w])
    /\ Inside(w) => At(w, "batch") \/ At(w, "calls")
    /\ IsFiniteSet(RowsOf(w))
    /\ Cardinality(RowsOf(w)) <= Allowance(ag[w], Busy(w))

RepliesBounded == MostCalls \in Nat /\ \A calls \in CallLists : Len(calls) <= MostCalls

\* MostCalls is the length of the longest reply, if there is one.
LEMMA LongestReply ==
  ASSUME CallLists # {}, NEW n \in Nat, \A calls \in CallLists : Len(calls) <= n
  PROVE  RepliesBounded
<1> DEFINE L == {Len(calls) : calls \in CallLists}
           Above == {m \in Nat : \A k \in L : k <= m}
<1>1. L \subseteq Nat
  OBVIOUS
<1>2. n \in Above
  OBVIOUS
<1>3. PICK m \in Above : \A k \in Above : ~(<<k, m>> \in OpToRel(<, Nat))
  BY <1>2, WFMin, NatLessThanWellFounded
<1>4. m \in L
  <2> SUFFICES ASSUME m \notin L PROVE FALSE
    OBVIOUS
  <2>1. PICK k \in L : TRUE
    OBVIOUS
  <2>2. m \in Nat /\ \A j \in L : j <= m /\ j # m /\ j \in Nat
    BY <1>1, <1>3
  <2>3. m - 1 \in Nat /\ \A j \in L : j <= m - 1
    BY <2>1, <2>2
  <2>4. m - 1 \in Above /\ m - 1 < m
    BY <2>2, <2>3
  <2>5. QED
    BY <1>3, <2>2, <2>3, <2>4 DEF OpToRel
<1>5. m \in Nat /\ \A calls \in CallLists : Len(calls) <= m
  BY <1>3
<1>6. MostCalls \in L /\ \A calls \in CallLists : Len(calls) <= MostCalls
  BY <1>4, <1>5 DEF MostCalls
<1>7. QED
  BY <1>1, <1>6 DEF RepliesBounded

\* Changing the state of a row leaves each attempt the rows it had.
LEMMA RowsKept ==
  ASSUME execs \in Seq(Row), NEW w,
         execs' = execs \/ \E k \in DOMAIN execs, s \in {"completed", "failed"} :
                               execs' = [execs EXCEPT ![k].status = s]
  PROVE  RowsOf(w)' = RowsOf(w)
<1>1. DOMAIN execs' = DOMAIN execs /\ \A k \in DOMAIN execs : execs'[k].by = execs[k].by
  <2>1. CASE execs' = execs
    BY <2>1
  <2>2. ASSUME NEW k \in DOMAIN execs, NEW s \in {"completed", "failed"},
               execs' = [execs EXCEPT ![k].status = s]
        PROVE  DOMAIN execs' = DOMAIN execs /\ \A j \in DOMAIN execs : execs'[j].by = execs[j].by
    <3>1. execs = [j \in DOMAIN execs |-> execs[j]] /\ \A j \in DOMAIN execs : execs[j] \in Row
      OBVIOUS
    <3>2. DOMAIN execs' = DOMAIN execs
      BY <2>2
    <3>3. execs'[k] = [execs[k] EXCEPT !.status = s] /\ execs[k] \in Row
      BY <2>2, <3>1
    <3>4. execs'[k].by = execs[k].by
      BY <3>3 DEF Row
    <3>5. \A j \in DOMAIN execs : j # k => execs'[j] = execs[j]
      BY <2>2
    <3>6. QED
      BY <3>2, <3>4, <3>5
  <2>3. QED
    BY <2>1, <2>2
<1>2. QED
  BY <1>1 DEF RowsOf

\* An insert gives its caller one more row, and nobody else.
LEMMA RowsGrow ==
  ASSUME execs \in Seq(Row), NEW c \in Callers, NEW tool \in DOMAIN Registry, CreateRow(c, tool),
         NEW w
  PROVE  RowsOf(w)' = IF w = c THEN RowsOf(w) \cup {Len(execs) + 1} ELSE RowsOf(w)
<1> DEFINE row == [tool |-> tool, by |-> c, status |-> "running"]
<1>1. execs' = Append(execs, row) /\ row.by = c
  BY DEF CreateRow
<1> HIDE DEF row
<1>2. /\ Len(execs) \in Nat /\ DOMAIN execs = 1..Len(execs)
      /\ DOMAIN execs' = 1..(Len(execs) + 1)
      /\ execs'[Len(execs) + 1] = row
      /\ \A k \in 1..Len(execs) : execs'[k] = execs[k]
  BY <1>1
<1>3. DOMAIN execs' = DOMAIN execs \cup {Len(execs) + 1} /\ Len(execs) + 1 \notin DOMAIN execs
  BY <1>2
<1>4. QED
  BY <1>1, <1>2, <1>3 DEF RowsOf

\* More rounds allow more calls.
LEMMA MoreRounds ==
  ASSUME RepliesBounded, NEW m \in Nat, NEW n \in Nat, m < n
  PROVE  /\ m * MostCalls \in Nat /\ n * MostCalls \in Nat
         /\ (m + 1) * MostCalls = m * MostCalls + MostCalls
         /\ (m + 1) * MostCalls <= n * MostCalls
<1>1. PICK d \in Nat : n = (m + 1) + d
  <2>1. n - (m + 1) \in Nat /\ n = (m + 1) + (n - (m + 1))
    OBVIOUS
  <2>2. QED
    BY <2>1
<1>2. MostCalls \in Nat
  BY DEF RepliesBounded
<1> DEFINE x == MostCalls
<1> HIDE DEF x
<1>3. x \in Nat
  BY <1>2 DEF x
<1>4. m * x \in Nat /\ d * x \in Nat /\ n * x \in Nat
  BY <1>3
<1>5. (m + 1) * x = m * x + x /\ ((m + 1) + d) * x = (m * x + x) + d * x
  BY <1>3
<1>6. QED
  BY <1>1, <1>3, <1>4, <1>5 DEF x

\* A call under way adds one.
LEMMA OneMore ==
  ASSUME RepliesBounded, Conversation, NEW w \in Investigators, Within(ag[w]),
         At(w, "batch") \/ At(w, "calls")
  PROVE  Allowance(ag[w], 1) \in Nat /\ Allowance(ag[w], 0) = Allowance(ag[w], 1) - 1
<1> DEFINE l == ag[w]
           r == l.round * MostCalls
           B == Len(BatchTools)
<1>1. l \in Local /\ Orderly(l)
  BY ConversationOrderly DEF Conversation
<1>2. /\ l.next \in Nat /\ B \in Nat /\ l.round \in Nat /\ MostCalls \in Nat /\ r \in Nat
      /\ Len(l.calls) \in Nat
  BY <1>1 DEF Local, RepliesBounded
<1>3. l.next >= 1
  BY <1>1, <1>2 DEF Within, Orderly, At
<1> HIDE DEF r
<1>4. CASE At(w, "batch")
  BY <1>2, <1>3, <1>4 DEF Allowance, At
<1>5. CASE At(w, "calls")
  <2>1. Allowance(l, 1) = B + r + (l.next - 1 + 1) /\ Allowance(l, 0) = B + r + (l.next - 1 + 0)
    BY <1>5 DEF Allowance, At, r
  <2>2. QED
    BY <1>2, <1>3, <2>1
<1>6. QED
  BY <1>4, <1>5

\* No attempt is ever allowed more than the batch and all rounds together.
LEMMA AllowanceCapped ==
  ASSUME RepliesBounded, Conversation, NEW w \in Investigators, Within(ag[w]), NEW busy \in {0, 1}
  PROVE  /\ Allowance(ag[w], busy) \in Nat
         /\ Len(BatchTools) + maxAgentRounds * MostCalls \in Nat
         /\ Allowance(ag[w], busy) <= Len(BatchTools) + maxAgentRounds * MostCalls
<1> DEFINE l == ag[w]
           r == l.round * MostCalls
           q == maxAgentRounds * MostCalls
           B == Len(BatchTools)
<1>1. l \in Local /\ Orderly(l)
  BY ConversationOrderly DEF Conversation
<1>2. /\ l.next \in Nat /\ B \in Nat /\ l.round \in Nat /\ MostCalls \in Nat /\ r \in Nat
      /\ Len(l.calls) \in Nat /\ q \in Nat /\ 0 * MostCalls = 0
  BY <1>1 DEF Local, RepliesBounded
<1>3. l.pc \in {"generate", "calls"} => r + MostCalls <= q
  BY <1>2, MoreRounds DEF Within
<1>4. l.pc = "lookup" => r = 0
  BY <1>2 DEF Within
<1>5. /\ l.pc = "batch" => l.next >= 1 /\ l.next <= B
      /\ l.pc = "calls" => l.next >= 1 /\ l.next <= MostCalls
  BY <1>1, <1>2 DEF Within, Orderly
<1>6. l.pc \in {"batch", "lookup", "generate", "calls", "parse", "end"}
  BY <1>1 DEF Local
<1> HIDE DEF r, q
<1>7. Allowance(l, busy) = IF l.pc = "batch" THEN l.next - 1 + busy
                           ELSE IF l.pc \in {"parse", "end"} THEN B + q
                           ELSE B + r + IF l.pc = "calls" THEN l.next - 1 + busy ELSE 0
  BY DEF Allowance, r, q
<1> HIDE DEF l, B
<1>8. Allowance(l, busy) \in Nat /\ B + q \in Nat /\ Allowance(l, busy) <= B + q
  BY <1>2, <1>3, <1>4, <1>5, <1>6, <1>7
<1>9. QED
  BY <1>8 DEF l, q, B

\* A call that has ended, or was refused, leads to where at least its own row is allowed.
LEMMA MovedOn ==
  ASSUME RepliesBounded, Conversation, NEW w \in Investigators, Within(ag[w]),
         \/ At(w, "batch") /\ (BatchOver(w) \/ BatchNext(w))
         \/ At(w, "calls") /\ Answer(w)
  PROVE  /\ Within(ag'[w])
         /\ Allowance(ag[w], 1) \in Nat /\ Allowance(ag[w], 0) = Allowance(ag[w], 1) - 1
         /\ Allowance(ag'[w], 0) \in Nat /\ Allowance(ag'[w], 0) >= Allowance(ag[w], 1)
<1> DEFINE l == ag[w]
           B == Len(BatchTools)
<1>1. l \in Local /\ Orderly(l)
  BY ConversationOrderly DEF Conversation
<1>2. l.next \in Nat /\ l.round \in Nat /\ B \in Nat /\ maxAgentRounds \in Nat /\ MostCalls \in Nat
  BY <1>1 DEF Local, RepliesBounded
<1>3. CASE At(w, "batch")
  <2>1. 1 <= l.next /\ l.next <= B /\ l.round = 0
    BY <1>3 DEF Within, At
  <2>2. Allowance(l, 1) = l.next /\ Allowance(l, 0) = l.next - 1
    BY <1>2, <1>3 DEF Allowance, At
  <2>3. CASE BatchOver(w)
    <3>1. ag'[w].pc = "lookup" /\ ag'[w].round = 0
      BY <2>1, <2>3, <1>1 DEF BatchOver, Conversation, Local
    <3>2. 0 * MostCalls = 0
      BY <1>2
    <3>3. Allowance(ag'[w], 0) = B
      BY <1>2, <3>1, <3>2 DEF Allowance
    <3>4. QED
      BY <1>2, <2>1, <2>2, <3>1, <3>3 DEF Within
  <2>4. CASE l.next < B /\ BatchNext(w)
    <3>1. ag'[w].pc = "batch" /\ ag'[w].next = l.next + 1 /\ ag'[w].round = 0
      BY <1>1, <1>3, <2>1, <2>4 DEF BatchNext, Conversation, Local, At
    <3>2. Allowance(ag'[w], 0) = l.next
      BY <1>2, <3>1 DEF Allowance
    <3>3. QED
      BY <1>2, <2>1, <2>2, <2>4, <3>1, <3>2 DEF Within
  <2>5. QED
    BY <1>3, <2>3, <2>4 DEF BatchNext, At
<1>4. CASE At(w, "calls")
  <2> DEFINE r == l.round * MostCalls
  <2>1. /\ l.next >= 1 /\ l.next <= Len(l.calls) /\ Len(l.calls) \in Nat
        /\ Len(l.calls) <= MostCalls /\ l.round < maxAgentRounds
    BY <1>1, <1>2, <1>4 DEF Orderly, Within, At, Local
  <2>2. /\ r \in Nat /\ (l.round + 1) * MostCalls = r + MostCalls
        /\ maxAgentRounds * MostCalls \in Nat
        /\ r + MostCalls <= maxAgentRounds * MostCalls
    BY <1>2, <2>1, MoreRounds
  <2> HIDE DEF r
  <2>3. Allowance(l, 1) = B + r + l.next /\ Allowance(l, 0) = B + r + (l.next - 1)
    BY <1>2, <1>4, <2>1, <2>2 DEF Allowance, At, r
  <2>4. CASE ~LastCall(w)
    <3>1. /\ ag'[w].pc = "calls" /\ ag'[w].next = l.next + 1 /\ ag'[w].round = l.round
          /\ ag'[w].calls = l.calls
      BY <1>1, <1>3, <1>4, <2>4 DEF Answer, Conversation, Local, At
    <3>2. Allowance(ag'[w], 0) = B + r + l.next
      BY <1>2, <2>2, <3>1 DEF Allowance, r
    <3>3. Within(ag'[w])
      BY <1>2, <2>1, <3>1 DEF Within
    <3>4. B + r + l.next \in Nat /\ B + r + (l.next - 1) = (B + r + l.next) - 1
      BY <1>2, <2>2
    <3>5. QED
      BY <2>3, <3>2, <3>3, <3>4
  <2>5. CASE LastCall(w)
    <3>1. /\ ag'[w].round = l.round + 1
          /\ ag'[w].pc = IF l.round + 1 < maxAgentRounds THEN "generate" ELSE "parse"
      BY <1>1, <1>3, <1>4, <2>5 DEF Answer, Conversation, Local, At
    <3>2. \/ Allowance(ag'[w], 0) = B + (r + MostCalls)
          \/ Allowance(ag'[w], 0) = B + maxAgentRounds * MostCalls
      BY <1>2, <2>2, <3>1 DEF Allowance
    <3>3. Within(ag'[w])
      BY <1>2, <3>1 DEF Within
    <3> DEFINE q == maxAgentRounds * MostCalls
               a == Allowance(ag'[w], 0)
    <3>4. (a = B + (r + MostCalls) \/ a = B + q) /\ q \in Nat /\ r + MostCalls <= q
      BY <2>2, <3>2
    <3> HIDE DEF q, a
    <3>5. a \in Nat /\ a >= B + r + l.next
      BY <1>2, <2>1, <2>2, <3>4
    <3>6. QED
      BY <1>2, <2>1, <2>2, <2>3, <3>3, <3>5 DEF a
  <2>6. QED
    BY <2>4, <2>5
<1>5. QED
  BY <1>3, <1>4

LEMMA AddOne ==
  ASSUME NEW S, NEW x, IsFiniteSet(S)
  PROVE  IsFiniteSet(S \cup {x}) /\ Cardinality(S \cup {x}) <= Cardinality(S) + 1
<1>1. /\ IsFiniteSet(S \cup {x})
      /\ Cardinality(S \cup {x}) = IF x \in S THEN Cardinality(S) ELSE Cardinality(S) + 1
  BY FS_AddElement
<1>2. Cardinality(S) \in Nat
  BY FS_CardinalityType
<1>3. QED
  BY <1>1, <1>2

\* What a step of w may do to its rows, its call and its locals.
LEMMA AccountedStep ==
  ASSUME RepliesBounded, AuditInductive, Conversation, Conversation', NEW w \in Investigators,
         Accounted(w), Step(w) \/ Shutdown(w) \/ Crash(w)
  PROVE  Accounted(w)'
<1> DEFINE Moves == \/ At(w, "batch") /\ (BatchOver(w) \/ BatchNext(w))
                    \/ At(w, "calls") /\ Answer(w)
           Kept == RowsOf(w)' = RowsOf(w)
           Grown == /\ IsFiniteSet(RowsOf(w)')
                    /\ Cardinality(RowsOf(w)') <= Cardinality(RowsOf(w)) + 1
           Same == ag'[w] = ag[w]
<1>0. w \in Callers /\ execs \in Seq(Row) /\ call \in [Callers -> Execution]
  BY DEF AuditInductive, ExecutorTypeOK
<1>1. /\ IsFiniteSet(RowsOf(w)) /\ Cardinality(RowsOf(w)) \in Nat
      /\ Cardinality(RowsOf(w)) <= Allowance(ag[w], Busy(w))
      /\ Within(ag[w]) /\ (Inside(w) => At(w, "batch") \/ At(w, "calls"))
  BY FS_CardinalityType DEF Accounted
<1>2. ASSUME NEW tool \in DOMAIN Registry, CreateRow(w, tool) PROVE Grown
  <2>1. RowsOf(w)' = RowsOf(w) \cup {Len(execs) + 1}
    BY <1>0, <1>2, RowsGrow
  <2> DEFINE S == RowsOf(w)
             k == Len(execs) + 1
  <2>2. IsFiniteSet(S) /\ Cardinality(S) \in Nat
    BY <1>1
  <2> HIDE DEF S, k
  <2>3. IsFiniteSet(S \cup {k}) /\ Cardinality(S \cup {k}) <= Cardinality(S) + 1
    BY <2>2, AddOne
  <2>4. RowsOf(w)' = S \cup {k} /\ RowsOf(w) = S
    BY <2>1 DEF S, k
  <2>5. QED
    BY <2>3, <2>4
<1>3. ASSUME Moves, ~Inside(w)', Kept \/ (Grown /\ ~Inside(w))
      PROVE  Accounted(w)'
  <2>1. /\ Within(ag'[w])
        /\ Allowance(ag[w], 1) \in Nat /\ Allowance(ag[w], 0) = Allowance(ag[w], 1) - 1
        /\ Allowance(ag'[w], 0) \in Nat /\ Allowance(ag'[w], 0) >= Allowance(ag[w], 1)
    BY <1>1, <1>3, MovedOn
  <2>2. Busy(w)' = 0 /\ Busy(w) = IF Inside(w) THEN 1 ELSE 0
    BY <1>3 DEF Busy
  <2>3. /\ IsFiniteSet(RowsOf(w)') /\ Cardinality(RowsOf(w)') \in Nat
        /\ Cardinality(RowsOf(w)') <= Allowance(ag[w], 1)
    <3>1. CASE Kept
      BY <1>1, <2>1, <2>2, <3>1
    <3>2. CASE Grown /\ ~Inside(w)
      BY <1>1, <2>1, <2>2, <3>2, FS_CardinalityType
    <3>3. QED
      BY <1>3, <3>1, <3>2
  <2>4. Allowance(ag[w], Busy(w))' = Allowance(ag'[w], 0)
    BY <2>2 DEF Allowance
  <2>5. Cardinality(RowsOf(w)') <= Allowance(ag'[w], 0)
    <3> DEFINE x == Cardinality(RowsOf(w)')
               y == Allowance(ag[w], 1)
               z == Allowance(ag'[w], 0)
    <3>1. x \in Nat /\ y \in Nat /\ z \in Nat /\ x <= y /\ z >= y
      BY <2>1, <2>3
    <3> HIDE DEF x, y, z
    <3>2. x <= z
      BY <3>1
    <3>3. QED
      BY <3>2 DEF x, z
  <2>6. QED
    BY <1>3, <2>1, <2>3, <2>4, <2>5 DEF Accounted
<1>4. ASSUME Same, Kept, Inside(w)' <=> Inside(w) PROVE Accounted(w)'
  BY <1>1, <1>4 DEF Accounted, At, Allowance, Busy
<1>5. CASE BatchCall(w) \/ CallTool(w)
  <2>1. ~Inside(w) /\ (At(w, "batch") \/ At(w, "calls"))
    BY <1>5 DEF BatchCall, CallTool, Execute
  <2>2. \/ Moves /\ UNCHANGED <<execs, call>>
        \/ Moves /\ UNCHANGED call /\ \E tool \in DOMAIN Registry : CreateRow(w, tool)
        \/ /\ Stay /\ \E tool \in DOMAIN Registry : CreateRow(w, tool)
           /\ call' = [call EXCEPT ![w] = [pc |-> "run", id |-> Len(execs) + 1, ok |-> FALSE]]
    BY <1>5 DEF BatchCall, CallTool, Execute, Begin, Allowed, executorVars, auditVars
  <2>3. CASE Moves /\ UNCHANGED <<execs, call>>
    BY <1>3, <2>1, <2>3 DEF Inside, RowsOf
  <2>4. CASE Moves /\ UNCHANGED call /\ \E tool \in DOMAIN Registry : CreateRow(w, tool)
    BY <1>2, <1>3, <2>1, <2>4 DEF Inside
  <2>5. CASE /\ Stay /\ \E tool \in DOMAIN Registry : CreateRow(w, tool)
             /\ call' = [call EXCEPT ![w] = [pc |-> "run", id |-> Len(execs) + 1, ok |-> FALSE]]
    <3>1. Inside(w)' /\ Same
      BY <1>0, <2>5 DEF Inside, Stay
    <3>2. Busy(w)' = 1 /\ Busy(w) = 0
      BY <2>1, <3>1 DEF Busy
    <3>3. Allowance(ag[w], 1) \in Nat /\ Allowance(ag[w], 0) = Allowance(ag[w], 1) - 1
      BY <1>1, <2>1, OneMore
    <3>4. Cardinality(RowsOf(w)') <= Allowance(ag[w], 1) /\ IsFiniteSet(RowsOf(w)')
      BY <1>1, <1>2, <2>5, <3>2, <3>3, FS_CardinalityType
    <3>5. QED
      BY <1>1, <2>1, <3>1, <3>2, <3>4 DEF Accounted, At, Allowance
  <2>6. QED
    BY <2>2, <2>3, <2>4, <2>5
<1>6. CASE BatchReturn(w) \/ CallReturn(w)
  <2>1. Moves /\ call' = [call EXCEPT ![w] = NoExecution]
    BY <1>6 DEF BatchReturn, CallReturn, Update
  <2>2. PICK lost \in {"ok", "error"} : Settles(w) \/ Drops(w)
    BY <1>0, <1>6, UpdateEffect DEF BatchReturn, CallReturn
  <2>3. Inside(w) /\ call[w].id \in DOMAIN execs /\ ~Inside(w)'
    BY <1>0, <1>6, <2>1 DEF BatchReturn, CallReturn, Update, Inside, NoExecution, AuditInductive, HoldsOwnRow
  <2>4. Kept
    BY <1>0, <2>2, <2>3, RowsKept DEF Settles, Drops, Settled
  <2>5. QED
    BY <1>3, <2>1, <2>3, <2>4
<1>7. CASE Lookup(w) \/ Generate(w) \/ Parse(w) \/ Crash(w)
  <2>1. Kept
    BY <1>7 DEF Lookup, Generate, Parse, Crash, Abandon, RowsOf, executorVars, auditVars
  <2>2. ~Inside(w)'
    <3>1. CASE Crash(w)
      BY <1>0, <3>1 DEF Crash, Abandon, Inside, NoExecution
    <3>2. CASE Lookup(w) \/ Generate(w) \/ Parse(w)
      <4>1. ~At(w, "batch") /\ ~At(w, "calls") /\ call' = call
        BY <3>2 DEF Lookup, Generate, Parse, At, executorVars
      <4>2. QED
        BY <1>1, <4>1 DEF Inside
    <3>3. QED
      BY <1>7, <3>1, <3>2
  <2>3. SUFFICES /\ Within(ag'[w])
                 /\ Allowance(ag[w], Busy(w)) \in Int
                 /\ Allowance(ag'[w], 0) \in Nat
                 /\ Allowance(ag'[w], 0) >= Allowance(ag[w], Busy(w))
    <3> DEFINE x == Cardinality(RowsOf(w))
               y == Allowance(ag[w], Busy(w))
               z == Allowance(ag'[w], 0)
    <3>1. SUFFICES ASSUME Within(ag'[w]), y \in Int, z \in Nat, z >= y PROVE Accounted(w)'
      OBVIOUS
    <3>2. x \in Nat /\ x <= y
      BY <1>1
    <3> HIDE DEF x, y
    <3>3. x <= z
      BY <3>1, <3>2
    <3>4. Cardinality(RowsOf(w))' <= z /\ IsFiniteSet(RowsOf(w))'
      BY <1>1, <2>1, <3>3 DEF x
    <3>5. Allowance(ag[w], Busy(w))' = z
      BY <2>2 DEF Busy, Allowance
    <3> HIDE DEF z
    <3>6. QED
      BY <2>2, <3>1, <3>4, <3>5 DEF Accounted
  <2>4. /\ Allowance(ag[w], Busy(w)) \in Nat
        /\ Len(BatchTools) + maxAgentRounds * MostCalls \in Nat
        /\ Allowance(ag[w], Busy(w)) <= Len(BatchTools) + maxAgentRounds * MostCalls
    BY <1>1, AllowanceCapped DEF Busy
  <2>5. CASE ag'[w].pc \in {"parse", "end"}
    <3>1. Allowance(ag'[w], 0) = Len(BatchTools) + maxAgentRounds * MostCalls
      BY <2>5 DEF Allowance
    <3>2. Within(ag'[w])
      BY <2>5 DEF Within
    <3>3. QED
      BY <2>4, <3>1, <3>2
  <2>6. CASE ag'[w].pc = "generate" /\ Lookup(w)
    <3>1. At(w, "lookup") /\ ag'[w].round = ag[w].round
      BY <2>6 DEF Lookup, End, At, Conversation, Local
    <3>2. ag[w].round = 0
      BY <1>1, <3>1 DEF Within, At
    <3>3. Allowance(ag'[w], 0) = Allowance(ag[w], Busy(w))
      BY <2>6, <3>1 DEF Allowance, At
    <3>4. QED
      BY <2>4, <2>6, <3>1, <3>2, <3>3 DEF Within
  <2>7. CASE ag'[w].pc = "calls" /\ Generate(w)
    <3>1. /\ At(w, "generate") /\ ag'[w].round = ag[w].round /\ ag'[w].next = 1
          /\ ag'[w].calls \in CallLists
      <4>1. ag \in [Investigators -> Local] /\ At(w, "generate")
        BY <2>7 DEF Conversation, Generate
      <4>2. ~End(w, "waiting")
        BY <2>7, <4>1 DEF End, Local
      <4>3. PICK calls \in CallLists, valid \in BOOLEAN :
                ag' = [ag EXCEPT ![w].pc = IF calls = <<>> THEN "parse" ELSE "calls",
                                 ![w].next = 1, ![w].calls = calls,
                                 ![w].unanswered = @ + Len(calls), ![w].valid = valid]
        BY <2>7, <4>2 DEF Generate
      <4>4. ag'[w].round = ag[w].round /\ ag'[w].next = 1 /\ ag'[w].calls = calls
        BY <4>1, <4>3 DEF Local
      <4>5. QED
        BY <4>1, <4>4
    <3>2. Within(ag'[w])
      BY <1>1, <2>7, <3>1 DEF Within, At, RepliesBounded
    <3>3. Allowance(ag'[w], 0) = Allowance(ag[w], Busy(w))
      <4> DEFINE x == Len(BatchTools) + ag[w].round * MostCalls
      <4>1. Allowance(ag'[w], 0) = x + (1 - 1 + 0)
        BY <2>7, <3>1 DEF Allowance
      <4>2. Allowance(ag[w], Busy(w)) = x + 0
        BY <3>1 DEF Allowance, At
      <4>3. ag[w].round \in Nat /\ MostCalls \in Nat /\ Len(BatchTools) \in Nat
        BY DEF Conversation, Local, RepliesBounded
      <4>4. x \in Nat
        BY <4>3
      <4> HIDE DEF x
      <4>5. QED
        BY <4>1, <4>2, <4>4
    <3>4. QED
      BY <2>4, <3>2, <3>3
  <2>8. QED
    <3>1. ASSUME NEW outcome, End(w, outcome) PROVE ag'[w].pc = "end"
      BY <3>1 DEF End, Conversation, Local
    <3>2. CASE Lookup(w)
      BY <2>5, <2>6, <3>1, <3>2 DEF Lookup, Conversation, Local
    <3>3. CASE Generate(w)
      <4>1. CASE End(w, "waiting")
        BY <2>5, <3>1, <4>1
      <4>2. ASSUME NEW calls \in CallLists, NEW valid \in BOOLEAN,
                   ag' = [ag EXCEPT ![w].pc = IF calls = <<>> THEN "parse" ELSE "calls",
                                    ![w].next = 1, ![w].calls = calls,
                                    ![w].unanswered = @ + Len(calls), ![w].valid = valid]
            PROVE  ag'[w].pc \in {"parse", "calls"}
        BY <4>2 DEF Conversation, Local
      <4>3. QED
        BY <2>5, <2>7, <3>3, <4>1, <4>2 DEF Generate
    <3>4. CASE Parse(w) \/ Crash(w)
      BY <2>5, <3>1, <3>4 DEF Parse, Crash
    <3>5. QED
      BY <1>7, <3>2, <3>3, <3>4
<1>8. CASE (Run(w) /\ Stay) \/ Shutdown(w)
  <2>1. Kept /\ Same
    BY <1>8 DEF Run, Shutdown, Cancel, Stay, RowsOf, auditVars
  <2>2. Inside(w)' <=> Inside(w)
    <3>1. CASE Run(w)
      <4>1. PICK ok \in BOOLEAN : call' = [call EXCEPT ![w] = [call[w] EXCEPT !.pc = "update", !.ok = ok]]
        BY <1>0, <3>1 DEF Run, Execution
      <4>2. call'[w].pc = "update" /\ call[w].pc = "run"
        BY <1>0, <3>1, <4>1 DEF Run, Execution
      <4>3. QED
        BY <4>2 DEF Inside
    <3>2. CASE Shutdown(w)
      BY <3>2 DEF Shutdown, Cancel, Inside
    <3>3. QED
      BY <1>8, <3>1, <3>2
  <2>3. QED
    BY <1>4, <2>1, <2>2
<1>9. QED
  BY <1>5, <1>6, <1>7, <1>8 DEF Step

LEMMA OthersAccounted ==
  ASSUME AuditInductive, NEW w \in Investigators, Accounted(w),
         ag'[w] = ag[w], NEW c \in Callers, c # w, Effect(c)
  PROVE  Accounted(w)'
<1>0. w \in Callers /\ execs \in Seq(Row) /\ call \in [Callers -> Execution]
  BY DEF AuditInductive, ExecutorTypeOK
<1>1. call'[w] = call[w]
  BY <1>0 DEF Effect, Starts, Orphans, Run, Settles, Drops, Ends, Reopens, Abandon, Cancel, Fails
<1>2. RowsOf(w)' = RowsOf(w)
  <2>1. ASSUME NEW tool \in DOMAIN Registry, CreateRow(c, tool) PROVE RowsOf(w)' = RowsOf(w)
    BY <1>0, <2>1, RowsGrow
  <2>2. CASE Settles(c)
    <3>1. Inside(c)
      BY <2>2 DEF Settles, Ends, Inside
    <3>2. call[c].id \in DOMAIN execs
      BY <3>1 DEF AuditInductive, HoldsOwnRow
    <3>3. QED
      BY <1>0, <2>2, <3>2, RowsKept DEF Settles, Settled
  <2>3. CASE execs' = execs
    BY <2>3 DEF RowsOf
  <2>4. QED
    BY <2>1, <2>2, <2>3 DEF Effect, Starts, Orphans, Announces, Run, Drops, Reopens, Abandon,
                            Cancel, Fails, auditVars
<1>3. Inside(w)' = Inside(w)
  BY <1>1 DEF Inside
<1>4. QED
  BY <1>1, <1>2, <1>3 DEF Accounted, At, Allowance, Busy, Inside

LEMMA AccountedNext ==
  ASSUME RepliesBounded, AuditInductive, Conversation, Conversation',
         \A w \in Investigators : Accounted(w), [Next]_vars
  PROVE  \A w \in Investigators : Accounted(w)'
<1> SUFFICES ASSUME NEW w \in Investigators PROVE Accounted(w)'
  OBVIOUS
<1>1. CASE UNCHANGED vars
  BY <1>1 DEF vars, executorVars, auditVars, Accounted, RowsOf, Allowance, Busy, Inside, At
<1>2. CASE Step(w) \/ Shutdown(w) \/ Crash(w)
  BY <1>2, AccountedStep
<1>3. ASSUME NEW v \in Investigators, v # w, Step(v) \/ Shutdown(v) \/ Crash(v)
      PROVE  Accounted(w)'
  <2>1. ag'[w] = ag[w]
    <3>1. ag \in [Investigators -> Local]
      BY DEF Conversation
    <3>2. \/ BatchOver(v) \/ BatchNext(v) \/ Lookup(v) \/ Generate(v) \/ Answer(v)
          \/ Stay \/ \E outcome : End(v, outcome)
      BY <1>3 DEF Step, BatchCall, BatchReturn, CallTool, CallReturn, Execute, Begin, Update,
                  Parse, Shutdown, Crash
    <3>3. CASE BatchOver(v) \/ BatchNext(v) \/ Answer(v)
      BY <1>3, <3>1, <3>3 DEF BatchOver, BatchNext, Answer
    <3>4. CASE Lookup(v) \/ Generate(v) \/ Stay \/ \E outcome : End(v, outcome)
      BY <1>3, <3>1, <3>4 DEF Lookup, Generate, Stay, End
    <3>5. QED
      BY <3>2, <3>3, <3>4
  <2>2. CASE Effect(v)
    BY <1>3, <2>1, <2>2, OthersAccounted
  <2>3. CASE UNCHANGED executorVars
    <3>1. execs' = execs /\ call' = call
      BY <2>3 DEF executorVars, auditVars
    <3>2. RowsOf(w)' = RowsOf(w) /\ Inside(w)' = Inside(w) /\ Busy(w)' = Busy(w)
      BY <3>1 DEF RowsOf, Inside, Busy
    <3>3. At(w, "batch")' = At(w, "batch") /\ At(w, "calls")' = At(w, "calls")
      BY <2>1 DEF At
    <3>4. QED
      BY <2>1, <3>2, <3>3, Zenon DEF Accounted
  <2>4. QED
    BY <1>3, <2>2, <2>3, InvestigatorEffect
<1>4. ASSUME NEW o \in Operators, OperatorStep(o) PROVE Accounted(w)'
  BY <1>4, OperatorEffect, OthersAccounted DEF Stay
<1>5. QED
  BY <1>1, <1>2, <1>3, <1>4 DEF Next

\* However the model replies and whatever fails, an attempt runs no more tools than the
\* batch and maxAgentRounds longest replies ask for, if replies have a longest.
THEOREM AgentRunsBounded ==
  ASSUME CallLists # {}, NEW n \in Nat, \A calls \in CallLists : Len(calls) <= n
  PROVE  Spec => []RunsBounded
<1>0. RepliesBounded
  BY LongestReply
<1>1. Init => \A w \in Investigators : Accounted(w)
  <2> SUFFICES ASSUME Init, NEW w \in Investigators PROVE Accounted(w)
    OBVIOUS
  <2>1. RowsOf(w) = {} /\ ~Inside(w) /\ ag[w] = Start
    BY DEF Init, ExecutorInit, RowsOf, Inside, NoExecution
  <2>2. IsFiniteSet(RowsOf(w)) /\ Cardinality(RowsOf(w)) = 0
    BY <2>1, FS_EmptySet
  <2>3. Within(ag[w]) /\ Allowance(ag[w], Busy(w)) = 1 - 1 + 0 /\ Len(BatchTools) >= 1
    BY <2>1 DEF Within, Allowance, Busy, Start
  <2>4. QED
    BY <2>1, <2>2, <2>3 DEF Accounted
<1>2. AuditInductive /\ Conversation /\ Conversation' /\ (\A w \in Investigators : Accounted(w)) /\ [Next]_vars
      => (\A w \in Investigators : Accounted(w))'
  BY <1>0, AccountedNext
<1>3. Conversation /\ (\A w \in Investigators : Accounted(w)) => RunsBounded
  <2> SUFFICES ASSUME Conversation, NEW w \in Investigators, Accounted(w)
               PROVE  Cardinality(RowsOf(w)) <= Len(BatchTools) + maxAgentRounds * MostCalls
    BY DEF RunsBounded, RowsOf
  <2> DEFINE x == Cardinality(RowsOf(w))
             y == Allowance(ag[w], Busy(w))
             z == Len(BatchTools) + maxAgentRounds * MostCalls
  <2>1. y \in Nat /\ z \in Nat /\ y <= z
    BY <1>0, AllowanceCapped DEF Accounted, Busy
  <2>2. x \in Nat /\ x <= y
    BY FS_CardinalityType DEF Accounted
  <2> HIDE DEF x, y, z
  <2>3. x <= z
    BY <2>1, <2>2
  <2>4. QED
    BY <2>3 DEF x, z
<1>4. QED
  BY <1>1, <1>2, <1>3, AgentAuditInductive, AgentConversation, PTL DEF Spec

=============================================================================
