---------------------- MODULE InvestigationWorkerProofs ----------------------
(***************************************************************************)
(* Safety of the job queue and its workers for any number of incidents,    *)
(* workers, attempts, faults, crashes and shutdowns, and whether or not a  *)
(* requeued job can fall due while its worker is still reporting.          *)
(***************************************************************************)
EXTENDS InvestigationWorker, FiniteSetTheorems, TLAPS

USE IncidentsAssumption, MaxAttemptsAssumption, WorkerAssumption

Stages == RunStages \cup MarkStages \cup {"renotify"} \cup LoopStages

-----------------------------------------------------------------------------
(***************************************************************************)
(* The two incident tables                                                 *)
(***************************************************************************)

LEMMA StatusFacts ==
    /\ {"RECEIVED", "TRIAGING", "INVESTIGATING", "ROOT_CAUSE_IDENTIFIED"} \subseteq Status
    /\ NoStatus \notin Status
BY DEF Status, NoStatus

\* A statement on the two tables keeps them well typed.
LEMMA SetStatusType ==
  ASSUME NEW i \in Incidents, NEW from \in Status \cup {NoStatus}, NEW to \in Status,
         StoreTypeOK, SetStatus(i, from, to)
  PROVE  StoreTypeOK'
<1> DEFINE e == [from |-> from, to |-> to]
<1>1. e \in IncidentEvent /\ timeline[i] \in Seq(IncidentEvent)
  BY DEF StoreTypeOK, IncidentEvent
<1>2. status' \in [Incidents -> Status \cup {NoStatus}]
  BY DEF StoreTypeOK, SetStatus
<1> HIDE DEF e
<1>3. Append(timeline[i], e) \in Seq(IncidentEvent)
  BY <1>1
<1>4. timeline' \in [Incidents -> Seq(IncidentEvent)]
  BY <1>3 DEF StoreTypeOK, SetStatus, e
<1>5. QED
  BY <1>2, <1>4 DEF StoreTypeOK

\* What a component has to show to implement the lifecycle: the tables begin empty,
\* and each step leaves them alone, creates an incident, or moves one to a status
\* the table allows from the one it has.
LifecycleStep ==
    \/ UNCHANGED storeVars
    \/ \E i \in Incidents : CreateWithEvent(i)
    \/ \E i \in Incidents, to \in Status :
          CanTransition(status[i], to) /\ SetStatus(i, status[i], to)

LEMMA StoreInitIsLifecycle == StoreInit => Lifecycle!Init
BY DEF StoreInit, Lifecycle!Init, NoStatus, Lifecycle!NoStatus

LEMMA StepIsLifecycle == LifecycleStep => [Lifecycle!Next]_(Lifecycle!vars)
<1>1. ASSUME NEW i \in Incidents, CreateWithEvent(i) PROVE Lifecycle!Next
  BY <1>1 DEF CreateWithEvent, SetStatus, Lifecycle!Next, Lifecycle!Create, Lifecycle!Record,
              NoStatus, Lifecycle!NoStatus
<1>2. ASSUME NEW i \in Incidents, NEW to \in Status,
             CanTransition(status[i], to), SetStatus(i, status[i], to)
      PROVE  Lifecycle!Next
  <2>1. Lifecycle!Move(i, to)
    BY <1>2 DEF SetStatus, Lifecycle!Move, Lifecycle!Record, CanTransition,
                Lifecycle!CanTransition, validTransitions, Lifecycle!validTransitions,
                Status, Lifecycle!Status
  <2>2. QED
    BY <2>1 DEF Lifecycle!Next, Status, Lifecycle!Status
<1>3. QED
  BY <1>1, <1>2 DEF LifecycleStep, storeVars, Lifecycle!vars

-----------------------------------------------------------------------------
(* What the pieces an action is built from do to the types. *)

LEMMA GotoType ==
  ASSUME NEW w \in Workers, NEW pc \in Stages, WorkerTypeOK,
         pc \in LoopStages \/ wk[w].inc \in Incidents, Goto(w, pc)
  PROVE  WorkerTypeOK'
BY DEF WorkerTypeOK, Local, Goto, Stages

LEMMA ReturnType ==
  ASSUME NEW w \in Workers, NEW pc \in LoopStages, WorkerTypeOK, Return(w, pc)
  PROVE  WorkerTypeOK'
BY StatusFacts DEF WorkerTypeOK, Local, Return, Loop, NoIncident

LEMMA MarkedType ==
  ASSUME NEW w \in Workers, WorkerTypeOK, wk[w].inc \in Incidents, Marked(w)
  PROVE  WorkerTypeOK'
BY GotoType, ReturnType DEF Marked, Stages, LoopStages, Goto, Return

\* A row of the locals replaced by a well typed one.
LEMMA LocalType ==
  ASSUME NEW w \in Workers, NEW l \in Local, WorkerTypeOK,
         l.pc \notin LoopStages => l.inc \in Incidents, wk' = [wk EXCEPT ![w] = l]
  PROVE  WorkerTypeOK'
BY DEF WorkerTypeOK

LEMMA JobStatementType ==
  ASSUME NEW i \in Incidents, JobStoreTypeOK
  PROVE  /\ ClaimNextJob(i) => JobStoreTypeOK'
         /\ CompleteJob(i) => JobStoreTypeOK'
         /\ \A retry \in BOOLEAN : FailJob(i, retry) => JobStoreTypeOK'
         /\ \A rca \in BOOLEAN, s \in {"pending", "running", "completed", "failed", "waiting_for_ai"} :
                UpdateInvestigation(i, s, rca) => JobStoreTypeOK'
         /\ \A n \in Nat, s \in {"completed", "waiting_for_ai"} :
                CreateAgentRun(i, n, s) => JobStoreTypeOK'
         /\ Elapse(i) => JobStoreTypeOK'
<1>1. ClaimNextJob(i) => JobStoreTypeOK'
  BY DEF JobStoreTypeOK, JobRow, ClaimNextJob
<1>2. CompleteJob(i) => JobStoreTypeOK'
  BY DEF JobStoreTypeOK, JobRow, CompleteJob
<1>3. \A retry \in BOOLEAN : FailJob(i, retry) => JobStoreTypeOK'
  <2> SUFFICES ASSUME NEW retry \in BOOLEAN, FailJob(i, retry) PROVE JobStoreTypeOK'
    OBVIOUS
  <2>1. /\ [job[i] EXCEPT !.status = "pending", !.due = FALSE] \in JobRow
        /\ [job[i] EXCEPT !.status = "dead_letter"] \in JobRow
    BY DEF JobStoreTypeOK, JobRow
  <2>2. job' \in [Incidents -> JobRow]
    BY <2>1 DEF JobStoreTypeOK, FailJob
  <2>3. QED
    BY <2>2 DEF JobStoreTypeOK, FailJob
<1>4. \A rca \in BOOLEAN, s \in {"pending", "running", "completed", "failed", "waiting_for_ai"} :
         UpdateInvestigation(i, s, rca) => JobStoreTypeOK'
  BY DEF JobStoreTypeOK, InvestigationRow, UpdateInvestigation
<1>5. \A n \in Nat, s \in {"completed", "waiting_for_ai"} :
         CreateAgentRun(i, n, s) => JobStoreTypeOK'
  <2> SUFFICES ASSUME NEW n \in Nat, NEW s \in {"completed", "waiting_for_ai"},
                      CreateAgentRun(i, n, s)
               PROVE  JobStoreTypeOK'
    OBVIOUS
  <2>1. [inc |-> i, attempt |-> n, status |-> s] \in AgentRun
    BY DEF AgentRun
  <2>2. agentRuns' \subseteq AgentRun
    BY <2>1 DEF JobStoreTypeOK, CreateAgentRun
  <2>3. QED
    BY <2>2 DEF JobStoreTypeOK, CreateAgentRun
<1>6. Elapse(i) => JobStoreTypeOK'
  <2> SUFFICES ASSUME Elapse(i) PROVE JobStoreTypeOK'
    OBVIOUS
  <2>1. [job[i] EXCEPT !.due = TRUE] \in JobRow
    BY DEF JobStoreTypeOK, JobRow
  <2>2. QED
    BY <2>1 DEF JobStoreTypeOK, Elapse
<1>7. QED
  BY <1>1, <1>2, <1>3, <1>4, <1>5, <1>6

LEMMA UnchangedTypes ==
  /\ StoreTypeOK /\ UNCHANGED storeVars => StoreTypeOK'
  /\ JobStoreTypeOK /\ UNCHANGED jobVars => JobStoreTypeOK'
BY DEF StoreTypeOK, storeVars, JobStoreTypeOK, jobVars

\* The two halves of Transition.
LEMMA TransitionReadType ==
  ASSUME TypeOK, NEW w \in Workers, NEW to \in Status,
         NEW onAllowed \in Stages \ LoopStages, NEW onError \in Stages \ LoopStages,
         wk[w].inc \in Incidents, TransitionRead(w, to, onAllowed, onError)
  PROVE  TypeOK'
<1> DEFINE i == wk[w].inc
           l == [wk[w] EXCEPT !.pc = onAllowed, !.seen = status[i]]
<1>1. StoreTypeOK' /\ JobStoreTypeOK' /\ EnvTypeOK'
  BY UnchangedTypes
     DEF TypeOK, EnvTypeOK, TransitionRead, Call, Reads, Refused, Fault, NoFault, envVars
<1>2. l \in Local /\ l.pc \notin LoopStages /\ l.inc = i
  BY DEF TypeOK, WorkerTypeOK, Local, StoreTypeOK, Stages
<1>3. wk' = [wk EXCEPT ![w] = l] \/ Goto(w, onError)
  BY DEF TransitionRead, Call
<1>4. WorkerTypeOK'
  BY <1>2, <1>3, LocalType, GotoType DEF TypeOK
<1>5. QED
  BY <1>1, <1>4 DEF TypeOK

LEMMA TransitionUpdateType ==
  ASSUME TypeOK, NEW w \in Workers, NEW to \in Status,
         NEW onOk \in Stages \ LoopStages, NEW onError \in Stages \ LoopStages,
         wk[w].inc \in Incidents, TransitionUpdate(w, to, onOk, onError)
  PROVE  TypeOK'
<1> DEFINE i == wk[w].inc
           l(pc) == [wk[w] EXCEPT !.pc = pc, !.seen = NoStatus]
<1>1. JobStoreTypeOK' /\ EnvTypeOK'
  BY UnchangedTypes
     DEF TypeOK, EnvTypeOK, TransitionUpdate, Call, Refused, Fault, NoFault, envVars
<1>2. UNCHANGED storeVars \/ SetStatus(i, wk[w].seen, to)
  BY DEF TransitionUpdate, Call, Refused, TransitionWithEvent
<1>3. StoreTypeOK'
  BY <1>2, UnchangedTypes, SetStatusType DEF TypeOK, WorkerTypeOK, Local
<1>4. \A pc \in {onOk, onError} : l(pc) \in Local /\ l(pc).pc \notin LoopStages /\ l(pc).inc = i
  BY DEF TypeOK, WorkerTypeOK, Local, Stages
<1>5. \E pc \in {onOk, onError} : wk' = [wk EXCEPT ![w] = l(pc)]
  BY DEF TransitionUpdate, Call
<1>6. WorkerTypeOK'
  BY <1>4, <1>5, LocalType DEF TypeOK
<1>7. QED
  BY <1>1, <1>3, <1>6 DEF TypeOK

LEMMA StepType ==
  ASSUME TypeOK, NEW w \in Workers, Step(w)
  PROVE  TypeOK'
<1> DEFINE i == wk[w].inc
<1> USE DEF Call, OnJobs, Reads, Refused, At
<1>a. ASSUME wk[w].pc \notin LoopStages PROVE i \in Incidents /\ Retry(w) \in BOOLEAN
  BY <1>a DEF TypeOK, WorkerTypeOK, Retry
<1>b. wk[w] \in Local
  BY DEF TypeOK, WorkerTypeOK
<1>c. ASSUME hints' = hints \/ hints' \in Nat, toNotify' = toNotify, NoFault \/ Fault
      PROVE  EnvTypeOK'
  BY <1>c DEF TypeOK, EnvTypeOK, NoFault, Fault, envVars
<1>d. ASSUME NEW pc \in RunStages \cup MarkStages, At(w, pc)
      PROVE  i \in Incidents /\ Retry(w) \in BOOLEAN /\ wk[w].rca \in BOOLEAN /\ wk[w].attempt \in Nat
  BY <1>a, <1>b, <1>d DEF LoopStages, RunStages, MarkStages, Local
<1>1. ASSUME Claim(w) PROVE TypeOK'
  <2>1. CASE \E j \in Incidents :
               Call(w, OnJobs(ClaimNextJob(j)),
                    wk' = [wk EXCEPT ![w] = [Loop("load") EXCEPT !.inc = j,
                                                               !.attempt = job[j].attempts + 1]],
                    Return(w, "backoff"))
    <3> PICK j \in Incidents :
               Call(w, OnJobs(ClaimNextJob(j)),
                    wk' = [wk EXCEPT ![w] = [Loop("load") EXCEPT !.inc = j,
                                                               !.attempt = job[j].attempts + 1]],
                    Return(w, "backoff"))
      BY <2>1
    <3> DEFINE l == [Loop("load") EXCEPT !.inc = j, !.attempt = job[j].attempts + 1]
    <3>0. Loop("load") \in Local /\ Loop("load").pc = "load" /\ job[j].attempts + 1 \in Nat
      BY DEF Local, Loop, RunStages, NoIncident, TypeOK, JobStoreTypeOK, JobRow
    <3> HIDE DEF Loop
    <3>1. l \in Local /\ l.pc \notin LoopStages /\ l.inc \in Incidents
      BY <3>0 DEF Local, LoopStages
    <3>2. wk' = [wk EXCEPT ![w] = l] \/ Return(w, "backoff")
      OBVIOUS
    <3>3. WorkerTypeOK'
      BY <3>1, <3>2, LocalType, ReturnType DEF TypeOK, LoopStages
    <3>4. StoreTypeOK' /\ JobStoreTypeOK'
      BY UnchangedTypes, JobStatementType DEF TypeOK
    <3>5. EnvTypeOK'
      BY DEF TypeOK, EnvTypeOK, Fault, NoFault, envVars
    <3>6. QED
      BY <3>3, <3>4, <3>5 DEF TypeOK
  <2>2. CASE Claimable = {} /\ Call(w, Reads, Return(w, "wait"), Return(w, "backoff"))
    <3>1. WorkerTypeOK'
      BY <2>2, ReturnType DEF TypeOK, LoopStages
    <3>2. QED
      BY <2>2, <3>1, UnchangedTypes DEF TypeOK, EnvTypeOK, Fault, NoFault, envVars
  <2>3. QED
    BY <1>1, <2>1, <2>2 DEF Claim
<1>2. ASSUME Load(w) PROVE TypeOK'
  <2> DEFINE l == [wk[w] EXCEPT !.pc = "start", !.rca = inv[i].rca]
  <2>1. i \in Incidents
    BY <1>2, <1>d DEF Load, RunStages, MarkStages
  <2>2. l \in Local /\ l.pc \notin LoopStages /\ l.inc = i
    BY <1>b, <2>1 DEF Local, RunStages, MarkStages, LoopStages, TypeOK, JobStoreTypeOK, InvestigationRow
  <2>3. wk' = [wk EXCEPT ![w] = l] \/ Goto(w, "failJob")
    BY <1>2 DEF Load
  <2>4. WorkerTypeOK'
    BY <2>1, <2>2, <2>3, LocalType, GotoType, MarkedType DEF TypeOK, Stages, RunStages, MarkStages, LoopStages
  <2>5. QED
    BY <1>2, <1>c, <2>4, UnchangedTypes DEF Load, TypeOK
<1>3. ASSUME Start(w) PROVE TypeOK'
  <2>1. i \in Incidents /\ wk[w].rca \in BOOLEAN /\ wk[w].attempt \in Nat
    BY <1>3, <1>d DEF Start, RunStages
  <2>2. WorkerTypeOK'
    BY <1>3, <2>1, GotoType DEF Start, TypeOK, Stages, RunStages, MarkStages, LoopStages
  <2>3. StoreTypeOK' /\ JobStoreTypeOK'
    BY <1>3, <2>1, UnchangedTypes, JobStatementType DEF Start, TypeOK
  <2>4. QED
    BY <1>3, <1>c, <2>2, <2>3 DEF Start, TypeOK
<1>4. ASSUME Triage(w) PROVE TypeOK'
  <2>1. i \in Incidents
    BY <1>4, <1>d DEF Triage, RunStages
  <2>2. QED
    BY <1>4, <2>1, StatusFacts, TransitionReadType DEF Triage, Stages, RunStages, MarkStages, LoopStages
<1>5. ASSUME TriageUpdate(w) PROVE TypeOK'
  <2>1. i \in Incidents
    BY <1>5, <1>d DEF TriageUpdate, RunStages
  <2>2. QED
    BY <1>5, <2>1, StatusFacts, TransitionUpdateType DEF TriageUpdate, Stages, RunStages, MarkStages, LoopStages
<1>6. ASSUME Investigate(w) PROVE TypeOK'
  <2>1. i \in Incidents
    BY <1>6, <1>d DEF Investigate, RunStages
  <2>2. QED
    BY <1>6, <2>1, StatusFacts, TransitionReadType DEF Investigate, Stages, RunStages, MarkStages, LoopStages
<1>7. ASSUME InvestigateUpdate(w) PROVE TypeOK'
  <2>1. i \in Incidents
    BY <1>7, <1>d DEF InvestigateUpdate, RunStages
  <2>2. QED
    BY <1>7, <2>1, StatusFacts, TransitionUpdateType DEF InvestigateUpdate, Stages, RunStages, MarkStages, LoopStages
<1>8. ASSUME Analyse(w) PROVE TypeOK'
  <2> PICK outcome \in {"rca", "waiting", "invalid"} :
           Call(w, Reads,
                wk' = [wk EXCEPT ![w].pc = IF outcome = "invalid" THEN "failJob" ELSE "saveRun",
                                 ![w].outcome = outcome,
                                 ![w].rca = @ \/ outcome = "rca"],
                Goto(w, "failJob"))
    BY <1>8 DEF Analyse
  <2> DEFINE l == [wk[w] EXCEPT !.pc = IF outcome = "invalid" THEN "failJob" ELSE "saveRun",
                                !.outcome = outcome,
                                !.rca = @ \/ outcome = "rca"]
  <2>1. i \in Incidents
    BY <1>8, <1>d DEF Analyse, RunStages
  <2>2. l \in Local /\ l.pc \notin LoopStages /\ l.inc = i
    BY <1>b, <2>1 DEF Local, RunStages, MarkStages, LoopStages
  <2>3. wk' = [wk EXCEPT ![w] = l] \/ Goto(w, "failJob")
    OBVIOUS
  <2>4. WorkerTypeOK'
    BY <2>1, <2>2, <2>3, LocalType, GotoType DEF TypeOK, Stages, RunStages, MarkStages, LoopStages
  <2>5. QED
    BY <1>c, <2>4, UnchangedTypes DEF TypeOK
<1>9. ASSUME SaveRun(w) PROVE TypeOK'
  <2>1. i \in Incidents /\ wk[w].rca \in BOOLEAN /\ wk[w].attempt \in Nat
    BY <1>9, <1>d DEF SaveRun, RunStages
  <2>2. WorkerTypeOK'
    BY <1>9, <2>1, GotoType DEF SaveRun, TypeOK, Stages, RunStages, MarkStages, LoopStages
  <2>3. StoreTypeOK' /\ JobStoreTypeOK'
    BY <1>9, <2>1, UnchangedTypes, JobStatementType DEF SaveRun, TypeOK
  <2>4. QED
    BY <1>9, <1>c, <2>2, <2>3 DEF SaveRun, TypeOK
<1>10. ASSUME Park(w) PROVE TypeOK'
  <2>1. i \in Incidents /\ wk[w].rca \in BOOLEAN /\ wk[w].attempt \in Nat
    BY <1>10, <1>d DEF Park, RunStages
  <2>2. WorkerTypeOK'
    BY <1>10, <2>1, GotoType DEF Park, TypeOK, Stages, RunStages, MarkStages, LoopStages
  <2>3. StoreTypeOK' /\ JobStoreTypeOK'
    BY <1>10, <2>1, UnchangedTypes, JobStatementType DEF Park, TypeOK
  <2>4. QED
    BY <1>10, <1>c, <2>2, <2>3 DEF Park, TypeOK
<1>11. ASSUME RootCause(w) PROVE TypeOK'
  <2>1. i \in Incidents
    BY <1>11, <1>d DEF RootCause, RunStages
  <2>2. QED
    BY <1>11, <2>1, StatusFacts, TransitionReadType DEF RootCause, Stages, RunStages, MarkStages, LoopStages
<1>12. ASSUME RootCauseUpdate(w) PROVE TypeOK'
  <2>1. i \in Incidents
    BY <1>12, <1>d DEF RootCauseUpdate, RunStages
  <2>2. QED
    BY <1>12, <2>1, StatusFacts, TransitionUpdateType DEF RootCauseUpdate, Stages, RunStages, MarkStages, LoopStages
<1>13. ASSUME Propose(w) PROVE TypeOK'
  <2>1. i \in Incidents /\ wk[w].rca \in BOOLEAN /\ wk[w].attempt \in Nat
    BY <1>13, <1>d DEF Propose, RunStages
  <2>2. WorkerTypeOK'
    BY <1>13, <2>1, GotoType DEF Propose, TypeOK, Stages, RunStages, MarkStages, LoopStages
  <2>3. StoreTypeOK' /\ JobStoreTypeOK'
    BY <1>13, <2>1, UnchangedTypes, JobStatementType DEF Propose, TypeOK
  <2>4. QED
    BY <1>13, <1>c, <2>2, <2>3 DEF Propose, TypeOK, NoFault
<1>14. ASSUME Finish(w) PROVE TypeOK'
  <2>1. i \in Incidents /\ wk[w].rca \in BOOLEAN /\ wk[w].attempt \in Nat
    BY <1>14, <1>d DEF Finish, RunStages
  <2>2. WorkerTypeOK'
    BY <1>14, <2>1, GotoType DEF Finish, TypeOK, Stages, RunStages, MarkStages, LoopStages
  <2>3. StoreTypeOK' /\ JobStoreTypeOK'
    BY <1>14, <2>1, UnchangedTypes, JobStatementType DEF Finish, TypeOK
  <2>4. QED
    BY <1>14, <1>c, <2>2, <2>3 DEF Finish, TypeOK
<1>15. ASSUME Complete(w) PROVE TypeOK'
  <2>1. i \in Incidents /\ Retry(w) \in BOOLEAN
    BY <1>15, <1>d DEF Complete, RunStages, MarkStages
  <2>2. WorkerTypeOK'
    BY <1>15, <2>1, GotoType, ReturnType, MarkedType DEF Complete, TypeOK, Stages, RunStages, MarkStages, LoopStages
  <2>3. StoreTypeOK' /\ JobStoreTypeOK'
    BY <1>15, <2>1, UnchangedTypes, JobStatementType DEF Complete, TypeOK
  <2>4. QED
    BY <1>15, <1>c, <2>2, <2>3 DEF Complete, TypeOK
<1>16. ASSUME Fail(w) PROVE TypeOK'
  <2>1. i \in Incidents /\ Retry(w) \in BOOLEAN
    BY <1>16, <1>d DEF Fail, RunStages, MarkStages
  <2>2. WorkerTypeOK'
    BY <1>16, <2>1, GotoType, ReturnType, MarkedType DEF Fail, TypeOK, Stages, RunStages, MarkStages, LoopStages
  <2>3. StoreTypeOK' /\ JobStoreTypeOK'
    BY <1>16, <2>1, UnchangedTypes, JobStatementType DEF Fail, TypeOK
  <2>4. QED
    BY <1>16, <1>c, <2>2, <2>3 DEF Fail, TypeOK
<1>17. ASSUME MarkRead(w) PROVE TypeOK'
  <2> DEFINE l == [wk[w] EXCEPT !.pc = "markWrite", !.rca = inv[i].rca]
  <2>1. i \in Incidents
    BY <1>17, <1>d DEF MarkRead, RunStages, MarkStages
  <2>2. l \in Local /\ l.pc \notin LoopStages /\ l.inc = i
    BY <1>b, <2>1 DEF Local, RunStages, MarkStages, LoopStages, TypeOK, JobStoreTypeOK, InvestigationRow
  <2>3. wk' = [wk EXCEPT ![w] = l] \/ Marked(w)
    BY <1>17 DEF MarkRead
  <2>4. WorkerTypeOK'
    BY <2>1, <2>2, <2>3, LocalType, GotoType, MarkedType DEF TypeOK, Stages, RunStages, MarkStages, LoopStages
  <2>5. QED
    BY <1>17, <1>c, <2>4, UnchangedTypes DEF MarkRead, TypeOK
<1>18. ASSUME MarkWrite(w) PROVE TypeOK'
  <2>1. i \in Incidents /\ Retry(w) \in BOOLEAN /\ wk[w].rca \in BOOLEAN
    BY <1>18, <1>d DEF MarkWrite, MarkStages
  <2>2. WorkerTypeOK'
    BY <1>18, <2>1, MarkedType DEF MarkWrite, TypeOK
  <2>3. StoreTypeOK' /\ JobStoreTypeOK'
    BY <1>18, <2>1, UnchangedTypes, JobStatementType DEF MarkWrite, TypeOK
  <2>4. QED
    BY <1>18, <1>c, <2>2, <2>3 DEF MarkWrite, TypeOK
<1>19. ASSUME Renotify(w) PROVE TypeOK'
  <2>1. hints' \in Nat
    BY <1>19 DEF Renotify, TypeOK, EnvTypeOK
  <2>2. WorkerTypeOK'
    BY <1>19, ReturnType DEF Renotify, TypeOK, LoopStages
  <2>3. QED
    BY <1>19, <1>c, <2>1, <2>2, UnchangedTypes DEF Renotify, TypeOK, NoFault
<1>20. ASSUME Backoff(w) PROVE TypeOK'
  <2>1. hints' \in Nat
    BY <1>20 DEF Backoff, TypeOK, EnvTypeOK
  <2>2. WorkerTypeOK'
    BY <1>20, ReturnType DEF Backoff, TypeOK, LoopStages
  <2>3. QED
    BY <1>20, <1>c, <2>1, <2>2, UnchangedTypes DEF Backoff, TypeOK, NoFault
<1>21. ASSUME WaitForJob(w) PROVE TypeOK'
  <2>1. hints' \in Nat
    BY <1>21 DEF WaitForJob, TypeOK, EnvTypeOK
  <2>2. WorkerTypeOK'
    BY <1>21, ReturnType DEF WaitForJob, TypeOK, LoopStages
  <2>3. QED
    BY <1>21, <1>c, <2>1, <2>2, UnchangedTypes DEF WaitForJob, TypeOK, NoFault
<1>22. QED
  BY <1>1, <1>2, <1>3, <1>4, <1>5, <1>6, <1>7, <1>8, <1>9, <1>10, <1>11, <1>12, <1>13, <1>14, <1>15, <1>16, <1>17, <1>18, <1>19, <1>20, <1>21 DEF Step

LEMMA SurroundingsType ==
  ASSUME TypeOK, NEW i \in Incidents
  PROVE  /\ Intake(i) => TypeOK'
         /\ Notify(i) => TypeOK'
         /\ \A to \in OutsideTargets : OutsideMove(i, to) => TypeOK'
         /\ FallDue(i) => TypeOK'
<1>1. ASSUME Intake(i) PROVE TypeOK'
  <2>1. StoreTypeOK'
    BY <1>1, StatusFacts, SetStatusType DEF TypeOK, Intake, Persist, CreateWithEvent
  <2>2. JobStoreTypeOK'
    BY <1>1 DEF TypeOK, JobStoreTypeOK, JobRow, InvestigationRow, Intake, Persist
  <2>3. QED
    BY <1>1, <2>1, <2>2 DEF TypeOK, WorkerTypeOK, EnvTypeOK, envVars, Intake
<1>2. ASSUME Notify(i) PROVE TypeOK'
  BY <1>2, UnchangedTypes DEF TypeOK, WorkerTypeOK, EnvTypeOK, envVars, Notify
<1>3. ASSUME NEW to \in OutsideTargets, OutsideMove(i, to) PROVE TypeOK'
  <2>1. StoreTypeOK'
    BY <1>3, SetStatusType DEF TypeOK, StoreTypeOK, OutsideMove
  <2>2. QED
    BY <1>3, <2>1, UnchangedTypes DEF TypeOK, WorkerTypeOK, EnvTypeOK, envVars, OutsideMove
<1>4. ASSUME FallDue(i) PROVE TypeOK'
  BY <1>4, UnchangedTypes, JobStatementType
     DEF TypeOK, WorkerTypeOK, EnvTypeOK, envVars, FallDue, OnJobs
<1>5. QED
  BY <1>1, <1>2, <1>3, <1>4

LEMMA ProcessType ==
  ASSUME TypeOK, NEW w \in Workers
  PROVE  /\ Crash(w) => TypeOK'
         /\ Stop(w) => TypeOK'
         /\ Restart(w) => TypeOK'
<1>1. ASSUME Crash(w) PROVE TypeOK'
  <2>1. WorkerTypeOK'
    BY <1>1, ReturnType DEF TypeOK, Crash, Return, LoopStages
  <2>2. QED
    BY <1>1, <2>1, UnchangedTypes DEF TypeOK, EnvTypeOK, Crash
<1>2. ASSUME Stop(w) PROVE TypeOK'
  BY <1>2, UnchangedTypes DEF TypeOK, WorkerTypeOK, EnvTypeOK, Stop
<1>3. ASSUME Restart(w) PROVE TypeOK'
  <2>1. WorkerTypeOK'
    BY <1>3, ReturnType DEF TypeOK, Restart, LoopStages
  <2>2. QED
    BY <1>3, <2>1, UnchangedTypes DEF TypeOK, EnvTypeOK, Restart
<1>4. QED
  BY <1>1, <1>2, <1>3

LEMMA InitType == Init => TypeOK
BY StatusFacts
   DEF Init, StoreInit, JobStoreInit, TypeOK, StoreTypeOK, JobStoreTypeOK, WorkerTypeOK, EnvTypeOK,
       JobRow, InvestigationRow, Local, Loop, LoopStages, NoIncident

LEMMA StutterType == TypeOK /\ UNCHANGED vars => TypeOK'
BY UnchangedTypes DEF vars, storeVars, jobVars, envVars, TypeOK, WorkerTypeOK, EnvTypeOK

\* Rows and locals keep their types through every step: no error path leaves a
\* worker in a stage without an incident, and every write is a row of its table.
THEOREM WorkerTypeCorrect == Spec => []TypeOK
<1>1. ASSUME TypeOK, Next PROVE TypeOK'
  BY <1>1, StepType, SurroundingsType, ProcessType DEF Next
<1>2. QED
  BY <1>1, InitType, StutterType, PTL DEF Spec

-----------------------------------------------------------------------------
(* All steps of a worker but its claim and its report leave the jobs alone, and *)
(* the worker keeps its hold, or lets go of it.                                 *)

UpdateStages == {"triageUpdate", "investigateUpdate", "rootCauseUpdate"}

SeenOK(l) == /\ l.pc = "triageUpdate" => CanTransition(l.seen, "TRIAGING")
             /\ l.pc = "investigateUpdate" => CanTransition(l.seen, "INVESTIGATING")
             /\ l.pc = "rootCauseUpdate" => CanTransition(l.seen, "ROOT_CAUSE_IDENTIFIED")

KeepsHold(w) ==
    /\ \A v \in Workers : v # w => wk'[v] = wk[v]
    /\ SeenOK(wk'[w])
    /\ wk'[w].pc \in RunStages => /\ wk[w].pc \in RunStages
                                 /\ wk'[w].inc = wk[w].inc
                                 /\ wk'[w].attempt = wk[w].attempt

RowsKept == \A i \in Incidents : status'[i] = NoStatus => status[i] = NoStatus

Quiet(w) == UNCHANGED job /\ RowsKept /\ KeepsHold(w)

LEMMA LocalKeeps ==
  ASSUME NEW w \in Workers, NEW l \in Local, WorkerTypeOK, wk' = [wk EXCEPT ![w] = l],
         l.pc \notin UpdateStages \/ SeenOK(l),
         l.pc \in RunStages => /\ wk[w].pc \in RunStages
                              /\ l.inc = wk[w].inc /\ l.attempt = wk[w].attempt
  PROVE  KeepsHold(w)
BY DEF WorkerTypeOK, KeepsHold, SeenOK, UpdateStages

LEMMA GotoKeeps ==
  ASSUME NEW w \in Workers, NEW pc \in Stages \ UpdateStages, WorkerTypeOK,
         wk[w].pc \in RunStages \/ pc \notin RunStages, Goto(w, pc)
  PROVE  KeepsHold(w)
<1> DEFINE l == [wk[w] EXCEPT !.pc = pc]
<1>1. l \in Local /\ l.pc = pc /\ l.inc = wk[w].inc /\ l.attempt = wk[w].attempt
  BY DEF WorkerTypeOK, Local, Stages
<1>2. wk' = [wk EXCEPT ![w] = l]
  BY DEF Goto
<1> HIDE DEF l
<1>3. QED
  BY <1>1, <1>2, LocalKeeps

LEMMA ReturnKeeps ==
  ASSUME NEW w \in Workers, NEW pc \in LoopStages, WorkerTypeOK, Return(w, pc)
  PROVE  KeepsHold(w)
BY DEF WorkerTypeOK, Return, Loop, LoopStages, RunStages, KeepsHold, SeenOK

LEMMA MarkedKeeps ==
  ASSUME NEW w \in Workers, WorkerTypeOK, Marked(w)
  PROVE  KeepsHold(w)
BY GotoKeeps, ReturnKeeps DEF Marked, Stages, LoopStages, RunStages, UpdateStages

LEMMA UnchangedRows == UNCHANGED storeVars => RowsKept
BY DEF storeVars, RowsKept

LEMMA SetStatusKeepsRows ==
  ASSUME NEW i \in Incidents, NEW from \in Status \cup {NoStatus}, NEW to \in Status,
         StoreTypeOK, SetStatus(i, from, to)
  PROVE  RowsKept
BY StatusFacts DEF StoreTypeOK, SetStatus, RowsKept

LEMMA TransitionReadQuiet ==
  ASSUME TypeOK, NEW w \in Workers, wk[w].pc \in RunStages,
         NEW to, NEW onAllowed, NEW onError \in RunStages \ UpdateStages,
         \/ onAllowed = "triageUpdate" /\ to = "TRIAGING"
         \/ onAllowed = "investigateUpdate" /\ to = "INVESTIGATING"
         \/ onAllowed = "rootCauseUpdate" /\ to = "ROOT_CAUSE_IDENTIFIED",
         TransitionRead(w, to, onAllowed, onError)
  PROVE  Quiet(w)
<1> DEFINE current == status[wk[w].inc]
           l == [wk[w] EXCEPT !.pc = onAllowed, !.seen = current]
<1>1. UNCHANGED job /\ UNCHANGED storeVars
  BY DEF TransitionRead, Call, Refused, Reads, jobVars
<1>2. Goto(w, onError) \/ (CanTransition(current, to) /\ wk' = [wk EXCEPT ![w] = l])
  BY DEF TransitionRead, Call
<1>3. CASE Goto(w, onError)
  BY <1>1, <1>3, UnchangedRows, GotoKeeps DEF Quiet, TypeOK, Stages
<1>4. CASE CanTransition(current, to) /\ wk' = [wk EXCEPT ![w] = l]
  <2>a. onAllowed \in RunStages /\ current \in Status
    BY <1>4 DEF RunStages, CanTransition
  <2>b. wk[w] \in Local
    BY DEF TypeOK, WorkerTypeOK
  <2>1. l \in Local
    BY <2>a, <2>b DEF Local
  <2>2. l.pc = onAllowed /\ l.seen = current /\ l.inc = wk[w].inc /\ l.attempt = wk[w].attempt
    BY DEF TypeOK, WorkerTypeOK, Local
  <2>3. SeenOK(l)
    BY <1>4, <2>2 DEF SeenOK
  <2> HIDE DEF l
  <2>4. KeepsHold(w)
    BY <1>4, <2>1, <2>2, <2>3, LocalKeeps DEF TypeOK
  <2>5. QED
    BY <1>1, <2>4, UnchangedRows DEF Quiet
<1>5. QED
  BY <1>2, <1>3, <1>4

LEMMA TransitionUpdateQuiet ==
  ASSUME TypeOK, NEW w \in Workers, wk[w].pc \in RunStages, NEW to \in Status,
         NEW onOk \in RunStages \ UpdateStages, NEW onError \in RunStages \ UpdateStages,
         TransitionUpdate(w, to, onOk, onError)
  PROVE  Quiet(w)
<1> DEFINE i == wk[w].inc
           l(pc) == [wk[w] EXCEPT !.pc = pc, !.seen = NoStatus]
<1>1. i \in Incidents /\ wk[w].seen \in Status \cup {NoStatus}
  BY DEF TypeOK, WorkerTypeOK, Local, RunStages, LoopStages
<1>2. UNCHANGED job
  BY DEF TransitionUpdate, Call, Refused, jobVars
<1>3. UNCHANGED storeVars \/ SetStatus(i, wk[w].seen, to)
  BY DEF TransitionUpdate, Call, Refused, TransitionWithEvent
<1>4. RowsKept
  BY <1>1, <1>3, UnchangedRows, SetStatusKeepsRows DEF TypeOK
<1>5. \E pc \in {onOk, onError} : wk' = [wk EXCEPT ![w] = l(pc)]
  BY DEF TransitionUpdate, Call
<1>6. \A pc \in {onOk, onError} : /\ l(pc) \in Local /\ l(pc).pc = pc
                                 /\ l(pc).inc = i /\ l(pc).attempt = wk[w].attempt
  BY DEF TypeOK, WorkerTypeOK, Local
<1> HIDE DEF l
<1>7. KeepsHold(w)
  BY <1>5, <1>6, LocalKeeps DEF TypeOK
<1>8. QED
  BY <1>2, <1>4, <1>7 DEF Quiet

LEMMA StepQuiet ==
  ASSUME TypeOK, NEW w \in Workers, Step(w), ~Claim(w), ~Complete(w), ~Fail(w)
  PROVE  Quiet(w)
<1> USE DEF Call, OnJobs, Reads, Refused, At
<1>a. wk[w] \in Local /\ WorkerTypeOK
  BY DEF TypeOK, WorkerTypeOK
<1>b. UNCHANGED jobVars => UNCHANGED job
  BY DEF jobVars
<1>1. ASSUME Load(w) PROVE Quiet(w)
  <2> DEFINE l == [wk[w] EXCEPT !.pc = "start", !.rca = inv[wk[w].inc].rca]
  <2>1. /\ l \in Local /\ l.pc = "start"
        /\ l.inc = wk[w].inc /\ l.attempt = wk[w].attempt
    BY <1>1, <1>a DEF Load, Local, RunStages, MarkStages, LoopStages, TypeOK, WorkerTypeOK,
                        JobStoreTypeOK, InvestigationRow
  <2>2. wk' = [wk EXCEPT ![w] = l] \/ Goto(w, "failJob")
    BY <1>1 DEF Load
  <2> HIDE DEF l
  <2>3. KeepsHold(w)
    BY <1>1, <1>a, <2>1, <2>2, LocalKeeps, GotoKeeps, MarkedKeeps
       DEF Load, Stages, RunStages, UpdateStages
  <2>4. QED
    BY <1>1, <1>b, <2>3, UnchangedRows DEF Load, Quiet
<1>2. ASSUME Start(w) PROVE Quiet(w)
  BY <1>2, <1>a, <1>b, UnchangedRows, GotoKeeps
     DEF Start, Quiet, UpdateInvestigation, Stages, RunStages, UpdateStages
<1>3. ASSUME Triage(w) PROVE Quiet(w)
  BY <1>3, TransitionReadQuiet DEF Triage, RunStages, UpdateStages
<1>4. ASSUME TriageUpdate(w) PROVE Quiet(w)
  BY <1>4, StatusFacts, TransitionUpdateQuiet DEF TriageUpdate, RunStages, UpdateStages
<1>5. ASSUME Investigate(w) PROVE Quiet(w)
  BY <1>5, TransitionReadQuiet DEF Investigate, RunStages, UpdateStages
<1>6. ASSUME InvestigateUpdate(w) PROVE Quiet(w)
  BY <1>6, StatusFacts, TransitionUpdateQuiet DEF InvestigateUpdate, RunStages, UpdateStages
<1>7. ASSUME Analyse(w) PROVE Quiet(w)
  <2> PICK outcome \in {"rca", "waiting", "invalid"} :
           Call(w, Reads,
                wk' = [wk EXCEPT ![w].pc = IF outcome = "invalid" THEN "failJob" ELSE "saveRun",
                                 ![w].outcome = outcome,
                                 ![w].rca = @ \/ outcome = "rca"],
                Goto(w, "failJob"))
    BY <1>7 DEF Analyse
  <2> DEFINE l == [wk[w] EXCEPT !.pc = IF outcome = "invalid" THEN "failJob" ELSE "saveRun",
                                !.outcome = outcome,
                                !.rca = @ \/ outcome = "rca"]
  <2>1. /\ l \in Local /\ l.pc \in {"failJob", "saveRun"}
        /\ l.inc = wk[w].inc /\ l.attempt = wk[w].attempt
    BY <1>a DEF Local, RunStages
  <2>2. wk' = [wk EXCEPT ![w] = l] \/ Goto(w, "failJob")
    OBVIOUS
  <2> HIDE DEF l
  <2>3. KeepsHold(w)
    BY <1>7, <1>a, <2>1, <2>2, LocalKeeps, GotoKeeps DEF Analyse, Stages, RunStages, UpdateStages
  <2>4. QED
    BY <1>7, <1>b, <2>3, UnchangedRows DEF Analyse, Quiet
<1>8. ASSUME SaveRun(w) PROVE Quiet(w)
  BY <1>8, <1>a, <1>b, UnchangedRows, GotoKeeps
     DEF SaveRun, Quiet, CreateAgentRun, Stages, RunStages, UpdateStages
<1>9. ASSUME Park(w) PROVE Quiet(w)
  BY <1>9, <1>a, <1>b, UnchangedRows, GotoKeeps
     DEF Park, Quiet, UpdateInvestigation, Stages, RunStages, UpdateStages
<1>10. ASSUME RootCause(w) PROVE Quiet(w)
  BY <1>10, TransitionReadQuiet DEF RootCause, RunStages, UpdateStages
<1>11. ASSUME RootCauseUpdate(w) PROVE Quiet(w)
  BY <1>11, StatusFacts, TransitionUpdateQuiet DEF RootCauseUpdate, RunStages, UpdateStages
<1>12. ASSUME Propose(w) PROVE Quiet(w)
  BY <1>12, <1>a, <1>b, UnchangedRows, GotoKeeps
     DEF Propose, Quiet, Stages, RunStages, UpdateStages
<1>13. ASSUME Finish(w) PROVE Quiet(w)
  BY <1>13, <1>a, <1>b, UnchangedRows, GotoKeeps
     DEF Finish, Quiet, UpdateInvestigation, Stages, RunStages, UpdateStages
<1>14. ASSUME MarkRead(w) PROVE Quiet(w)
  <2> DEFINE l == [wk[w] EXCEPT !.pc = "markWrite", !.rca = inv[wk[w].inc].rca]
  <2>1. /\ l \in Local /\ l.pc = "markWrite"
        /\ l.inc = wk[w].inc /\ l.attempt = wk[w].attempt
    BY <1>14, <1>a DEF MarkRead, Local, RunStages, MarkStages, LoopStages, TypeOK, WorkerTypeOK,
                        JobStoreTypeOK, InvestigationRow
  <2>2. wk' = [wk EXCEPT ![w] = l] \/ Marked(w)
    BY <1>14 DEF MarkRead
  <2> HIDE DEF l
  <2>3. KeepsHold(w)
    BY <1>14, <1>a, <2>1, <2>2, LocalKeeps, GotoKeeps, MarkedKeeps
       DEF MarkRead, Stages, RunStages, UpdateStages
  <2>4. QED
    BY <1>14, <1>b, <2>3, UnchangedRows DEF MarkRead, Quiet
<1>15. ASSUME MarkWrite(w) PROVE Quiet(w)
  BY <1>15, <1>a, <1>b, UnchangedRows, MarkedKeeps DEF MarkWrite, Quiet, UpdateInvestigation
<1>16. ASSUME Renotify(w) PROVE Quiet(w)
  BY <1>16, <1>a, <1>b, UnchangedRows, ReturnKeeps DEF Renotify, Quiet, LoopStages
<1>17. ASSUME Backoff(w) PROVE Quiet(w)
  BY <1>17, <1>a, <1>b, UnchangedRows, ReturnKeeps DEF Backoff, Quiet, LoopStages
<1>18. ASSUME WaitForJob(w) PROVE Quiet(w)
  BY <1>18, <1>a, <1>b, UnchangedRows, ReturnKeeps DEF WaitForJob, Quiet, LoopStages
<1>19. QED
  BY <1>1, <1>2, <1>3, <1>4, <1>5, <1>6, <1>7, <1>8, <1>9, <1>10, <1>11, <1>12, <1>13, <1>14, <1>15, <1>16, <1>17, <1>18 DEF Step

-----------------------------------------------------------------------------
(* The induction.  A quiet step keeps every hold as it was; a claim takes a    *)
(* pending job, which no one can hold; a report changes only the job of the    *)
(* worker that lets go of it.                                                  *)

LEMMA QuietInductive ==
  ASSUME Inductive, TypeOK', NEW w \in Workers, Quiet(w)
  PROVE  Inductive'
<1>1. ClaimHeld' /\ ExclusiveClaim'
  BY DEF Inductive, ClaimHeld, ExclusiveClaim, Holds, Quiet, KeepsHold
<1>2. AttemptsExact' /\ JobHasIncident'
  BY DEF Inductive, AttemptsExact, JobHasIncident, Quiet, RowsKept
<1>3. SeenAllowed'
  BY DEF Inductive, SeenAllowed, Quiet, KeepsHold, SeenOK, At
<1>4. QED
  BY <1>1, <1>2, <1>3 DEF Inductive

LEMMA ClaimInductive ==
  ASSUME Inductive, TypeOK', NEW w \in Workers, Claim(w)
  PROVE  Inductive'
<1>1. CASE UNCHANGED job /\ UNCHANGED storeVars /\ (Return(w, "wait") \/ Return(w, "backoff"))
  BY <1>1, ReturnKeeps, UnchangedRows, QuietInductive DEF Inductive, TypeOK, Quiet, LoopStages
<1>2. CASE \E j \in Incidents :
             /\ ClaimNextJob(j) /\ UNCHANGED storeVars
             /\ \/ wk' = [wk EXCEPT ![w] = [Loop("load") EXCEPT !.inc = j,
                                                               !.attempt = job[j].attempts + 1]]
                \/ Return(w, "backoff")
  <2> PICK j \in Incidents :
             /\ ClaimNextJob(j) /\ UNCHANGED storeVars
             /\ \/ wk' = [wk EXCEPT ![w] = [Loop("load") EXCEPT !.inc = j,
                                                               !.attempt = job[j].attempts + 1]]
                \/ Return(w, "backoff")
    BY <1>2
  <2>1. /\ job[j].status = "pending" /\ job[j].attempts \in Nat
        /\ job'[j].status = "processing" /\ job'[j].attempts = job[j].attempts + 1
        /\ \A k \in Incidents : k # j => job'[k] = job[k]
    BY DEF ClaimNextJob, Claimable, Inductive, TypeOK, JobStoreTypeOK, JobRow
  <2>2. /\ \A v \in Workers : v # w => wk'[v] = wk[v]
        /\ SeenOK(wk'[w])
        /\ wk'[w].pc \in RunStages => wk'[w].inc = j /\ wk'[w].attempt = job[j].attempts + 1
    <3>1. CASE Return(w, "backoff")
      BY <3>1 DEF Return, Loop, RunStages, SeenOK, Inductive, TypeOK, WorkerTypeOK
    <3>2. CASE wk' = [wk EXCEPT ![w] = [Loop("load") EXCEPT !.inc = j,
                                                         !.attempt = job[j].attempts + 1]]
      <4> DEFINE l == [Loop("load") EXCEPT !.inc = j, !.attempt = job[j].attempts + 1]
      <4>1. l.pc = "load" /\ l.inc = j /\ l.attempt = job[j].attempts + 1
        BY DEF Loop
      <4>2. wk' = [wk EXCEPT ![w] = l]
        BY <3>2
      <4> HIDE DEF l
      <4>3. QED
        BY <4>1, <4>2 DEF SeenOK, Inductive, TypeOK, WorkerTypeOK
    <3>3. QED
      BY <3>1, <3>2
  <2>3. \A v \in Workers : Holds(v) => wk[v].inc # j /\ wk[v].inc \in Incidents
    BY <2>1 DEF Inductive, ClaimHeld, Holds, TypeOK, WorkerTypeOK, RunStages, LoopStages
  <2>4. ClaimHeld' /\ ExclusiveClaim'
    BY <2>1, <2>2, <2>3 DEF Inductive, ClaimHeld, ExclusiveClaim, Holds
  <2>5. AttemptsExact'
    <3>1. job[j].attempts + 1 <= MaxAttempts
      BY <2>1 DEF Inductive, AttemptsExact
    <3>2. QED
      BY <2>1, <3>1 DEF Inductive, AttemptsExact
  <2>6. JobHasIncident'
    BY <2>1 DEF Inductive, JobHasIncident, storeVars
  <2>7. SeenAllowed'
    BY <2>2 DEF Inductive, SeenAllowed, SeenOK, At
  <2>8. QED
    BY <2>4, <2>5, <2>6, <2>7 DEF Inductive
<1>3. QED
  BY <1>1, <1>2 DEF Claim, Call, OnJobs, Reads, Refused, jobVars

LEMMA ReportInductive ==
  ASSUME Inductive, TypeOK', NEW w \in Workers, Complete(w) \/ Fail(w)
  PROVE  Inductive'
<1> DEFINE i == wk[w].inc
<1>1. i \in Incidents /\ Holds(w) /\ job[i].status = "processing" /\ job[i].attempts = wk[w].attempt
  BY DEF Complete, Fail, At, Inductive, TypeOK, WorkerTypeOK, LoopStages, RunStages, Holds, ClaimHeld
<1>2. UNCHANGED storeVars
  BY DEF Complete, Fail, Call, OnJobs, Refused
<1>3. KeepsHold(w) /\ wk'[w].pc \notin RunStages
  <2>1. (\E pc \in LoopStages : Return(w, pc)) \/ Goto(w, "markRead")
    BY DEF Complete, Fail, Call, LoopStages
  <2>2. wk'[w].pc \notin RunStages
    BY <2>1 DEF Inductive, TypeOK, WorkerTypeOK, Local, Return, Goto, Loop, LoopStages, RunStages
  <2>3. KeepsHold(w)
    BY <2>1, ReturnKeeps, GotoKeeps
       DEF Inductive, TypeOK, Stages, MarkStages, RunStages, UpdateStages
  <2>4. QED
    BY <2>2, <2>3
<1>4. CASE UNCHANGED job
  BY <1>2, <1>3, <1>4, UnchangedRows, QuietInductive DEF Quiet
<1>5. CASE CompleteJob(i) \/ FailJob(i, Retry(w))
  <2>1. \A k \in Incidents : k # i => job'[k] = job[k]
    BY <1>5 DEF CompleteJob, FailJob, Inductive, TypeOK, JobStoreTypeOK
  <2>2. /\ job'[i].attempts = job[i].attempts
        /\ \/ job'[i].status = "completed"
           \/ job'[i].status = "pending" /\ job[i].attempts < MaxAttempts
           \/ job'[i].status = "dead_letter" /\ ~(job[i].attempts < MaxAttempts)
    BY <1>1, <1>5 DEF CompleteJob, FailJob, Retry, Inductive, TypeOK, JobStoreTypeOK, JobRow
  <2>3. ClaimHeld' /\ ExclusiveClaim'
    <3>1. \A v \in Workers : Holds(v)' => /\ v # w /\ Holds(v) /\ wk'[v] = wk[v]
                                          /\ wk[v].inc # i /\ wk[v].inc \in Incidents
      BY <1>1, <1>3 DEF Inductive, ExclusiveClaim, Holds, KeepsHold, TypeOK, WorkerTypeOK,
                        RunStages, LoopStages
    <3>2. \A v \in Workers : Holds(v)' => /\ job'[wk'[v].inc] = job[wk[v].inc]
                                          /\ job[wk[v].inc].status = "processing"
                                          /\ job[wk[v].inc].attempts = wk'[v].attempt
      BY <2>1, <3>1 DEF Inductive, ClaimHeld
    <3>3. ClaimHeld'
      BY <3>2 DEF ClaimHeld
    <3>4. ExclusiveClaim'
      BY <3>1 DEF Inductive, ExclusiveClaim
    <3>5. QED
      BY <3>3, <3>4
  <2>4. AttemptsExact'
    <3>1. job[i].attempts \in Nat
      BY <1>1 DEF Inductive, TypeOK, JobStoreTypeOK, JobRow
    <3>2. QED
      BY <1>1, <2>1, <2>2, <3>1 DEF Inductive, AttemptsExact
  <2>5. JobHasIncident' /\ SeenAllowed'
    BY <1>1, <1>2, <1>3, <2>1
       DEF Inductive, JobHasIncident, SeenAllowed, storeVars, KeepsHold, SeenOK, At
  <2>6. QED
    BY <2>3, <2>4, <2>5 DEF Inductive
<1>6. QED
  BY <1>4, <1>5 DEF Complete, Fail, Call, OnJobs, Refused, jobVars

LEMMA SurroundingsInductive ==
  ASSUME Inductive, TypeOK', NEW i \in Incidents
  PROVE  /\ Intake(i) \/ Notify(i) => Inductive'
         /\ \A to \in OutsideTargets : OutsideMove(i, to) => Inductive'
         /\ FallDue(i) => Inductive'
<1>1. ASSUME Intake(i) PROVE Inductive'
  <2>1. /\ status[i] = NoStatus /\ job[i].status = "none"
        /\ job'[i].status = "pending" /\ job'[i].attempts = 0
        /\ status'[i] = "RECEIVED" /\ UNCHANGED wk
        /\ \A k \in Incidents : k # i => job'[k] = job[k] /\ status'[k] = status[k]
    BY <1>1 DEF Intake, Persist, CreateWithEvent, SetStatus, Inductive, JobHasIncident,
                TypeOK, StoreTypeOK, JobStoreTypeOK
  <2>2. \A v \in Workers : Holds(v) => wk[v].inc # i /\ wk[v].inc \in Incidents
    BY <2>1 DEF Inductive, ClaimHeld, Holds, TypeOK, WorkerTypeOK, RunStages, LoopStages
  <2>3. ClaimHeld' /\ ExclusiveClaim' /\ SeenAllowed'
    BY <2>1, <2>2 DEF Inductive, ClaimHeld, ExclusiveClaim, SeenAllowed, Holds, At
  <2>4. AttemptsExact'
    <3> SUFFICES ASSUME NEW k \in Incidents
                 PROVE  /\ job'[k].attempts <= MaxAttempts
                        /\ job'[k].status = "pending" => job'[k].attempts < MaxAttempts
                        /\ job'[k].status = "dead_letter" => job'[k].attempts = MaxAttempts
      BY DEF AttemptsExact
    <3>1. CASE k = i
      BY <2>1, <3>1
    <3>2. CASE k # i
      BY <2>1, <3>2 DEF Inductive, AttemptsExact
    <3>3. QED
      BY <3>1, <3>2
  <2>5. JobHasIncident'
    BY <2>1, StatusFacts DEF Inductive, JobHasIncident
  <2>6. QED
    BY <2>3, <2>4, <2>5 DEF Inductive
<1>2. ASSUME Notify(i) PROVE Inductive'
  BY <1>2 DEF Notify, storeVars, jobVars, Inductive, ClaimHeld, ExclusiveClaim, AttemptsExact,
              JobHasIncident, SeenAllowed, Holds, At
<1>3. ASSUME NEW to \in OutsideTargets, OutsideMove(i, to) PROVE Inductive'
  <2>1. RowsKept /\ UNCHANGED job /\ UNCHANGED wk
    BY <1>3, SetStatusKeepsRows DEF OutsideMove, jobVars, Inductive, TypeOK, StoreTypeOK
  <2>2. QED
    BY <2>1 DEF Inductive, ClaimHeld, ExclusiveClaim, AttemptsExact, JobHasIncident, SeenAllowed,
                Holds, At, RowsKept
<1>4. ASSUME FallDue(i) PROVE Inductive'
  <2>1. /\ \A k \in Incidents : job'[k].status = job[k].status /\ job'[k].attempts = job[k].attempts
        /\ UNCHANGED wk /\ UNCHANGED status
    BY <1>4 DEF FallDue, OnJobs, Elapse, storeVars, Inductive, TypeOK, JobStoreTypeOK, JobRow
  <2>2. \A v \in Workers : Holds(v) => wk[v].inc \in Incidents
    BY DEF Inductive, Holds, TypeOK, WorkerTypeOK, RunStages, LoopStages
  <2>3. QED
    BY <2>1, <2>2 DEF Inductive, ClaimHeld, ExclusiveClaim, AttemptsExact, JobHasIncident,
                      SeenAllowed, Holds, At
<1>5. QED
  BY <1>1, <1>2, <1>3, <1>4

LEMMA ProcessInductive ==
  ASSUME Inductive, TypeOK', NEW w \in Workers
  PROVE  Crash(w) \/ Stop(w) \/ Restart(w) => Inductive'
<1>1. ASSUME Crash(w) \/ Restart(w) PROVE Inductive'
  <2>1. Return(w, "idle") /\ UNCHANGED job /\ RowsKept
    BY <1>1, UnchangedRows DEF Crash, Restart, Return, jobVars
  <2>2. QED
    BY <2>1, ReturnKeeps, QuietInductive DEF Quiet, LoopStages, Inductive, TypeOK
<1>2. ASSUME Stop(w) PROVE Inductive'
  BY <1>2 DEF Stop, storeVars, jobVars, Inductive, ClaimHeld, ExclusiveClaim, AttemptsExact,
              JobHasIncident, SeenAllowed, Holds, At
<1>3. QED
  BY <1>1, <1>2

LEMMA WorkerInductive == Spec => []Inductive
<1>1. Init => Inductive
  BY InitType DEF Init, JobStoreInit, StoreInit, Loop, Inductive, ClaimHeld, ExclusiveClaim,
                  AttemptsExact, JobHasIncident, SeenAllowed, Holds, RunStages, At
<1>2. ASSUME Inductive, TypeOK', Next PROVE Inductive'
  <2>1. ASSUME NEW w \in Workers, Step(w) PROVE Inductive'
    BY <1>2, <2>1, StepQuiet, QuietInductive, ClaimInductive, ReportInductive DEF Inductive
  <2>2. QED
    BY <1>2, <2>1, SurroundingsInductive, ProcessInductive DEF Next
<1>3. Inductive /\ TypeOK' /\ UNCHANGED vars => Inductive'
  BY DEF vars, storeVars, jobVars, Inductive, ClaimHeld, ExclusiveClaim, AttemptsExact,
         JobHasIncident, SeenAllowed, Holds, At
<1>4. QED
  BY <1>1, <1>2, <1>3, WorkerTypeCorrect, PTL DEF Spec

\* No two workers ever work on the same job, however many there are and whatever
\* fails: a claim takes pending rows only (ClaimNextJob, SKIP LOCKED), and between
\* claim and report the row is processing.
THEOREM WorkersExclude == Spec => []ExclusiveClaim
BY WorkerInductive, PTL DEF Inductive

\* No job is claimed more than max_attempts times, and it is buried exactly when
\* its attempts are used up (processOne, ClaimNextJob, FailJob).
THEOREM AttemptsCounted == Spec => []AttemptsExact
BY WorkerInductive, PTL DEF Inductive

-----------------------------------------------------------------------------
(* What the steps do to the incidents. *)

WorkerTargets == {"TRIAGING", "INVESTIGATING", "ROOT_CAUSE_IDENTIFIED"}

Moved(i, to) == /\ CanTransition(status[i], to)
                /\ SetStatus(i, status[i], to)
                /\ to \in WorkerTargets => job[i].status = "processing"

StoreStep == \/ UNCHANGED storeVars
             \/ \E i \in Incidents : CreateWithEvent(i)
             \/ \E i \in Incidents, to \in Status : Moved(i, to)

LEMMA TransitionUpdateMoves ==
  ASSUME Inductive, NEW w \in Workers, Holds(w), NEW to \in Status, NEW onOk, NEW onError,
         CanTransition(wk[w].seen, to), TransitionUpdate(w, to, onOk, onError)
  PROVE  StoreStep
<1> DEFINE i == wk[w].inc
<1>1. i \in Incidents /\ job[i].status = "processing"
  BY DEF Inductive, ClaimHeld, Holds, TypeOK, WorkerTypeOK, RunStages, LoopStages
<1>2. UNCHANGED storeVars \/ (status[i] = wk[w].seen /\ SetStatus(i, wk[w].seen, to))
  BY DEF TransitionUpdate, Call, Refused, TransitionWithEvent
<1>3. UNCHANGED storeVars \/ Moved(i, to)
  BY <1>1, <1>2 DEF Moved
<1>4. QED
  BY <1>1, <1>3 DEF StoreStep

LEMMA NextStoreStep ==
  ASSUME Inductive, Next
  PROVE  StoreStep
<1>1. ASSUME NEW w \in Workers, Step(w) PROVE StoreStep
  <2>1. CASE TriageUpdate(w) \/ InvestigateUpdate(w) \/ RootCauseUpdate(w)
    BY <2>1, StatusFacts, TransitionUpdateMoves
       DEF TriageUpdate, InvestigateUpdate, RootCauseUpdate, Inductive, SeenAllowed, At, Holds,
           RunStages
  <2>2. CASE ~(TriageUpdate(w) \/ InvestigateUpdate(w) \/ RootCauseUpdate(w))
    <3>1. UNCHANGED storeVars
      BY <1>1, <2>2
         DEF Step, Claim, Load, Start, Triage, Investigate, Analyse, SaveRun, Park, RootCause,
             Propose, Finish, Complete, Fail, MarkRead, MarkWrite, Renotify, Backoff, WaitForJob,
             TransitionRead, Call, OnJobs, Reads, Refused
    <3>2. QED
      BY <3>1 DEF StoreStep
  <2>3. QED
    BY <2>1, <2>2
<1>2. ASSUME NEW w \in Workers, Crash(w) \/ Stop(w) \/ Restart(w) PROVE StoreStep
  BY <1>2 DEF Crash, Stop, Restart, StoreStep
<1>3. ASSUME NEW i \in Incidents, Intake(i) \/ Notify(i) \/ FallDue(i) PROVE StoreStep
  BY <1>3 DEF Intake, Persist, Notify, FallDue, OnJobs, StoreStep
<1>4. ASSUME NEW i \in Incidents, NEW to \in OutsideTargets, OutsideMove(i, to) PROVE StoreStep
  <2>1. to \in Status /\ Moved(i, to)
    BY <1>4 DEF OutsideMove, Moved, WorkerTargets
  <2>2. QED
    BY <2>1 DEF StoreStep
<1>5. QED
  BY <1>1, <1>2, <1>3, <1>4 DEF Next

\* The statuses of an investigation under way are entered only on behalf of a job
\* that is processing, by the worker that holds it.
THEOREM AdvanceNeedsClaim == Spec => AdvancedOnlyWhileProcessing
<1> DEFINE A == \A i \in Incidents :
                   status'[i] # status[i] /\ status'[i] \in WorkerTargets
                   => job[i].status = "processing"
<1>1. ASSUME Inductive, [Next]_vars PROVE A \/ UNCHANGED vars
  <2>1. CASE UNCHANGED vars
    BY <2>1
  <2>2. CASE Next
    <3>1. StoreStep
      BY <1>1, <2>2, NextStoreStep
    <3>2. StoreTypeOK
      BY <1>1 DEF Inductive, TypeOK
    <3>3. A
      BY <3>1, <3>2 DEF StoreStep, storeVars, CreateWithEvent, Moved, SetStatus, StoreTypeOK,
                        WorkerTargets
    <3>4. QED
      BY <3>3
  <2>3. QED
    BY <1>1, <2>1, <2>2
<1>2. QED
  BY <1>1, WorkerInductive, PTL DEF Spec, AdvancedOnlyWhileProcessing, WorkerTargets

\* The incidents and their timelines, with any number of workers and every crash,
\* shutdown and lost acknowledgement, behave as the abstract lifecycle says.
THEOREM WorkersImplementLifecycle == Spec => ImplementsLifecycle
<1>1. Init => Lifecycle!Init
  BY StoreInitIsLifecycle DEF Init
<1>2. ASSUME Inductive, [Next]_vars PROVE [Lifecycle!Next]_(Lifecycle!vars)
  <2>1. CASE UNCHANGED vars
    BY <2>1 DEF vars, storeVars, Lifecycle!vars
  <2>2. CASE Next
    BY <1>2, <2>2, NextStoreStep, StepIsLifecycle DEF StoreStep, Moved, LifecycleStep
  <2>3. QED
    BY <1>2, <2>1, <2>2
<1>3. QED
  BY <1>1, <1>2, WorkerInductive, PTL DEF Spec, ImplementsLifecycle, Lifecycle!Spec

-----------------------------------------------------------------------------
(* The investigation row.  UpdateInvestigation writes every column from the     *)
(* caller's copy, so a row is only as good as the copy is recent: as long as no *)
(* marker has stalled, one worker at a time has a copy it may still write, and  *)
(* no root cause was added to the row since it was read.                        *)

BusyStages == RunStages \cup MarkStages
\* The stages in which the copy has been read and may still be written.
CopyStages == (RunStages \ {"load", "failJob"}) \cup {"markWrite"}
SettledStatus == {"completed", "waiting_for_ai"}

Copied(l, row) == /\ l.pc \in CopyStages /\ row.rca => l.rca
                  /\ l.pc = "complete" => row.status \in SettledStatus

Alone == \A v, w \in Workers :
            v # w /\ wk[v].pc \in BusyStages /\ wk[w].pc \in BusyStages => wk[v].inc # wk[w].inc

\* The job of a worker in markInvestigationFailed cannot be claimed.
Reported == \A w \in Workers :
               wk[w].pc \in MarkStages =>
                   \/ job[wk[w].inc].status = "pending" /\ ~job[wk[w].inc].due
                   \/ job[wk[w].inc].status = "dead_letter"

CopiesFresh == \A w \in Workers : wk[w].pc \in BusyStages => Copied(wk[w], inv[wk[w].inc])

Settled == \A i \in Incidents : job[i].status = "completed" => inv[i].status \in SettledStatus

NoRowNoCause == \A i \in Incidents : status[i] = NoStatus => ~inv[i].rca

Fresh == stalls = 0 => NoRowNoCause /\ Alone /\ Reported /\ CopiesFresh /\ Settled

\* A worker's step that is neither a claim nor a report.
Tame(w) ==
    /\ Quiet(w) /\ UNCHANGED stalls
    /\ wk'[w].pc \in BusyStages => /\ wk[w].pc \in BusyStages
                                  /\ wk'[w].inc = wk[w].inc
                                  /\ Copied(wk'[w], inv'[wk[w].inc])
    /\ wk'[w].pc \in MarkStages => wk[w].pc \in MarkStages
    /\ \/ inv' = inv
       \/ /\ wk[w].pc \in BusyStages
          /\ \E row \in InvestigationRow : /\ inv' = [inv EXCEPT ![wk[w].inc] = row]
                                           /\ inv[wk[w].inc].rca => row.rca

LEMMA LocalTame ==
  ASSUME NEW w \in Workers, NEW l, WorkerTypeOK, Quiet(w), UNCHANGED stalls, UNCHANGED inv,
         wk' = [wk EXCEPT ![w] = l],
         l.pc \in BusyStages => /\ wk[w].pc \in BusyStages /\ l.inc = wk[w].inc
                               /\ Copied(l, inv[wk[w].inc]),
         l.pc \in MarkStages => wk[w].pc \in MarkStages
  PROVE  Tame(w)
BY DEF WorkerTypeOK, Tame

LEMMA GotoTame ==
  ASSUME NEW w \in Workers, NEW pc \in Stages \ {"complete"}, WorkerTypeOK, Quiet(w),
         UNCHANGED stalls, UNCHANGED inv, Goto(w, pc),
         wk[w].pc \in BusyStages => Copied(wk[w], inv[wk[w].inc]),
         pc \in BusyStages => wk[w].pc \in BusyStages,
         pc \in CopyStages => wk[w].pc \in CopyStages,
         pc \in MarkStages => wk[w].pc \in MarkStages
  PROVE  Tame(w)
<1> DEFINE l == [wk[w] EXCEPT !.pc = pc]
<1>1. l.pc = pc /\ l.inc = wk[w].inc /\ l.rca = wk[w].rca
  BY DEF WorkerTypeOK, Local
<1>2. wk' = [wk EXCEPT ![w] = l]
  BY DEF Goto
<1> HIDE DEF l
<1>3. pc \in BusyStages => Copied(l, inv[wk[w].inc])
  BY <1>1 DEF Copied
<1>4. QED
  BY <1>1, <1>2, <1>3, LocalTame

LEMMA ReturnTame ==
  ASSUME NEW w \in Workers, NEW pc \in LoopStages, WorkerTypeOK, Quiet(w), UNCHANGED stalls,
         UNCHANGED inv, Return(w, pc)
  PROVE  Tame(w)
BY LocalTame DEF Return, Loop, LoopStages, BusyStages, RunStages, MarkStages

LEMMA MarkedTame ==
  ASSUME NEW w \in Workers, WorkerTypeOK, Quiet(w), UNCHANGED stalls, UNCHANGED inv, Marked(w),
         wk[w].pc \in BusyStages => Copied(wk[w], inv[wk[w].inc])
  PROVE  Tame(w)
<1>1. CASE Goto(w, "renotify")
  BY <1>1, GotoTame DEF Stages, BusyStages, CopyStages, RunStages, MarkStages
<1>2. CASE Return(w, "backoff")
  BY <1>2, ReturnTame DEF LoopStages
<1>3. QED
  BY <1>1, <1>2 DEF Marked

\* A write of the copy: the row it leaves has the root cause the worker knows of.
LEMMA WriteTame ==
  ASSUME NEW w \in Workers, NEW s \in {"pending", "running", "completed", "failed", "waiting_for_ai"},
         NEW pc \in Stages, WorkerTypeOK, Quiet(w), UNCHANGED stalls,
         wk[w].pc \in CopyStages, wk[w].inc \in Incidents, inv \in [Incidents -> InvestigationRow],
         Copied(wk[w], inv[wk[w].inc]),
         UpdateInvestigation(wk[w].inc, s, wk[w].rca),
         \/ Goto(w, pc) /\ pc \notin MarkStages
         \/ Return(w, pc) /\ pc \in LoopStages,
         pc = "complete" => s \in SettledStatus
  PROVE  Tame(w)
<1> DEFINE i == wk[w].inc
           row == [status |-> s, rca |-> wk[w].rca]
<1>1. row \in InvestigationRow /\ inv' = [inv EXCEPT ![i] = row] /\ inv'[i] = row
  BY DEF WorkerTypeOK, Local, InvestigationRow, UpdateInvestigation
<1>2. inv[i].rca => row.rca
  BY DEF Copied
<1>3. wk'[w].pc \in BusyStages => /\ wk'[w].inc = i /\ wk'[w].rca = wk[w].rca
                                 /\ wk'[w].pc = pc
  BY DEF Goto, Return, Loop, WorkerTypeOK, Local, LoopStages, BusyStages, RunStages, MarkStages
<1>4. wk'[w].pc \in BusyStages => Copied(wk'[w], inv'[i])
  BY <1>1, <1>3 DEF Copied
<1>5. wk'[w].pc \notin MarkStages
  BY DEF Goto, Return, Loop, WorkerTypeOK, Local, LoopStages, MarkStages
<1>6. wk[w].pc \in BusyStages
  BY DEF CopyStages, BusyStages, MarkStages
<1> HIDE DEF row
<1>7. QED
  BY <1>1, <1>2, <1>3, <1>4, <1>5, <1>6 DEF Tame

LEMMA TransitionTame ==
  ASSUME TypeOK, NEW w \in Workers, Quiet(w), UNCHANGED stalls, NEW to, NEW good, NEW bad,
         wk[w].pc \in RunStages \ {"load", "failJob"},
         good \in RunStages \ {"load", "complete"}, bad \in RunStages \ {"load", "complete"},
         Copied(wk[w], inv[wk[w].inc]),
         TransitionRead(w, to, good, bad) \/ TransitionUpdate(w, to, good, bad)
  PROVE  Tame(w)
<1>1. UNCHANGED inv
  BY DEF TransitionRead, TransitionUpdate, Call, Refused, Reads, jobVars
<1>2. \E pc \in {good, bad} : \E seen :
         wk' = [wk EXCEPT ![w].pc = pc, ![w].seen = seen] \/ Goto(w, pc)
  BY DEF TransitionRead, TransitionUpdate, Call
<1> PICK pc \in {good, bad} : \E seen :
         wk' = [wk EXCEPT ![w].pc = pc, ![w].seen = seen] \/ Goto(w, pc)
  BY <1>2
<1> PICK seen : wk' = [wk EXCEPT ![w].pc = pc, ![w].seen = seen] \/ Goto(w, pc)
  OBVIOUS
<1>3. wk[w].pc \in CopyStages /\ wk[w].pc \in BusyStages /\ pc \notin MarkStages
  BY DEF CopyStages, BusyStages, RunStages, MarkStages
<1>4. CASE Goto(w, pc)
  BY <1>1, <1>3, <1>4, GotoTame DEF TypeOK, Stages
<1>5. CASE wk' = [wk EXCEPT ![w].pc = pc, ![w].seen = seen]
  <2> DEFINE l == [wk[w] EXCEPT !.pc = pc, !.seen = seen]
  <2>1. l.pc = pc /\ l.inc = wk[w].inc /\ l.rca = wk[w].rca
    BY DEF TypeOK, WorkerTypeOK, Local
  <2>2. wk' = [wk EXCEPT ![w] = l]
    BY <1>5
  <2> HIDE DEF l
  <2>3. Copied(l, inv[wk[w].inc])
    BY <1>3, <2>1 DEF Copied
  <2>4. QED
    BY <1>1, <1>3, <2>1, <2>2, <2>3, LocalTame DEF TypeOK
<1>6. QED
  BY <1>4, <1>5

\* A copy just read has what the row has.
LEMMA ReadTame ==
  ASSUME TypeOK, NEW w \in Workers, Quiet(w), UNCHANGED stalls, UNCHANGED inv, NEW pc,
         wk[w].pc \in BusyStages, pc # "complete", pc \in MarkStages => wk[w].pc \in MarkStages,
         wk' = [wk EXCEPT ![w].pc = pc, ![w].rca = inv[wk[w].inc].rca]
  PROVE  Tame(w)
<1> DEFINE l == [wk[w] EXCEPT !.pc = pc, !.rca = inv[wk[w].inc].rca]
<1>1. l.pc = pc /\ l.inc = wk[w].inc /\ l.rca = inv[wk[w].inc].rca
  BY DEF TypeOK, WorkerTypeOK, Local
<1>2. wk' = [wk EXCEPT ![w] = l]
  OBVIOUS
<1> HIDE DEF l
<1>3. Copied(l, inv[wk[w].inc])
  BY <1>1 DEF Copied
<1>4. QED
  BY <1>1, <1>2, <1>3, LocalTame DEF TypeOK

LEMMA StepTame ==
  ASSUME TypeOK, NEW w \in Workers, Step(w), ~Claim(w), ~Complete(w), ~Fail(w),
         wk[w].pc \in BusyStages => Copied(wk[w], inv[wk[w].inc])
  PROVE  Tame(w)
<1>a. Quiet(w)
  BY StepQuiet
<1>b. UNCHANGED stalls
  BY DEF Step, Load, Start, Triage, TriageUpdate, Investigate, InvestigateUpdate, Analyse, SaveRun,
         Park, RootCause, RootCauseUpdate, Propose, Finish, MarkRead, MarkWrite, Renotify, Backoff,
         WaitForJob, TransitionRead, TransitionUpdate, Call, Refused, NoFault, Fault, envVars
<1>c. WorkerTypeOK /\ inv \in [Incidents -> InvestigationRow]
  BY DEF TypeOK, JobStoreTypeOK
<1>d. wk[w].pc \notin LoopStages => wk[w].inc \in Incidents
  BY DEF TypeOK, WorkerTypeOK
<1> USE DEF Call, OnJobs, Reads, Refused, At, Stages, BusyStages, CopyStages, RunStages,
            MarkStages, LoopStages
<1>1. ASSUME Load(w) PROVE Tame(w)
  BY <1>1, <1>a, <1>b, <1>c, ReadTame, GotoTame DEF Load, jobVars
<1>2. ASSUME Start(w) PROVE Tame(w)
  <2>1. /\ wk[w].pc = "start" /\ (Goto(w, "triage") \/ Goto(w, "failJob"))
        /\ UNCHANGED inv \/ UpdateInvestigation(wk[w].inc, "running", wk[w].rca)
    BY <1>2 DEF Start, jobVars
  <2>2. CASE UNCHANGED inv
    BY <1>a, <1>b, <1>c, <2>1, <2>2, GotoTame
  <2>3. CASE UpdateInvestigation(wk[w].inc, "running", wk[w].rca)
    <3>1. wk[w].pc \in CopyStages /\ wk[w].inc \in Incidents /\ Copied(wk[w], inv[wk[w].inc])
      BY <1>d, <2>1
    <3>2. \A pc \in {"triage", "failJob"} : pc # "complete" /\ pc \in Stages /\ pc \notin MarkStages
      OBVIOUS
    <3>3. CASE Goto(w, "triage")
      BY <1>a, <1>b, <1>c, <2>3, <3>1, <3>2, <3>3, WriteTame, Zenon
    <3>4. CASE Goto(w, "failJob")
      BY <1>a, <1>b, <1>c, <2>3, <3>1, <3>2, <3>4, WriteTame, Zenon
    <3>5. QED
      BY <2>1, <3>3, <3>4
  <2>4. QED
    BY <2>1, <2>2, <2>3
<1>3. ASSUME Triage(w) \/ Investigate(w) \/ RootCause(w) PROVE Tame(w)
  BY <1>3, <1>a, <1>b, TransitionTame DEF Triage, Investigate, RootCause
<1>4. ASSUME TriageUpdate(w) \/ InvestigateUpdate(w) \/ RootCauseUpdate(w) PROVE Tame(w)
  BY <1>4, <1>a, <1>b, TransitionTame DEF TriageUpdate, InvestigateUpdate, RootCauseUpdate
<1>5. ASSUME Analyse(w) PROVE Tame(w)
  <2> PICK outcome \in {"rca", "waiting", "invalid"} :
           Call(w, Reads,
                wk' = [wk EXCEPT ![w].pc = IF outcome = "invalid" THEN "failJob" ELSE "saveRun",
                                 ![w].outcome = outcome,
                                 ![w].rca = @ \/ outcome = "rca"],
                Goto(w, "failJob"))
    BY <1>5 DEF Analyse
  <2> DEFINE l == [wk[w] EXCEPT !.pc = IF outcome = "invalid" THEN "failJob" ELSE "saveRun",
                                !.outcome = outcome,
                                !.rca = @ \/ outcome = "rca"]
  <2>0. UNCHANGED inv /\ wk[w].pc = "analyse"
    BY <1>5 DEF Analyse, jobVars
  <2>1. /\ l.pc \in {"failJob", "saveRun"} /\ l.inc = wk[w].inc
        /\ l.rca = (wk[w].rca \/ outcome = "rca")
    BY <1>c DEF WorkerTypeOK, Local
  <2>2. wk' = [wk EXCEPT ![w] = l] \/ Goto(w, "failJob")
    OBVIOUS
  <2> HIDE DEF l
  <2>3. Copied(l, inv[wk[w].inc])
    BY <2>0, <2>1 DEF Copied
  <2>4. CASE wk' = [wk EXCEPT ![w] = l]
    BY <1>a, <1>b, <1>c, <2>0, <2>1, <2>3, <2>4, LocalTame
  <2>5. CASE Goto(w, "failJob")
    BY <1>a, <1>b, <1>c, <2>0, <2>5, GotoTame
  <2>6. QED
    BY <2>2, <2>4, <2>5
<1>6. ASSUME SaveRun(w) PROVE Tame(w)
  BY <1>6, <1>a, <1>b, <1>c, GotoTame DEF SaveRun, CreateAgentRun, jobVars
<1>7. ASSUME Park(w) PROVE Tame(w)
  BY <1>7, <1>a, <1>b, <1>c, <1>d, WriteTame, GotoTame DEF Park, jobVars, SettledStatus
<1>8. ASSUME Propose(w) PROVE Tame(w)
  BY <1>8, <1>a, <1>b, <1>c, GotoTame DEF Propose, jobVars
<1>9. ASSUME Finish(w) PROVE Tame(w)
  BY <1>9, <1>a, <1>b, <1>c, <1>d, WriteTame, GotoTame DEF Finish, jobVars, SettledStatus
<1>10. ASSUME MarkRead(w) PROVE Tame(w)
  <2>1. wk[w].pc = "markRead" /\ UNCHANGED inv
    BY <1>10 DEF MarkRead, jobVars
  <2>2. \/ wk' = [wk EXCEPT ![w].pc = "markWrite", ![w].rca = inv[wk[w].inc].rca]
        \/ Marked(w)
    BY <1>10 DEF MarkRead
  <2>3. QED
    BY <1>a, <1>b, <1>c, <2>1, <2>2, ReadTame, MarkedTame
<1>11. ASSUME MarkWrite(w) PROVE Tame(w)
  <2> DEFINE s == IF Retry(w) THEN "pending" ELSE "failed"
  <2>1. wk[w].pc = "markWrite" /\ Marked(w)
    BY <1>11 DEF MarkWrite
  <2>2. UNCHANGED inv \/ UpdateInvestigation(wk[w].inc, s, wk[w].rca)
    BY <1>11 DEF MarkWrite, jobVars
  <2>3. CASE UNCHANGED inv
    BY <1>a, <1>b, <1>c, <2>1, <2>3, MarkedTame
  <2>4. CASE UpdateInvestigation(wk[w].inc, s, wk[w].rca)
    <3>1. s \in {"pending", "failed"} /\ (Goto(w, "renotify") \/ Return(w, "backoff"))
      BY <2>1 DEF Marked
    <3>2. wk[w].pc \in CopyStages /\ wk[w].inc \in Incidents /\ Copied(wk[w], inv[wk[w].inc])
      BY <1>d, <2>1
    <3>3. /\ "renotify" # "complete" /\ "renotify" \in Stages /\ "renotify" \notin MarkStages
          /\ "backoff" # "complete"
      OBVIOUS
    <3>4. s \in {"pending", "running", "completed", "failed", "waiting_for_ai"}
      BY <3>1
    <3> HIDE DEF s
    <3>5. CASE Goto(w, "renotify")
      BY <1>a, <1>b, <1>c, <2>4, <3>2, <3>3, <3>4, <3>5, WriteTame, Zenon
    <3>6. CASE Return(w, "backoff")
      BY <1>a, <1>b, <1>c, <2>4, <3>2, <3>3, <3>4, <3>6, WriteTame, Zenon
    <3>7. QED
      BY <3>1, <3>5, <3>6
  <2>5. QED
    BY <2>2, <2>3, <2>4
<1>12. ASSUME Renotify(w) \/ Backoff(w) \/ WaitForJob(w) PROVE Tame(w)
  BY <1>12, <1>a, <1>b, <1>c, ReturnTame DEF Renotify, Backoff, WaitForJob, jobVars
<1>13. QED
  BY <1>1, <1>2, <1>3, <1>4, <1>5, <1>6, <1>7, <1>8, <1>9, <1>10, <1>11, <1>12 DEF Step

LEMMA TameFresh ==
  ASSUME Inductive, Fresh, stalls = 0, NEW w \in Workers, Tame(w)
  PROVE  Fresh'
<1> DEFINE i == wk[w].inc
<1>1. NoRowNoCause /\ Alone /\ Reported /\ CopiesFresh /\ Settled
  BY DEF Fresh
<1>2. \A v \in Workers :
         wk[v].pc \in BusyStages => /\ wk[v].inc \in Incidents
                                    /\ job[wk[v].inc].status \notin {"none", "completed"}
  BY <1>1 DEF Inductive, ClaimHeld, Holds, TypeOK, WorkerTypeOK, Reported, BusyStages, RunStages,
              MarkStages, LoopStages
<1>3. /\ job' = job
      /\ \A k \in Incidents : status'[k] = NoStatus => status[k] = NoStatus
      /\ \A v \in Workers : v # w => wk'[v] = wk[v]
      /\ wk'[w].pc \in BusyStages => wk[w].pc \in BusyStages /\ wk'[w].inc = i
      /\ wk'[w].pc \in MarkStages => wk[w].pc \in MarkStages
  BY DEF Tame, Quiet, RowsKept, KeepsHold
<1>4. \A k \in Incidents : inv'[k] # inv[k] => wk[w].pc \in BusyStages /\ i = k
  BY DEF Tame, Inductive, TypeOK, JobStoreTypeOK
<1>5. NoRowNoCause'
  BY <1>1, <1>2, <1>3, <1>4 DEF NoRowNoCause, Inductive, JobHasIncident
<1>6. Alone'
  BY <1>1, <1>3 DEF Alone
<1>7. Reported'
  BY <1>1, <1>3 DEF Reported, BusyStages
<1>8. CopiesFresh'
  <2> SUFFICES ASSUME NEW v \in Workers, wk'[v].pc \in BusyStages
               PROVE  Copied(wk'[v], inv'[wk'[v].inc])
    BY DEF CopiesFresh
  <2>1. CASE v = w
    BY <1>3, <2>1 DEF Tame
  <2>2. CASE v # w
    <3>1. wk'[v] = wk[v] /\ wk[v].inc \in Incidents
      BY <1>2, <1>3, <2>2
    <3>2. inv'[wk[v].inc] = inv[wk[v].inc]
      BY <1>1, <1>4, <2>2, <3>1 DEF Alone
    <3>3. QED
      BY <1>1, <3>1, <3>2 DEF CopiesFresh
  <2>3. QED
    BY <2>1, <2>2
<1>9. Settled'
  BY <1>1, <1>2, <1>3, <1>4 DEF Settled
<1>10. QED
  BY <1>5, <1>6, <1>7, <1>8, <1>9 DEF Fresh

LEMMA ClaimFresh ==
  ASSUME Inductive, TypeOK', Fresh, stalls = 0, NEW w \in Workers, Claim(w)
  PROVE  Fresh'
<1>1. NoRowNoCause /\ Alone /\ Reported /\ CopiesFresh /\ Settled
  BY DEF Fresh
<1>2. UNCHANGED <<storeVars, inv>>
  BY DEF Claim, Call, OnJobs, Reads, Refused, ClaimNextJob, jobVars
<1>3. \/ UNCHANGED job /\ \E pc \in LoopStages : Return(w, pc)
      \/ \E j \in Incidents :
            /\ ClaimNextJob(j)
            /\ \/ wk' = [wk EXCEPT ![w] = [Loop("load") EXCEPT !.inc = j,
                                                              !.attempt = job[j].attempts + 1]]
               \/ Return(w, "backoff")
  BY DEF Claim, Call, OnJobs, Reads, Refused, jobVars, LoopStages
<1>4. /\ \A v \in Workers : v # w => wk'[v] = wk[v]
      /\ wk'[w].pc \in BusyStages => /\ wk'[w].pc = "load" /\ wk'[w].inc \in Claimable
  <2>1. CASE \E pc \in LoopStages : Return(w, pc)
    BY <2>1 DEF Return, Loop, LoopStages, BusyStages, RunStages, MarkStages, Inductive, TypeOK,
                WorkerTypeOK
  <2>2. CASE \E j \in Claimable :
               wk' = [wk EXCEPT ![w] = [Loop("load") EXCEPT !.inc = j,
                                                          !.attempt = job[j].attempts + 1]]
    <3> PICK j \in Claimable :
               wk' = [wk EXCEPT ![w] = [Loop("load") EXCEPT !.inc = j,
                                                          !.attempt = job[j].attempts + 1]]
      BY <2>2
    <3> DEFINE l == [Loop("load") EXCEPT !.inc = j, !.attempt = job[j].attempts + 1]
    <3>1. l.pc = "load" /\ l.inc = j
      BY DEF Loop
    <3>2. wk' = [wk EXCEPT ![w] = l]
      OBVIOUS
    <3> HIDE DEF l
    <3>3. QED
      BY <3>1, <3>2 DEF Inductive, TypeOK, WorkerTypeOK
  <2>3. QED
    BY <1>3, <2>1, <2>2 DEF ClaimNextJob, LoopStages
<1>5. \A k \in Incidents : job'[k] # job[k] => k \in Claimable /\ job'[k].status = "processing"
  <2>1. CASE UNCHANGED job
    BY <2>1
  <2>2. CASE \E j \in Incidents : ClaimNextJob(j)
    <3> PICK j \in Incidents : ClaimNextJob(j)
      BY <2>2
    <3>1. /\ j \in Claimable /\ job'[j].status = "processing"
          /\ \A k \in Incidents : k # j => job'[k] = job[k]
      BY DEF ClaimNextJob, Inductive, TypeOK, JobStoreTypeOK, JobRow
    <3>2. QED
      BY <3>1
  <2>3. QED
    BY <1>3, <2>1, <2>2
<1>6. \A v \in Workers :
         wk[v].pc \in BusyStages => /\ wk[v].inc \in Incidents
                                    /\ wk[v].inc \notin Claimable
  BY <1>1 DEF Inductive, ClaimHeld, Holds, TypeOK, WorkerTypeOK, Reported, BusyStages, RunStages,
              MarkStages, LoopStages, Claimable
<1>7. NoRowNoCause' /\ Settled'
  BY <1>1, <1>2, <1>5 DEF NoRowNoCause, Settled, storeVars
<1>8. Alone'
  BY <1>1, <1>4, <1>6 DEF Alone
<1>9. Reported'
  <2> SUFFICES ASSUME NEW v \in Workers, wk'[v].pc \in MarkStages
               PROVE  \/ job'[wk'[v].inc].status = "pending" /\ ~job'[wk'[v].inc].due
                      \/ job'[wk'[v].inc].status = "dead_letter"
    BY DEF Reported
  <2>1. wk'[v] = wk[v] /\ wk[v].pc \in BusyStages
    BY <1>4 DEF BusyStages, MarkStages
  <2>2. job'[wk[v].inc] = job[wk[v].inc]
    BY <1>5, <1>6, <2>1
  <2>3. QED
    BY <1>1, <2>1, <2>2 DEF Reported
<1>10. CopiesFresh'
  BY <1>1, <1>2, <1>4 DEF CopiesFresh, Copied, CopyStages, RunStages, MarkStages
<1>11. QED
  BY <1>7, <1>8, <1>9, <1>10 DEF Fresh

LEMMA ReportFresh ==
  ASSUME Inductive, TypeOK', Fresh, stalls = 0, NEW w \in Workers, Complete(w) \/ Fail(w)
  PROVE  Fresh'
<1> DEFINE i == wk[w].inc
<1>1. NoRowNoCause /\ Alone /\ Reported /\ CopiesFresh /\ Settled
  BY DEF Fresh
<1>2. /\ i \in Incidents /\ wk[w].pc \in BusyStages /\ job[i].status = "processing"
      /\ At(w, "complete") => inv[i].status \in SettledStatus
  BY <1>1 DEF Complete, Fail, At, Inductive, ClaimHeld, Holds, TypeOK, WorkerTypeOK, LoopStages,
              RunStages, BusyStages, CopiesFresh, Copied
<1>3. UNCHANGED <<storeVars, inv>>
  BY DEF Complete, Fail, Call, OnJobs, Refused, CompleteJob, FailJob, jobVars
<1>4. /\ \A v \in Workers : v # w => wk'[v] = wk[v]
      /\ wk'[w].pc \notin BusyStages
         \/ /\ wk'[w].pc = "markRead" /\ wk'[w].inc = i
            /\ FailJob(i, Retry(w))
  BY <1>2 DEF Complete, Fail, Call, OnJobs, Goto, Return, Loop, BusyStages, RunStages, MarkStages,
              Inductive, TypeOK, WorkerTypeOK, Local
<1>5. /\ \A k \in Incidents : k # i => job'[k] = job[k]
      /\ job'[i].status = "completed" => At(w, "complete")
      /\ FailJob(i, Retry(w)) => \/ job'[i].status = "pending" /\ ~job'[i].due
                                 \/ job'[i].status = "dead_letter"
  BY <1>2 DEF Complete, Fail, Call, OnJobs, Refused, CompleteJob, FailJob, jobVars, Inductive, TypeOK,
              JobStoreTypeOK, JobRow
<1>6. \A v \in Workers : v # w /\ wk[v].pc \in BusyStages => wk[v].inc \in Incidents \ {i}
  BY <1>1, <1>2 DEF Alone, Inductive, TypeOK, WorkerTypeOK, BusyStages, RunStages, MarkStages, LoopStages
<1>7. NoRowNoCause' /\ Settled'
  BY <1>1, <1>2, <1>3, <1>5 DEF NoRowNoCause, Settled, storeVars
<1>8. Alone'
  BY <1>1, <1>2, <1>4, <1>6 DEF Alone
<1>9. Reported'
  <2> SUFFICES ASSUME NEW v \in Workers, wk'[v].pc \in MarkStages
               PROVE  \/ job'[wk'[v].inc].status = "pending" /\ ~job'[wk'[v].inc].due
                      \/ job'[wk'[v].inc].status = "dead_letter"
    BY DEF Reported
  <2>1. CASE v = w
    BY <1>4, <1>5, <2>1 DEF BusyStages
  <2>2. CASE v # w
    <3>1. wk'[v] = wk[v] /\ job'[wk[v].inc] = job[wk[v].inc]
      BY <1>4, <1>5, <1>6, <2>2 DEF BusyStages
    <3>2. QED
      BY <1>1, <3>1 DEF Reported
  <2>3. QED
    BY <2>1, <2>2
<1>10. CopiesFresh'
  BY <1>1, <1>3, <1>4 DEF CopiesFresh, Copied, CopyStages, RunStages
<1>11. QED
  BY <1>7, <1>8, <1>9, <1>10 DEF Fresh

LEMMA SurroundingsFresh ==
  ASSUME Inductive, Fresh, stalls = 0, stalls' = 0, NEW i \in Incidents
  PROVE  /\ Intake(i) => Fresh'
         /\ Notify(i) => Fresh'
         /\ \A to \in OutsideTargets : OutsideMove(i, to) => Fresh'
         /\ FallDue(i) => Fresh'
<1>1. NoRowNoCause /\ Alone /\ Reported /\ CopiesFresh /\ Settled
  BY DEF Fresh
<1>2. \A v \in Workers :
         wk[v].pc \in BusyStages => /\ wk[v].inc \in Incidents
                                    /\ job[wk[v].inc].status # "none"
  BY <1>1 DEF Inductive, ClaimHeld, Holds, TypeOK, WorkerTypeOK, Reported, BusyStages, RunStages,
              MarkStages, LoopStages
<1>3. ASSUME Intake(i) PROVE Fresh'
  <2>1. /\ UNCHANGED wk /\ status[i] = NoStatus /\ status'[i] # NoStatus /\ job[i].status = "none"
        /\ job'[i].status = "pending"
        /\ \A k \in Incidents : k # i => /\ job'[k] = job[k] /\ inv'[k] = inv[k]
                                         /\ status'[k] = status[k]
    BY <1>3, StatusFacts
       DEF Intake, Persist, CreateWithEvent, SetStatus, Inductive, JobHasIncident,
           TypeOK, StoreTypeOK, JobStoreTypeOK
  <2>2. \A v \in Workers : wk[v].pc \in BusyStages => wk[v].inc \in Incidents \ {i}
    BY <1>2, <2>1
  <2>3. NoRowNoCause' /\ Alone' /\ Settled'
    BY <1>1, <2>1 DEF NoRowNoCause, Alone, Settled
  <2>4. Reported'
    BY <1>1, <2>1, <2>2 DEF Reported, BusyStages
  <2>5. CopiesFresh'
    BY <1>1, <2>1, <2>2 DEF CopiesFresh
  <2>6. QED
    BY <2>3, <2>4, <2>5 DEF Fresh
<1>4. ASSUME Notify(i) PROVE Fresh'
  BY <1>1, <1>4 DEF Notify, storeVars, jobVars, Fresh, NoRowNoCause, Alone, Reported, CopiesFresh,
                    Settled
<1>5. ASSUME NEW to \in OutsideTargets, OutsideMove(i, to) PROVE Fresh'
  <2>1. RowsKept /\ UNCHANGED job /\ UNCHANGED wk /\ UNCHANGED inv
    BY <1>5, SetStatusKeepsRows DEF OutsideMove, jobVars, Inductive, TypeOK, StoreTypeOK
  <2>2. QED
    BY <1>1, <2>1 DEF Fresh, NoRowNoCause, Alone, Reported, CopiesFresh, Settled, RowsKept
<1>6. ASSUME FallDue(i) PROVE Fresh'
  <2>1. /\ UNCHANGED <<wk, inv, status>> /\ ~Stalled(i)
        /\ \A k \in Incidents : job'[k].status = job[k].status /\ (k # i => job'[k] = job[k])
    BY <1>6 DEF FallDue, OnJobs, Elapse, storeVars, Inductive, TypeOK, JobStoreTypeOK, JobRow
  <2>2. NoRowNoCause' /\ Alone' /\ Settled' /\ CopiesFresh'
    BY <1>1, <2>1 DEF NoRowNoCause, Alone, Settled, CopiesFresh
  <2>3. \A v \in Workers : wk[v].pc \in MarkStages => wk[v].inc \in Incidents \ {i}
    BY <1>2, <2>1 DEF Stalled, BusyStages
  <2>4. Reported'
    BY <1>1, <2>1, <2>3 DEF Reported
  <2>5. QED
    BY <2>2, <2>4 DEF Fresh
<1>7. QED
  BY <1>3, <1>4, <1>5, <1>6

\* Stalls are counted, never forgotten.
LEMMA StallsGrow ==
  ASSUME TypeOK, Next, stalls' = 0
  PROVE  stalls = 0
<1>1. ASSUME NEW w \in Workers, Step(w) PROVE UNCHANGED stalls
  BY <1>1
     DEF Step, Claim, Load, Start, Triage, TriageUpdate, Investigate, InvestigateUpdate, Analyse,
         SaveRun, Park, RootCause, RootCauseUpdate, Propose, Finish, Complete, Fail, MarkRead,
         MarkWrite, Renotify, Backoff, WaitForJob, TransitionRead, TransitionUpdate, Call, Refused,
         NoFault, Fault, envVars
<1>2. ASSUME NEW i \in Incidents, FallDue(i) PROVE stalls = 0
  BY <1>2 DEF FallDue, TypeOK, EnvTypeOK
<1>3. QED
  BY <1>1, <1>2 DEF Next, Intake, Notify, OutsideMove, Crash, Stop, Restart, envVars

LEMMA FreshInductive == Spec => []Fresh
<1>1. Init => Fresh
  BY DEF Init, StoreInit, JobStoreInit, Loop, Fresh, NoRowNoCause, Alone, Reported, CopiesFresh,
         Settled, BusyStages, RunStages, MarkStages
<1>2. ASSUME Inductive, Inductive', Fresh, Next PROVE Fresh'
  <2> SUFFICES ASSUME stalls' = 0 PROVE Fresh'
    BY DEF Fresh
  <2>1. stalls = 0
    BY <1>2, StallsGrow DEF Inductive
  <2>2. ASSUME NEW w \in Workers, Step(w) PROVE Fresh'
    <3>1. wk[w].pc \in BusyStages => Copied(wk[w], inv[wk[w].inc])
      BY <1>2, <2>1 DEF Fresh, CopiesFresh
    <3>2. QED
      BY <1>2, <2>1, <2>2, <3>1, StepTame, TameFresh, ClaimFresh, ReportFresh DEF Inductive
  <2>3. ASSUME NEW w \in Workers, Crash(w) \/ Restart(w) PROVE Fresh'
    <3>1. Return(w, "idle") /\ UNCHANGED <<job, inv, stalls>> /\ RowsKept
      BY <2>3, UnchangedRows DEF Crash, Restart, Return, jobVars
    <3>2. Tame(w)
      BY <1>2, <3>1, ReturnKeeps, ReturnTame DEF Quiet, LoopStages, Inductive, TypeOK
    <3>3. QED
      BY <1>2, <2>1, <3>2, TameFresh
  <2>4. ASSUME NEW w \in Workers, Stop(w) PROVE Fresh'
    BY <1>2, <2>1, <2>4 DEF Stop, storeVars, jobVars, Fresh, NoRowNoCause, Alone, Reported,
                            CopiesFresh, Settled
  <2>5. QED
    BY <1>2, <2>1, <2>2, <2>3, <2>4, SurroundingsFresh DEF Next
<1>3. Fresh /\ UNCHANGED vars => Fresh'
  BY DEF vars, storeVars, jobVars, envVars, Fresh, NoRowNoCause, Alone, Reported, CopiesFresh,
         Settled
<1>4. QED
  BY <1>1, <1>2, <1>3, WorkerInductive, PTL DEF Spec

\* From its claim to its report a worker owns its job's row: the row says
\* processing, with the attempt it was claimed for (ClaimNextJob, processOne).
THEOREM WorkersHoldTheirJobs == Spec => []ClaimHeld
BY WorkerInductive, PTL DEF Inductive

\* The investigation of a completed job is completed or parked, and no worker's
\* older copy changes it back, as long as no markInvestigationFailed outlasted the
\* 30 seconds of the requeue.
THEOREM CompletedStaysSettled == Spec => []CompletedIsSettled
<1>1. Fresh => CompletedIsSettled
  BY DEF Fresh, Settled, CompletedIsSettled, SettledStatus
<1>2. QED
  BY <1>1, FreshInductive, PTL

\* Under the same condition no whole-row write loses a persisted root cause.
THEOREM CausesKept == Spec => RcaNeverErased
<1> DEFINE A == stalls = 0 => \A i \in Incidents : inv[i].rca => inv'[i].rca
<1>1. ASSUME Inductive, Fresh, [Next]_vars PROVE A \/ UNCHANGED vars
  <2> SUFFICES ASSUME stalls = 0, Next, NEW k \in Incidents, inv[k].rca PROVE inv'[k].rca
    BY <1>1
  <2>1. ASSUME NEW w \in Workers, Step(w) PROVE inv'[k].rca
    <3>1. CASE Claim(w) \/ Complete(w) \/ Fail(w)
      BY <3>1 DEF Claim, Complete, Fail, Call, OnJobs, Reads, Refused, ClaimNextJob, CompleteJob,
                  FailJob, jobVars
    <3>2. CASE ~(Claim(w) \/ Complete(w) \/ Fail(w))
      <4>1. Tame(w)
        BY <1>1, <2>1, <3>2, StepTame DEF Inductive, Fresh, CopiesFresh
      <4>2. CASE wk[w].pc \in BusyStages /\ \E row \in InvestigationRow :
                    inv' = [inv EXCEPT ![wk[w].inc] = row] /\ (inv[wk[w].inc].rca => row.rca)
        BY <1>1, <4>2 DEF Inductive, TypeOK, JobStoreTypeOK
      <4>3. QED
        BY <4>1, <4>2 DEF Tame
    <3>3. QED
      BY <3>1, <3>2
  <2>2. ASSUME NEW i \in Incidents, Intake(i) PROVE inv'[k].rca
    <3>1. status[i] = NoStatus
      BY <2>2 DEF Intake, Persist, CreateWithEvent
    <3>2. i # k
      BY <1>1, <3>1 DEF Fresh, NoRowNoCause
    <3>3. QED
      BY <1>1, <2>2, <3>2 DEF Intake, Persist, Inductive, TypeOK, JobStoreTypeOK
  <2>3. QED
    BY <2>1, <2>2 DEF Next, Notify, FallDue, OnJobs, Elapse, OutsideMove, Crash, Stop, Restart, jobVars
<1>2. QED
  BY <1>1, WorkerInductive, FreshInductive, PTL DEF Spec, RcaNeverErased

-----------------------------------------------------------------------------
(* The agent's runs against the triages of an incident.  A worker that has      *)
(* triaged it carries the right to one run until it has stored that run; the    *)
(* claim is exclusive, so no two workers draw on the same triage.               *)

RunsOf(i) == {r \in agentRuns : r.inc = i}
TriagesIn(t) == {k \in DOMAIN t : t[k].to = "TRIAGING"}
Triages(i) == TriagesIn(timeline[i])

TriagedStages == {"investigate", "investigateUpdate", "analyse", "saveRun"}

RunsPaid == \A i \in Incidents : /\ IsFiniteSet(RunsOf(i))
                                 /\ Cardinality(RunsOf(i)) <= Cardinality(Triages(i))

Unspent == \A w \in Workers, i \in Incidents :
              wk[w].pc \in TriagedStages /\ wk[w].inc = i =>
                  Cardinality(RunsOf(i)) < Cardinality(Triages(i))

LEMMA TriagesFinite ==
  ASSUME NEW t \in Seq(IncidentEvent)
  PROVE  IsFiniteSet(TriagesIn(t)) /\ Cardinality(TriagesIn(t)) \in Nat
<1>1. DOMAIN t = 1 .. Len(t) /\ Len(t) \in Nat
  OBVIOUS
<1>2. TriagesIn(t) \subseteq 1 .. Len(t)
  BY <1>1 DEF TriagesIn
<1>3. IsFiniteSet(1 .. Len(t))
  BY <1>1, FS_Interval
<1>4. IsFiniteSet(TriagesIn(t))
  BY <1>2, <1>3, FS_Subset
<1>5. QED
  BY <1>4, FS_CardinalityType

\* An event added to a timeline adds its own triage, or none.
LEMMA AppendTriages ==
  ASSUME NEW t \in Seq(IncidentEvent), NEW e \in IncidentEvent
  PROVE  Cardinality(TriagesIn(Append(t, e)))
           = IF e.to = "TRIAGING" THEN Cardinality(TriagesIn(t)) + 1 ELSE Cardinality(TriagesIn(t))
<1> DEFINE n == Len(t) + 1
           u == Append(t, e)
<1>1. /\ DOMAIN t = 1 .. Len(t) /\ DOMAIN u = 1 .. n /\ Len(t) \in Nat
      /\ \A k \in 1 .. Len(t) : u[k] = t[k]
      /\ u[n] = e
  OBVIOUS
<1>2. n \notin TriagesIn(t)
  BY <1>1 DEF TriagesIn
<1> HIDE DEF u
<1>3. TriagesIn(u) = IF e.to = "TRIAGING" THEN TriagesIn(t) \cup {n} ELSE TriagesIn(t)
  BY <1>1 DEF TriagesIn
<1>4. Cardinality(TriagesIn(t) \cup {n}) = Cardinality(TriagesIn(t)) + 1
  BY <1>2, TriagesFinite, FS_AddElement
<1>5. QED
  BY <1>3, <1>4 DEF u

LEMMA SetStatusTriages ==
  ASSUME StoreTypeOK, NEW i \in Incidents, NEW from \in Status \cup {NoStatus}, NEW to \in Status,
         SetStatus(i, from, to), NEW k \in Incidents
  PROVE  /\ Cardinality(Triages(k)) \in Nat
         /\ Cardinality(Triages(k)') = IF k = i /\ to = "TRIAGING" THEN Cardinality(Triages(k)) + 1
                                                                  ELSE Cardinality(Triages(k))
<1> DEFINE e == [from |-> from, to |-> to]
<1>1. /\ timeline[k] \in Seq(IncidentEvent) /\ e \in IncidentEvent /\ e.to = to
      /\ timeline'[k] = IF k = i THEN Append(timeline[k], e) ELSE timeline[k]
  BY DEF SetStatus, StoreTypeOK, IncidentEvent
<1> HIDE DEF e
<1>2. Cardinality(TriagesIn(timeline[k])) \in Nat
  BY <1>1, TriagesFinite
<1>3. Cardinality(TriagesIn(timeline'[k]))
        = IF k = i /\ to = "TRIAGING" THEN Cardinality(TriagesIn(timeline[k])) + 1
                                      ELSE Cardinality(TriagesIn(timeline[k]))
  BY <1>1, AppendTriages
<1>4. QED
  BY <1>2, <1>3 DEF Triages

LEMMA TriagesGrow ==
  ASSUME StoreTypeOK, StoreStep, NEW i \in Incidents
  PROVE  /\ Cardinality(Triages(i)) \in Nat /\ Cardinality(Triages(i)') \in Nat
         /\ Cardinality(Triages(i)') >= Cardinality(Triages(i))
<1>1. CASE UNCHANGED storeVars
  <2>1. timeline[i] \in Seq(IncidentEvent) /\ timeline' = timeline
    BY <1>1 DEF storeVars, StoreTypeOK
  <2>2. Cardinality(TriagesIn(timeline[i])) \in Nat
    BY <2>1, TriagesFinite
  <2>3. QED
    BY <2>1, <2>2 DEF Triages
<1>2. ASSUME NEW j \in Incidents, NEW from \in Status \cup {NoStatus}, NEW to \in Status,
             SetStatus(j, from, to)
      PROVE  /\ Cardinality(Triages(i)) \in Nat /\ Cardinality(Triages(i)') \in Nat
             /\ Cardinality(Triages(i)') >= Cardinality(Triages(i))
  BY <1>2, SetStatusTriages
<1>3. QED
  BY <1>1, <1>2, StatusFacts DEF StoreStep, CreateWithEvent, Moved, StoreTypeOK

LEMMA OneMore ==
  ASSUME NEW S, IsFiniteSet(S), NEW x
  PROVE  /\ IsFiniteSet(S \cup {x}) /\ Cardinality(S) \in Nat
         /\ Cardinality(S \cup {x}) \in Nat /\ Cardinality(S \cup {x}) <= Cardinality(S) + 1
<1>1. /\ IsFiniteSet(S \cup {x})
      /\ Cardinality(S \cup {x}) = IF x \in S THEN Cardinality(S) ELSE Cardinality(S) + 1
  BY FS_AddElement
<1>2. Cardinality(S) \in Nat
  BY FS_CardinalityType
<1>3. QED
  BY <1>1, <1>2

LEMMA TransitionPc ==
  ASSUME TypeOK, NEW w \in Workers, NEW to, NEW good, NEW bad,
         TransitionRead(w, to, good, bad) \/ TransitionUpdate(w, to, good, bad)
  PROVE  wk'[w].pc \in {good, bad}
<1>1. \E pc \in {good, bad} : \E seen :
         wk' = [wk EXCEPT ![w].pc = pc, ![w].seen = seen] \/ wk' = [wk EXCEPT ![w].pc = pc]
  BY DEF TransitionRead, TransitionUpdate, Call, Goto
<1>2. QED
  BY <1>1 DEF TypeOK, WorkerTypeOK, Local

LEMMA GotoPc ==
  ASSUME TypeOK, NEW w \in Workers, NEW pc
  PROVE  /\ Goto(w, pc) => wk'[w].pc = pc /\ wk'[w].inc = wk[w].inc
         /\ Return(w, pc) => wk'[w].pc = pc
BY DEF TypeOK, WorkerTypeOK, Local, Goto, Return, Loop

\* Steps that neither triage an incident nor store a run.
LEMMA StepUntriaged ==
  ASSUME TypeOK, NEW w \in Workers, Step(w), ~TriageUpdate(w), ~SaveRun(w)
  PROVE  /\ UNCHANGED agentRuns
         /\ wk'[w].pc \in TriagedStages => wk[w].pc \in TriagedStages
<1> USE DEF TriagedStages, At
<1>1. ASSUME Claim(w) PROVE UNCHANGED agentRuns /\ wk'[w].pc \notin TriagedStages
  <2>1. UNCHANGED agentRuns
    BY <1>1 DEF Claim, Call, OnJobs, ClaimNextJob, Reads, Refused, jobVars
  <2>2. \/ \E pc \in LoopStages : Return(w, pc)
        \/ \E j \in Incidents :
              wk' = [wk EXCEPT ![w] = [Loop("load") EXCEPT !.inc = j,
                                                         !.attempt = job[j].attempts + 1]]
    BY <1>1 DEF Claim, Call, LoopStages
  <2>3. ASSUME NEW j \in Incidents,
               wk' = [wk EXCEPT ![w] = [Loop("load") EXCEPT !.inc = j,
                                                          !.attempt = job[j].attempts + 1]]
        PROVE  wk'[w].pc = "load"
    <3> DEFINE l == [Loop("load") EXCEPT !.inc = j, !.attempt = job[j].attempts + 1]
    <3>1. l.pc = "load"
      BY DEF Loop
    <3>2. wk' = [wk EXCEPT ![w] = l]
      BY <2>3
    <3> HIDE DEF l
    <3>3. QED
      BY <3>1, <3>2 DEF TypeOK, WorkerTypeOK
  <2>4. QED
    BY <2>1, <2>2, <2>3, GotoPc DEF LoopStages
<1>2. ASSUME Triage(w) \/ RootCause(w) \/ RootCauseUpdate(w)
      PROVE  UNCHANGED agentRuns /\ wk'[w].pc \notin TriagedStages
  <2>1. UNCHANGED agentRuns
    BY <1>2 DEF Triage, RootCause, RootCauseUpdate, TransitionRead, TransitionUpdate, Call, Reads,
                Refused, jobVars
  <2>2. wk'[w].pc \in {"triageUpdate", "failJob", "rootCauseUpdate", "propose"}
    BY <1>2, TransitionPc DEF Triage, RootCause, RootCauseUpdate
  <2>3. QED
    BY <2>1, <2>2
<1>3. ASSUME Investigate(w) \/ InvestigateUpdate(w) \/ Analyse(w)
      PROVE  UNCHANGED agentRuns /\ wk[w].pc \in TriagedStages
  BY <1>3 DEF Investigate, InvestigateUpdate, Analyse, TransitionRead, TransitionUpdate, Call, Reads,
              Refused, jobVars
<1>4. ASSUME Load(w) \/ MarkRead(w) PROVE UNCHANGED agentRuns /\ wk'[w].pc \notin TriagedStages
  <2>1. UNCHANGED agentRuns
    BY <1>4 DEF Load, MarkRead, Call, Reads, Refused, jobVars
  <2>2. \/ \E pc \in {"start", "markWrite"} :
              wk' = [wk EXCEPT ![w].pc = pc, ![w].rca = inv[wk[w].inc].rca]
        \/ Goto(w, "failJob") \/ Goto(w, "renotify") \/ Return(w, "backoff")
    BY <1>4 DEF Load, MarkRead, Call, Marked
  <2>3. wk'[w].pc \in {"start", "markWrite", "failJob", "renotify", "backoff"}
    BY <2>2, GotoPc DEF TypeOK, WorkerTypeOK, Local
  <2>4. QED
    BY <2>1, <2>3
<1>5. ASSUME Start(w) \/ Park(w) \/ Propose(w) \/ Finish(w) \/ Complete(w) \/ Fail(w)
             \/ MarkWrite(w) \/ Renotify(w) \/ Backoff(w) \/ WaitForJob(w)
      PROVE  UNCHANGED agentRuns /\ wk'[w].pc \notin TriagedStages
  <2>1. UNCHANGED agentRuns
    BY <1>5 DEF Start, Park, Propose, Finish, Complete, Fail, MarkWrite, Renotify, Backoff, WaitForJob,
                Call, OnJobs, UpdateInvestigation, CompleteJob, FailJob, Refused, jobVars
  <2>2. \/ \E pc \in {"triage", "failJob", "complete", "finish", "markRead", "renotify"} : Goto(w, pc)
        \/ \E pc \in LoopStages : Return(w, pc)
    BY <1>5 DEF Start, Park, Propose, Finish, Complete, Fail, MarkWrite, Renotify, Backoff, WaitForJob,
                Call, Marked, LoopStages
  <2>3. QED
    BY <2>1, <2>2, GotoPc DEF LoopStages
<1>6. QED
  BY <1>1, <1>2, <1>3, <1>4, <1>5 DEF Step

\* The sum over runs and the rights still held: kept when timelines only grow, runs
\* stay and no worker gains a right.
LEMMA UntriagedPaid ==
  ASSUME TypeOK, TypeOK', StoreStep, RunsPaid, Unspent, UNCHANGED agentRuns,
         \A v \in Workers : wk'[v].pc \in TriagedStages =>
            wk[v].pc \in TriagedStages /\ wk'[v].inc = wk[v].inc
  PROVE  RunsPaid' /\ Unspent'
<1>1. \A i \in Incidents : /\ Cardinality(Triages(i)) \in Nat /\ Cardinality(Triages(i)') \in Nat
                           /\ Cardinality(Triages(i)') >= Cardinality(Triages(i))
  BY TriagesGrow DEF TypeOK
<1>2. \A i \in Incidents : /\ IsFiniteSet(RunsOf(i)) /\ Cardinality(RunsOf(i)) \in Nat
                           /\ RunsOf(i)' = RunsOf(i)
  BY FS_CardinalityType DEF RunsPaid, RunsOf
<1>3. RunsPaid'
  BY <1>1, <1>2 DEF RunsPaid
<1>4. Unspent'
  BY <1>1, <1>2 DEF Unspent
<1>5. QED
  BY <1>3, <1>4

\* The transition to TRIAGING that took effect is the worker's right to one run.
LEMMA TriagePays ==
  ASSUME Inductive, RunsPaid, Unspent, NEW w \in Workers, TriageUpdate(w)
  PROVE  RunsPaid' /\ Unspent'
<1>a. TypeOK /\ Holds(w) /\ wk[w].inc \in Incidents
  BY DEF Inductive, TypeOK, WorkerTypeOK, TriageUpdate, At, Holds, RunStages, LoopStages
<1> PICK i \in Incidents : i = wk[w].inc
  BY <1>a
<1>1. UNCHANGED agentRuns /\ \A v \in Workers : v # w => wk'[v] = wk[v]
  BY <1>a DEF TriageUpdate, TransitionUpdate, Call, Refused, jobVars, TypeOK, WorkerTypeOK
<1>2. \A k \in Incidents : /\ IsFiniteSet(RunsOf(k)) /\ Cardinality(RunsOf(k)) \in Nat
                           /\ RunsOf(k)' = RunsOf(k)
  BY <1>1, FS_CardinalityType DEF RunsPaid, RunsOf
<1>3. \A v \in Workers : v # w /\ wk[v].pc \in TriagedStages => wk[v].inc # i
  BY <1>a DEF Inductive, ExclusiveClaim, Holds, TriagedStages, RunStages
<1>4. CASE SetStatus(i, wk[w].seen, "TRIAGING")
  <2>1. wk[w].seen \in Status \cup {NoStatus} /\ StoreTypeOK
    BY <1>a DEF TypeOK, WorkerTypeOK, Local
  <2>2. \A k \in Incidents :
           /\ Cardinality(Triages(k)) \in Nat
           /\ Cardinality(Triages(k)') = IF k = i THEN Cardinality(Triages(k)) + 1
                                                  ELSE Cardinality(Triages(k))
    BY <1>4, <2>1, SetStatusTriages, StatusFacts
  <2>3. RunsPaid'
    <3> SUFFICES ASSUME NEW k \in Incidents
                 PROVE  /\ IsFiniteSet(RunsOf(k)')
                        /\ Cardinality(RunsOf(k)') <= Cardinality(Triages(k)')
      BY DEF RunsPaid
    <3>1. /\ Cardinality(RunsOf(k)) <= Cardinality(Triages(k)) /\ Cardinality(RunsOf(k)) \in Nat
          /\ IsFiniteSet(RunsOf(k)) /\ RunsOf(k)' = RunsOf(k)
      BY <1>2 DEF RunsPaid
    <3>2. Cardinality(Triages(k)) \in Nat /\ Cardinality(Triages(k)') >= Cardinality(Triages(k))
      BY <2>2
    <3>3. Cardinality(Triages(k)') \in Nat
      BY <2>2
    <3>4. QED
      BY <3>1, <3>2, <3>3
  <2>4. wk'[w].inc = i
    BY <1>a DEF TriageUpdate, TransitionUpdate, Call, TypeOK, WorkerTypeOK, Local
  <2>5. Unspent'
    BY <1>1, <1>2, <1>3, <2>2, <2>4 DEF Unspent, RunsPaid
  <2>6. QED
    BY <2>3, <2>5
<1>5. CASE UNCHANGED storeVars /\ (Goto(w, "failJob") \/ wk'[w].pc = "failJob")
  <2>1. \A k \in Incidents : Triages(k)' = Triages(k)
    BY <1>5 DEF storeVars, Triages
  <2>2. wk'[w].pc = "failJob"
    BY <1>5, <1>a, GotoPc
  <2>3. QED
    BY <1>1, <1>2, <2>1, <2>2 DEF RunsPaid, Unspent, TriagedStages
<1>6. \/ SetStatus(i, wk[w].seen, "TRIAGING")
      \/ UNCHANGED storeVars /\ wk' = [wk EXCEPT ![w].pc = "failJob", ![w].seen = NoStatus]
  BY DEF TriageUpdate, TransitionUpdate, Call, Refused, TransitionWithEvent
<1>7. wk' = [wk EXCEPT ![w].pc = "failJob", ![w].seen = NoStatus] => wk'[w].pc = "failJob"
  BY <1>a DEF TypeOK, WorkerTypeOK, Local
<1>8. QED
  BY <1>4, <1>5, <1>6, <1>7

\* The run is stored on the right the worker held, and the right is gone.
LEMMA SaveSpends ==
  ASSUME Inductive, RunsPaid, Unspent, NEW w \in Workers, SaveRun(w)
  PROVE  RunsPaid' /\ Unspent'
<1>a. TypeOK /\ Holds(w) /\ wk[w].inc \in Incidents /\ wk[w].pc = "saveRun"
  BY DEF Inductive, TypeOK, WorkerTypeOK, SaveRun, At, Holds, RunStages, LoopStages
<1> PICK i \in Incidents : i = wk[w].inc
  BY <1>a
<1>1. /\ UNCHANGED storeVars /\ \A v \in Workers : v # w => wk'[v] = wk[v]
      /\ wk'[w].pc \in {"park", "rootCause"}
  <2>1. Goto(w, "park") \/ Goto(w, "rootCause")
    BY DEF SaveRun, Call
  <2>2. QED
    BY <1>a, <2>1, GotoPc DEF SaveRun, Call, OnJobs, Refused, Goto, TypeOK, WorkerTypeOK
<1>2. \E r : agentRuns' \in {agentRuns, agentRuns \cup {r}} /\ r.inc = i
  <2> DEFINE r(s) == [inc |-> i, attempt |-> wk[w].attempt, status |-> s]
  <2>1. \E s \in {"completed", "waiting_for_ai"} : agentRuns' \in {agentRuns, agentRuns \cup {r(s)}}
    BY DEF SaveRun, Call, OnJobs, Refused, CreateAgentRun, jobVars
  <2>2. QED
    BY <2>1
<1> PICK r : agentRuns' \in {agentRuns, agentRuns \cup {r}} /\ r.inc = i
  BY <1>2
<1>3. \A k \in Incidents : IsFiniteSet(RunsOf(k)) /\ Cardinality(RunsOf(k)) \in Nat
  BY FS_CardinalityType DEF RunsPaid
<1>4. \A k \in Incidents : /\ Triages(k)' = Triages(k) /\ Cardinality(Triages(k)) \in Nat
                           /\ k # i => RunsOf(k)' = RunsOf(k)
  <2>1. \A k \in Incidents : Cardinality(Triages(k)) \in Nat
    <3>1. StoreTypeOK
      BY <1>a DEF TypeOK
    <3>2. \A k \in Incidents : timeline[k] \in Seq(IncidentEvent)
      BY <3>1 DEF StoreTypeOK
    <3>3. QED
      BY <3>2, TriagesFinite, Zenon DEF Triages
  <2>2. QED
    BY <1>1, <2>1 DEF storeVars, Triages, RunsOf
<1>5. RunsOf(i)' \in {RunsOf(i), RunsOf(i) \cup {r}}
  BY DEF RunsOf
<1>6. /\ IsFiniteSet(RunsOf(i)') /\ Cardinality(RunsOf(i)') \in Nat
      /\ Cardinality(RunsOf(i)') <= Cardinality(RunsOf(i)) + 1
  <2>1. PICK S : S = RunsOf(i)
    OBVIOUS
  <2>2. IsFiniteSet(S) /\ Cardinality(S) \in Nat
    BY <1>3, <2>1
  <2>3. \A T : T \in {S, S \cup {r}} =>
           IsFiniteSet(T) /\ Cardinality(T) \in Nat /\ Cardinality(T) <= Cardinality(S) + 1
    BY <2>2, OneMore
  <2>4. RunsOf(i)' \in {S, S \cup {r}}
    BY <1>5, <2>1
  <2>5. QED
    BY <2>1, <2>3, <2>4
<1>7. Cardinality(RunsOf(i)) < Cardinality(Triages(i))
  BY <1>a DEF Unspent, TriagedStages
<1>8. RunsPaid'
  <2> SUFFICES ASSUME NEW k \in Incidents
               PROVE  /\ IsFiniteSet(RunsOf(k)')
                      /\ Cardinality(RunsOf(k)') <= Cardinality(Triages(k)')
    BY DEF RunsPaid
  <2>1. CASE k = i
    <3>1. Cardinality(RunsOf(i)) \in Nat /\ Cardinality(Triages(i)) \in Nat
      BY <1>3, <1>4
    <3>2. Cardinality(RunsOf(i)') <= Cardinality(Triages(i))
      BY <1>6, <1>7, <3>1
    <3>3. Triages(i)' = Triages(i)
      BY <1>4
    <3>4. IsFiniteSet(RunsOf(i)') /\ Cardinality(RunsOf(i)') <= Cardinality(Triages(i)')
      BY <1>6, <3>2, <3>3
    <3>5. QED
      BY <2>1, <3>4
  <2>2. CASE k # i
    BY <1>4, <2>2 DEF RunsPaid
  <2>3. QED
    BY <2>1, <2>2
<1>9. \A v \in Workers : v # w /\ wk[v].pc \in TriagedStages => wk[v].inc # i
  BY <1>a DEF Inductive, ExclusiveClaim, Holds, TriagedStages, RunStages
<1>10. Unspent'
  <2> SUFFICES ASSUME NEW v \in Workers, NEW k \in Incidents,
                      wk'[v].pc \in TriagedStages, wk'[v].inc = k
               PROVE  Cardinality(RunsOf(k)') < Cardinality(Triages(k)')
    BY DEF Unspent
  <2>1. v # w /\ wk'[v] = wk[v] /\ k # i
    BY <1>1, <1>9 DEF TriagedStages
  <2>2. QED
    BY <1>4, <2>1 DEF Unspent
<1>11. QED
  BY <1>8, <1>10

LEMMA NextPaid ==
  ASSUME Inductive, Inductive', RunsPaid, Unspent, Next
  PROVE  RunsPaid' /\ Unspent'
<1>1. StoreStep /\ TypeOK /\ TypeOK'
  BY NextStoreStep DEF Inductive
<1>2. ASSUME NEW w \in Workers, Step(w), ~TriageUpdate(w), ~SaveRun(w) PROVE RunsPaid' /\ Unspent'
  <2>1. UNCHANGED agentRuns /\ (wk'[w].pc \in TriagedStages => wk[w].pc \in TriagedStages)
    BY <1>1, <1>2, StepUntriaged
  <2>2. \A v \in Workers : v # w => wk'[v] = wk[v]
    <3>1. CASE Claim(w)
      BY <1>1, <3>1 DEF Claim, Call, Return, TypeOK, WorkerTypeOK
    <3>2. CASE Complete(w) \/ Fail(w)
      BY <1>1, <3>2 DEF Complete, Fail, Call, Goto, Return, TypeOK, WorkerTypeOK
    <3>3. QED
      BY <1>1, <1>2, <3>1, <3>2, StepQuiet DEF Quiet, KeepsHold
  <2>3. wk'[w].pc \in TriagedStages => wk'[w].inc = wk[w].inc
    <3>1. SUFFICES ASSUME wk'[w].pc \in TriagedStages PROVE wk'[w].inc = wk[w].inc
      OBVIOUS
    <3>2. ~Claim(w) /\ ~Complete(w) /\ ~Fail(w)
      BY <2>1, <3>1 DEF Claim, Complete, Fail, At, TriagedStages
    <3>3. QED
      BY <1>1, <1>2, <3>1, <3>2, StepQuiet DEF Quiet, KeepsHold, TriagedStages, RunStages
  <2>4. QED
    BY <1>1, <2>1, <2>2, <2>3, UntriagedPaid
<1>3. ASSUME NEW w \in Workers, Crash(w) \/ Stop(w) \/ Restart(w) PROVE RunsPaid' /\ Unspent'
  <2>1. /\ UNCHANGED agentRuns
        /\ wk' = wk \/ Return(w, "idle")
    BY <1>3 DEF Crash, Stop, Restart, Return, jobVars
  <2>2. \A v \in Workers : wk'[v].pc \in TriagedStages => wk'[v] = wk[v]
    BY <1>1, <2>1 DEF Return, Loop, TypeOK, WorkerTypeOK, TriagedStages
  <2>3. QED
    BY <1>1, <2>1, <2>2, UntriagedPaid
<1>4. ASSUME NEW i \in Incidents,
             Intake(i) \/ Notify(i) \/ FallDue(i) \/ \E to \in OutsideTargets : OutsideMove(i, to)
      PROVE  RunsPaid' /\ Unspent'
  <2>1. UNCHANGED <<agentRuns, wk>>
    BY <1>4 DEF Intake, Persist, Notify, FallDue, OnJobs, Elapse, OutsideMove, jobVars
  <2>2. QED
    BY <1>1, <2>1, UntriagedPaid
<1>5. QED
  BY <1>2, <1>3, <1>4, TriagePays, SaveSpends DEF Next

\* However often its job is retried, an incident has at most one stored agent run
\* for each time it was triaged: the retry of an incident past triage fails before
\* it reaches the agent (runInvestigation, Transition).
THEOREM RunsFollowTriages == Spec => []OneRunPerTriage
<1>1. Init => RunsPaid /\ Unspent
  <2> SUFFICES ASSUME Init PROVE RunsPaid /\ Unspent
    OBVIOUS
  <2>1. \A i \in Incidents : RunsOf(i) = {} /\ Triages(i) = {}
    BY DEF Init, StoreInit, JobStoreInit, RunsOf, Triages, TriagesIn
  <2>2. IsFiniteSet({}) /\ Cardinality({}) = 0
    BY FS_EmptySet
  <2>3. \A w \in Workers : wk[w].pc \notin TriagedStages
    BY DEF Init, Loop, TriagedStages
  <2>4. QED
    BY <2>1, <2>2, <2>3 DEF RunsPaid, Unspent
<1>2. ASSUME RunsPaid, Unspent, UNCHANGED vars PROVE RunsPaid' /\ Unspent'
  BY <1>2 DEF vars, storeVars, jobVars, RunsPaid, Unspent, RunsOf, Triages
<1>3. RunsPaid => OneRunPerTriage
  BY DEF RunsPaid, OneRunPerTriage, RunsOf, Triages, TriagesIn
<1>4. QED
  BY <1>1, <1>2, <1>3, NextPaid, WorkerInductive, PTL DEF Spec

=============================================================================
