------------------------ MODULE InvestigationWorker ------------------------
(***************************************************************************)
(* Intake and the worker processes (orchestrator.go, Processor).  One step *)
(* is one round trip to PostgreSQL or Redis, or the agent's run; between   *)
(* two steps of a worker anything else may happen, and after any of them   *)
(* the process may crash or be told to shut down.                          *)
(*                                                                         *)
(*   wk[w]      the locals of worker w, and where it is                    *)
(*   hints      length of the Redis list: its entries only wake a worker   *)
(*   toNotify   API requests that persisted an intake and not yet notified *)
(*   cancelled  workers whose context SIGTERM has cancelled                *)
(*   faults, crashes, stops, stalls   what went wrong so far, each up to   *)
(*              its bound                                                  *)
(***************************************************************************)
EXTENDS InvestigationStore, FiniteSets

CONSTANTS Workers,
          OutsideTargets,   \* statuses the remediation service moves incidents to
          MaxEvents,        \* bound: remediation moves no incident with this many events
          MaxFaults,        \* bound: database calls that fail
          MaxCrashes,       \* bound: worker crashes
          MaxStops,         \* bound: SIGTERMs
          MaxStalls         \* bound: stalls of 30 seconds in markInvestigationFailed

ASSUME WorkerAssumption ==
    /\ OutsideTargets \subseteq
         Status \ {"RECEIVED", "TRIAGING", "INVESTIGATING", "ROOT_CAUSE_IDENTIFIED"}
    /\ MaxEvents \in Nat /\ MaxFaults \in Nat
    /\ MaxCrashes \in Nat /\ MaxStops \in Nat /\ MaxStalls \in Nat

VARIABLES wk, hints, toNotify, cancelled, faults, crashes, stops, stalls

envVars == <<cancelled, faults, crashes, stops, stalls>>
vars == <<storeVars, jobVars, wk, hints, toNotify, envVars>>

NoIncident == 0

\* Stages of runInvestigation, from the claim to the report of its result ...
RunStages == {"load", "start", "triage", "triageUpdate", "investigate",
              "investigateUpdate", "analyse", "saveRun", "park", "rootCause",
              "rootCauseUpdate", "propose", "finish", "complete", "failJob"}
\* ... of markInvestigationFailed and the second notification, and of Run.
MarkStages == {"markRead", "markWrite"}
LoopStages == {"idle", "backoff", "wait", "exited"}

\* rca: the copy of the investigation held by the worker has a root cause.
\* outcome: what agent.Run returned.  seen: the status a Transition call read.
Local == [pc : RunStages \cup MarkStages \cup {"renotify"} \cup LoopStages,
          inc : Incidents \cup {NoIncident}, attempt : Nat, rca : BOOLEAN,
          outcome : {"none", "rca", "waiting", "invalid"}, seen : Status \cup {NoStatus}]

Loop(pc) == [pc |-> pc, inc |-> NoIncident, attempt |-> 0, rca |-> FALSE,
             outcome |-> "none", seen |-> NoStatus]

WorkerTypeOK == /\ wk \in [Workers -> Local]
                /\ \A w \in Workers : wk[w].pc \notin LoopStages => wk[w].inc \in Incidents

EnvTypeOK == /\ hints \in Nat
             /\ toNotify \in SUBSET Incidents
             /\ cancelled \in SUBSET Workers
             /\ faults \in Nat /\ crashes \in Nat /\ stops \in Nat /\ stalls \in Nat

TypeOK == StoreTypeOK /\ JobStoreTypeOK /\ WorkerTypeOK /\ EnvTypeOK

Init == /\ StoreInit /\ JobStoreInit
        /\ wk = [w \in Workers |-> Loop("idle")]
        /\ hints = 0
        /\ toNotify = {} /\ cancelled = {}
        /\ faults = 0 /\ crashes = 0 /\ stops = 0 /\ stalls = 0

-----------------------------------------------------------------------------
(***************************************************************************)
(* A step of a worker.  The call it makes takes effect and returns; or its *)
(* acknowledgement is lost after it took effect; or it fails without       *)
(* effect, as every call on a cancelled context does.                      *)
(***************************************************************************)

At(w, pc) == wk[w].pc = pc
Live(w) == w \notin cancelled
Goto(w, pc) == wk' = [wk EXCEPT ![w].pc = pc]
Return(w, pc) == wk' = [wk EXCEPT ![w] = Loop(pc)]
\* Mutant: one attempt too many.
RetryOneMore(w) == wk[w].attempt <= MaxAttempts

Retry(w) == wk[w].attempt < MaxAttempts

NoFault == UNCHANGED envVars
Fault == /\ faults < MaxFaults
         /\ faults' = faults + 1
         /\ UNCHANGED <<cancelled, crashes, stops, stalls>>
Refused(w) == /\ IF Live(w) THEN Fault ELSE NoFault
              /\ UNCHANGED <<storeVars, jobVars>>

\* effect, ok and failed are actions: on the tables, and on the worker.
Call(w, effect, ok, failed) ==
    /\ \/ Live(w) /\ effect /\ ok /\ NoFault
       \/ Live(w) /\ effect /\ failed /\ Fault
       \/ Refused(w) /\ failed
    /\ UNCHANGED <<hints, toNotify>>

OnJobs(effect) == effect /\ UNCHANGED storeVars
Reads == UNCHANGED <<storeVars, jobVars>>

\* Mutant: the table is not consulted.
TransitionReadUnchecked(w, to, onAllowed, onError) ==
    Call(w, Reads, wk' = [wk EXCEPT ![w].pc = onAllowed, ![w].seen = status[wk[w].inc]],
         Goto(w, onError))

\* One half each of Service.Transition as the worker calls it.
TransitionRead(w, to, onAllowed, onError) ==
    LET current == status[wk[w].inc] IN
    Call(w, Reads,
         IF CanTransition(current, to)
         THEN wk' = [wk EXCEPT ![w].pc = onAllowed, ![w].seen = current]
         ELSE Goto(w, onError),
         Goto(w, onError))

TransitionUpdate(w, to, onOk, onError) ==
    LET i == wk[w].inc
        found == status[i] = wk[w].seen
        done(pc) == wk' = [wk EXCEPT ![w].pc = pc, ![w].seen = NoStatus]
    IN Call(w,
            /\ IF found THEN TransitionWithEvent(i, wk[w].seen, to) ELSE UNCHANGED storeVars
            /\ UNCHANGED jobVars,
            done(IF found THEN onOk ELSE onError),
            done(onError))

-----------------------------------------------------------------------------
(***************************************************************************)
(* processOne                                                              *)
(***************************************************************************)

Claim(w) ==
    /\ At(w, "idle")
    /\ \/ \E i \in Incidents :
             Call(w, OnJobs(ClaimNextJob(i)),
                  wk' = [wk EXCEPT ![w] = [Loop("load") EXCEPT !.inc = i,
                                                               !.attempt = job[i].attempts + 1]],
                  Return(w, "backoff"))
       \/ Claimable = {} /\ Call(w, Reads, Return(w, "wait"), Return(w, "backoff"))

\* runInvestigation: GetByIncidentID ...
Load(w) ==
    /\ At(w, "load")
    /\ Call(w, Reads,
            wk' = [wk EXCEPT ![w].pc = "start", ![w].rca = inv[wk[w].inc].rca],
            Goto(w, "failJob"))

\* ... and the whole record written back as running.
Start(w) ==
    /\ At(w, "start")
    /\ Call(w, OnJobs(UpdateInvestigation(wk[w].inc, "running", wk[w].rca)),
            Goto(w, "triage"), Goto(w, "failJob"))

\* Mutant: a retry resumes an investigation that was under way.
TriageResumes(w) ==
    /\ At(w, "triage")
    /\ IF status[wk[w].inc] = "INVESTIGATING"
       THEN Call(w, Reads, Goto(w, "analyse"), Goto(w, "failJob"))
       ELSE TransitionRead(w, "TRIAGING", "triageUpdate", "failJob")

Triage(w) == At(w, "triage") /\ TransitionRead(w, "TRIAGING", "triageUpdate", "failJob")
TriageUpdate(w) ==
    At(w, "triageUpdate") /\ TransitionUpdate(w, "TRIAGING", "investigate", "failJob")

Investigate(w) ==
    At(w, "investigate") /\ TransitionRead(w, "INVESTIGATING", "investigateUpdate", "failJob")
InvestigateUpdate(w) ==
    At(w, "investigateUpdate") /\ TransitionUpdate(w, "INVESTIGATING", "analyse", "failJob")

\* The read-only tools (their errors are only logged), GetByID and agent.Run:
\* an RCA, a provider that did not answer, or a reply that is not a valid RCA.
Analyse(w) ==
    /\ At(w, "analyse")
    /\ \E outcome \in {"rca", "waiting", "invalid"} :
          Call(w, Reads,
               wk' = [wk EXCEPT ![w].pc = IF outcome = "invalid" THEN "failJob" ELSE "saveRun",
                                ![w].outcome = outcome,
                                ![w].rca = @ \/ outcome = "rca"],
               Goto(w, "failJob"))

\* CreateAgentRun; an error is logged.
SaveRun(w) ==
    LET waiting == wk[w].outcome = "waiting"
        next == IF waiting THEN "park" ELSE "rootCause"
    IN /\ At(w, "saveRun")
       /\ Call(w, OnJobs(CreateAgentRun(wk[w].inc, wk[w].attempt,
                                        IF waiting THEN "waiting_for_ai" ELSE "completed")),
               Goto(w, next), Goto(w, next))

Park(w) ==
    /\ At(w, "park")
    /\ Call(w, OnJobs(UpdateInvestigation(wk[w].inc, "waiting_for_ai", wk[w].rca)),
            Goto(w, "complete"), Goto(w, "failJob"))

\* The transition to ROOT_CAUSE_IDENTIFIED is best effort.
RootCause(w) ==
    At(w, "rootCause") /\ TransitionRead(w, "ROOT_CAUSE_IDENTIFIED", "rootCauseUpdate", "propose")
RootCauseUpdate(w) ==
    /\ At(w, "rootCauseUpdate")
    /\ TransitionUpdate(w, "ROOT_CAUSE_IDENTIFIED", "propose", "propose")

\* ProposeFromRCA runs here, in the worker; what it does to the incident is among
\* the moves of OutsideMove, and its error is logged.
Propose(w) ==
    /\ At(w, "propose")
    /\ Goto(w, "finish")
    /\ UNCHANGED <<storeVars, jobVars, hints, toNotify, envVars>>

\* Mutant: the error of the last write is only logged.
FinishIgnoresError(w) ==
    /\ At(w, "finish")
    /\ Call(w, OnJobs(UpdateInvestigation(wk[w].inc, "completed", wk[w].rca)),
            Goto(w, "complete"), Goto(w, "complete"))

\* Mutant: a fresh copy of the row, without the root cause held in memory.
FinishRereads(w) ==
    /\ At(w, "finish")
    /\ Call(w, OnJobs(UpdateInvestigation(wk[w].inc, "completed", inv[wk[w].inc].rca)),
            Goto(w, "complete"), Goto(w, "failJob"))

Finish(w) ==
    /\ At(w, "finish")
    /\ Call(w, OnJobs(UpdateInvestigation(wk[w].inc, "completed", wk[w].rca)),
            Goto(w, "complete"), Goto(w, "failJob"))

\* Back in processOne.  An error here is returned to Run: the row stays processing.
Complete(w) ==
    LET i == wk[w].inc IN
    /\ At(w, "complete")
    /\ Call(w, OnJobs(CompleteJob(i)),
            Return(w, IF job[i].status = "processing" THEN "wait" ELSE "backoff"),
            Return(w, "backoff"))

Fail(w) ==
    LET i == wk[w].inc IN
    /\ At(w, "failJob")
    /\ Call(w, OnJobs(FailJob(i, Retry(w))),
            IF job[i].status = "processing" THEN Goto(w, "markRead") ELSE Return(w, "backoff"),
            Return(w, "backoff"))

\* After markInvestigationFailed, whatever became of it.
Marked(w) == IF Retry(w) THEN Goto(w, "renotify") ELSE Return(w, "backoff")

\* Mutant: a record with only the id and the new status, instead of a fresh copy.
MarkReadBlank(w) ==
    /\ At(w, "markRead")
    /\ Call(w, Reads, wk' = [wk EXCEPT ![w].pc = "markWrite", ![w].rca = FALSE], Marked(w))

\* markInvestigationFailed: a fresh copy of the row, written back in full.
MarkRead(w) ==
    /\ At(w, "markRead")
    /\ Call(w, Reads,
            wk' = [wk EXCEPT ![w].pc = "markWrite", ![w].rca = inv[wk[w].inc].rca],
            Marked(w))

MarkWrite(w) ==
    /\ At(w, "markWrite")
    /\ Call(w, OnJobs(UpdateInvestigation(wk[w].inc, IF Retry(w) THEN "pending" ELSE "failed",
                                          wk[w].rca)),
            Marked(w), Marked(w))

\* The hint for a requeued job; Redis may lose it.
Renotify(w) ==
    /\ At(w, "renotify")
    /\ hints' \in IF Live(w) THEN {hints, hints + 1} ELSE {hints}
    /\ Return(w, "backoff")
    /\ UNCHANGED <<storeVars, jobVars, toNotify, envVars>>

-----------------------------------------------------------------------------
(***************************************************************************)
(* Run: the loop around processOne                                         *)
(***************************************************************************)

\* After an error: sleep, unless the context is cancelled.
Backoff(w) ==
    /\ At(w, "backoff")
    /\ Return(w, IF Live(w) THEN "idle" ELSE "exited")
    /\ UNCHANGED <<storeVars, jobVars, hints, toNotify, envVars>>

\* After a success: BRPOP returns at the first hint, at an error or after 5 seconds.
WaitForJob(w) ==
    /\ At(w, "wait")
    /\ \/ Live(w) /\ hints > 0 /\ hints' = hints - 1
       \/ UNCHANGED hints
    /\ Return(w, IF Live(w) THEN "idle" ELSE "exited")
    /\ UNCHANGED <<storeVars, jobVars, toNotify, envVars>>

Step(w) ==
    \/ Claim(w) \/ Load(w) \/ Start(w) \/ Triage(w) \/ TriageUpdate(w)
    \/ Investigate(w) \/ InvestigateUpdate(w) \/ Analyse(w) \/ SaveRun(w) \/ Park(w)
    \/ RootCause(w) \/ RootCauseUpdate(w) \/ Propose(w) \/ Finish(w)
    \/ Complete(w) \/ Fail(w) \/ MarkRead(w) \/ MarkWrite(w) \/ Renotify(w)
    \/ Backoff(w) \/ WaitForJob(w)

-----------------------------------------------------------------------------
(***************************************************************************)
(* The surroundings                                                        *)
(***************************************************************************)

\* CreateIncident persists the intake; the handler then notifies, unless its
\* process dies or the commit's acknowledgement is lost.
Intake(i) ==
    /\ Persist(i)
    /\ toNotify' = toNotify \cup {i} \/ UNCHANGED toNotify
    /\ UNCHANGED <<wk, hints, envVars>>

Notify(i) ==
    /\ i \in toNotify
    /\ toNotify' = toNotify \ {i}
    /\ hints' \in {hints, hints + 1}
    /\ UNCHANGED <<storeVars, jobVars, wk, envVars>>

\* A transition made by the remediation service, for the API or for a worker in
\* its propose stage.  That such a call is one step of the lifecycle, whatever it
\* interleaves with, is what IncidentClients establishes.
OutsideMove(i, to) ==
    /\ CanTransition(status[i], to)
    /\ Len(timeline[i]) < MaxEvents
    /\ SetStatus(i, status[i], to)
    /\ UNCHANGED <<jobVars, wk, hints, toNotify, envVars>>

\* The 30 seconds pass.  When the worker that requeued the job still writes its
\* investigation, it has stalled.
Stalled(i) == \E w \in Workers : wk[w].pc \in MarkStages /\ wk[w].inc = i

FallDue(i) ==
    /\ OnJobs(Elapse(i))
    /\ IF Stalled(i) THEN stalls < MaxStalls /\ stalls' = stalls + 1 ELSE UNCHANGED stalls
    /\ UNCHANGED <<wk, hints, toNotify, cancelled, faults, crashes, stops>>

\* The process dies and is started again; what it held in memory is gone.
Crash(w) ==
    /\ crashes < MaxCrashes
    /\ crashes' = crashes + 1
    /\ wk' = [wk EXCEPT ![w] = Loop("idle")]
    /\ cancelled' = cancelled \ {w}
    /\ UNCHANGED <<storeVars, jobVars, hints, toNotify, faults, stops, stalls>>

\* SIGTERM cancels the context every later call is made with.
Stop(w) ==
    /\ stops < MaxStops
    /\ stops' = stops + 1
    /\ cancelled' = cancelled \cup {w}
    /\ UNCHANGED <<storeVars, jobVars, wk, hints, toNotify, faults, crashes, stalls>>

Restart(w) ==
    /\ At(w, "exited")
    /\ Return(w, "idle")
    /\ cancelled' = cancelled \ {w}
    /\ UNCHANGED <<storeVars, jobVars, hints, toNotify, faults, crashes, stops, stalls>>

Next ==
    \/ \E w \in Workers : Step(w) \/ Crash(w) \/ Stop(w) \/ Restart(w)
    \/ \E i \in Incidents : \/ Intake(i) \/ Notify(i) \/ FallDue(i)
                            \/ \E to \in OutsideTargets : OutsideMove(i, to)

Spec == Init /\ [][Next]_vars

\* The worker's loop runs as long as its process does, and the clock advances.
Fairness == /\ \A w \in Workers : WF_vars(Step(w))
            /\ \A i \in Incidents : WF_vars(FallDue(i))

FairSpec == Spec /\ Fairness

-----------------------------------------------------------------------------
(***************************************************************************)
(* Properties                                                              *)
(***************************************************************************)

Holds(w) == wk[w].pc \in RunStages

\* A job is worked on by one worker at a time, whatever fails: SKIP LOCKED and the
\* status column make a claim exclusive until the worker reports, crashes or loses
\* an acknowledgement, and nothing hands the job out in between.
ExclusiveClaim == \A v, w \in Workers : v # w /\ Holds(v) /\ Holds(w) => wk[v].inc # wk[w].inc

\* What a worker holds it also owns in the database: from its claim to its report
\* the row says processing, and attempts is still the number it was claimed with.
ClaimHeld ==
    \A w \in Workers : Holds(w) => /\ job[wk[w].inc].status = "processing"
                                   /\ job[wk[w].inc].attempts = wk[w].attempt

\* attempts counts the claims and never passes max_attempts; a pending job always
\* has an attempt left and a dead letter none (retry := Attempts < MaxAttempts).
AttemptsExact ==
    \A i \in Incidents :
        /\ job[i].attempts <= MaxAttempts
        /\ job[i].status = "pending" => job[i].attempts < MaxAttempts
        /\ job[i].status = "dead_letter" => job[i].attempts = MaxAttempts

\* Intake is one transaction: no job row without its incident.
JobHasIncident == \A i \in Incidents : status[i] = NoStatus => job[i].status = "none"

\* Between the halves of a Transition the worker keeps a status it may leave.
SeenAllowed ==
    \A w \in Workers :
        /\ At(w, "triageUpdate") => CanTransition(wk[w].seen, "TRIAGING")
        /\ At(w, "investigateUpdate") => CanTransition(wk[w].seen, "INVESTIGATING")
        /\ At(w, "rootCauseUpdate") => CanTransition(wk[w].seen, "ROOT_CAUSE_IDENTIFIED")

\* The inductive invariant: exclusive claims need ClaimHeld (a held job is not
\* pending, so no one claims it) and JobHasIncident (intake never resets a job).
Inductive == /\ TypeOK /\ ClaimHeld /\ ExclusiveClaim /\ AttemptsExact
             /\ JobHasIncident /\ SeenAllowed

\* The agent (and the model behind it) is run at most once per triage of an
\* incident, however often its job is retried: a retry that finds the incident
\* already past triage fails before it reaches the agent.
OneRunPerTriage ==
    \A i \in Incidents :
        Cardinality({r \in agentRuns : r.inc = i})
            <= Cardinality({k \in DOMAIN timeline[i] : timeline[i][k].to = "TRIAGING"})

\* The investigation's statuses TRIAGING, INVESTIGATING and ROOT_CAUSE_IDENTIFIED
\* are entered only while the incident's job is processing: no requeued, finished
\* or buried job's worker still drives the incident.
AdvancedOnlyWhileProcessing ==
    [][\A i \in Incidents :
          status'[i] # status[i] /\ status'[i] \in {"TRIAGING", "INVESTIGATING", "ROOT_CAUSE_IDENTIFIED"}
          => job[i].status = "processing"]_vars

\* An incident waits or ends with its job: once a job is completed its
\* investigation is completed or parked, and no later write changes that back.
\* A second worker can undo it only from a stalled markInvestigationFailed.
CompletedIsSettled ==
    stalls = 0 => \A i \in Incidents :
        job[i].status = "completed" => inv[i].status \in {"completed", "waiting_for_ai"}

\* UpdateInvestigation writes the whole row, yet a persisted root cause is never
\* erased by a retry's or a failure report's older copy, unless one stalled.
RcaNeverErased == [][stalls = 0 => \A i \in Incidents : inv[i].rca => inv'[i].rca]_vars

\* The status machine seen by readers, with workers, crashes and lost
\* acknowledgements, is the abstract lifecycle.
ImplementsLifecycle == Lifecycle!Spec

\* "Job is durable in PostgreSQL; workers poll as a fallback": with every hint lost,
\* and as long as no database call fails and no worker stops, each job is carried to
\* its end, through its retries if need be, whatever job is put before it; and the
\* investigation of a job given up on is reported failed.
EveryJobEnds ==
    \A i \in Incidents :
        job[i].status = "pending" ~> \/ job[i].status = "completed"
                                     \/ job[i].status = "dead_letter" /\ inv[i].status = "failed"

-----------------------------------------------------------------------------
(***************************************************************************)
(* A claim of the documentation that the code does not keep                *)
(***************************************************************************)

\* README: "Worker graceful shutdown | Waits for in-flight jobs before exit".
ShutdownDrains ==
    (\A w \in Workers : At(w, "exited")) => \A i \in Incidents : job[i].status # "processing"

=============================================================================
