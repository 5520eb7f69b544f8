------------------------- MODULE InvestigationStore -------------------------
(***************************************************************************)
(* The investigations, investigation_jobs and agent_runs tables and the    *)
(* statements of the repositories that change them.  incident_id is UNIQUE *)
(* in investigations and intake is the only writer of new rows, so an      *)
(* incident has one investigation and one job, and its id names all three. *)
(*                                                                         *)
(*   job[i]      status, attempts and whether scheduled_at has passed      *)
(*   inv[i]      status and whether root_cause is set                      *)
(*   agentRuns   the rows of agent_runs: incident, attempt, status         *)
(*                                                                         *)
(* Incidents are numbered in the order of their jobs' created_at.          *)
(***************************************************************************)
EXTENDS IncidentStore

CONSTANT MaxAttempts   \* max_attempts of every job (defaultMaxAttempts)

ASSUME IncidentsAssumption == Incidents \subseteq Nat \ {0}
ASSUME MaxAttemptsAssumption == MaxAttempts \in Nat \ {0}

VARIABLES job, inv, agentRuns

jobVars == <<job, inv, agentRuns>>

JobRow == [status : {"none", "pending", "processing", "completed", "dead_letter"},
           attempts : Nat, due : BOOLEAN]

InvestigationRow ==
    [status : {"none", "pending", "running", "completed", "failed", "waiting_for_ai"},
     rca : BOOLEAN]

AgentRun == [inc : Incidents, attempt : Nat, status : {"completed", "waiting_for_ai"}]

JobStoreTypeOK == /\ job \in [Incidents -> JobRow]
                  /\ inv \in [Incidents -> InvestigationRow]
                  /\ agentRuns \in SUBSET AgentRun

JobStoreInit ==
    /\ job = [i \in Incidents |-> [status |-> "none", attempts |-> 0, due |-> FALSE]]
    /\ inv = [i \in Incidents |-> [status |-> "none", rca |-> FALSE]]
    /\ agentRuns = {}

\* IntakeRepository.Persist: incident, creation event, investigation and job in
\* one transaction.
Persist(i) ==
    /\ CreateWithEvent(i)
    /\ inv' = [inv EXCEPT ![i] = [status |-> "pending", rca |-> FALSE]]
    /\ job' = [job EXCEPT ![i] = [status |-> "pending", attempts |-> 0, due |-> TRUE]]
    /\ UNCHANGED agentRuns

\* Mutant: the claim does not look at the status.
ClaimableAnyStatus == {i \in Incidents : job[i].status \in {"pending", "processing"} /\ job[i].due}

Claimable == {i \in Incidents : job[i].status = "pending" /\ job[i].due}

\* Mutants: a claim that does not count, and one that leaves the row pending.
ClaimNextJobUncounted(i) ==
    /\ i \in Claimable
    /\ \A j \in Claimable : i <= j
    /\ job' = [job EXCEPT ![i].status = "processing"]
    /\ UNCHANGED <<inv, agentRuns>>

ClaimNextJobUnmarked(i) ==
    /\ i \in Claimable
    /\ \A j \in Claimable : i <= j
    /\ job' = [job EXCEPT ![i].attempts = @ + 1]
    /\ UNCHANGED <<inv, agentRuns>>

\* UPDATE ... WHERE id = (the oldest claimable row, FOR UPDATE SKIP LOCKED).
ClaimNextJob(i) ==
    /\ i \in Claimable
    /\ \A j \in Claimable : i <= j
    /\ job' = [job EXCEPT ![i].status = "processing", ![i].attempts = @ + 1]
    /\ UNCHANGED <<inv, agentRuns>>

\* Both statements below update the row only WHERE status = 'processing'; with
\* no such row they change nothing and report ErrNotFound.
CompleteJob(i) ==
    /\ job' = IF job[i].status = "processing"
              THEN [job EXCEPT ![i].status = "completed"] ELSE job
    /\ UNCHANGED <<inv, agentRuns>>

\* Mutant: the requeued row stays processing.
FailJobNotRequeued(i, retry) ==
    /\ job' = IF job[i].status = "processing"
              THEN IF retry THEN [job EXCEPT ![i].due = FALSE]
                            ELSE [job EXCEPT ![i].status = "dead_letter"]
              ELSE job
    /\ UNCHANGED <<inv, agentRuns>>

FailJob(i, retry) ==
    /\ job' = IF job[i].status = "processing"
              THEN IF retry THEN [job EXCEPT ![i].status = "pending", ![i].due = FALSE]
                            ELSE [job EXCEPT ![i].status = "dead_letter"]
              ELSE job
    /\ UNCHANGED <<inv, agentRuns>>

\* Writes every column from the caller's copy, unconditionally.
UpdateInvestigation(i, newStatus, rca) ==
    /\ inv' = [inv EXCEPT ![i] = [status |-> newStatus, rca |-> rca]]
    /\ UNCHANGED <<job, agentRuns>>

CreateAgentRun(i, attempt, runStatus) ==
    /\ agentRuns' = agentRuns \cup {[inc |-> i, attempt |-> attempt, status |-> runStatus]}
    /\ UNCHANGED <<job, inv>>

\* NOW() reaches the scheduled_at of a requeued job, 30 seconds after FailJob.
Elapse(i) ==
    /\ job[i].status = "pending" /\ ~job[i].due
    /\ job' = [job EXCEPT ![i].due = TRUE]
    /\ UNCHANGED <<inv, agentRuns>>

=============================================================================
