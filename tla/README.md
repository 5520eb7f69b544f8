# OpsPilot: a TLA+ development

This directory specifies and verifies OpsPilot, the incident investigator of this
repository: an alert becomes an incident and an investigation job, a worker gathers
evidence and asks a language model for a root cause, a remediation is proposed, a
human approves or rejects it, and approved actions are executed. PostgreSQL holds all
state; Redis only carries wake-up hints. The specifications are read from the Go code
under `internal/` and `cmd/`; `PROJECT.json` maps each definition to its lines.

## 1. Inventory

| component | code | state it keeps | operations | what makes it correct |
|---|---|---|---|---|
| incident status machine | `domain/incident/status.go` | none | `CanTransition`, `ValidateStatus` | incidents move only along the table |
| incident service | `application/incident/service.go`, `postgres/incident_repository.go` | `incidents.status`, `incident_events` | `Create`, `Transition` (read, check, conditional update), `GetTimeline` | one event per move; events form one legal chain; one winner per version |
| intake | `application/investigation/orchestrator.go`, `postgres/intake_repository.go` | incident + event + investigation + job, one transaction | `CreateIncident`, `Notify` | no job without its incident; a lost hint loses no job |
| worker | `application/investigation/service.go`, `postgres/investigation_repository.go`, `cmd/worker` | `investigation_jobs`, `investigations`, `agent_runs`, the locals of the job in flight | `ClaimNextJob`, `runInvestigation`, `CompleteJob`, `FailJob`, `markInvestigationFailed`, `Run`, `Wait` | exclusive claims, exact attempts, every job ends, nothing finished is undone |
| hint queue | `redis/queue.go` | a Redis list | `LPUSH`, `BRPOP` with a timeout | wakes workers, is never relied on |
| remediation | `application/remediation/service.go`, `postgres/remediation_repository.go` | `remediation_proposals`, `approvals` | `Propose`, `ProposeFromRCA`, `Approve`, `Reject`, `executeActions` | gated tools run only on a recorded approval; the end of an incident is explained by a decision |
| tool executor | `agent/tools/executor.go`, `permission.go`, `postgres/tool_repository.go` | `tool_executions` | `Execute`, `ExecuteBatch` | permission before effect; each run audited |
| agent | `agent/agents/investigation.go`, `agent/memory` | messages and run of one call | `Run` (at most `maxAgentRounds` rounds) | bounded; never calls a tool that needs approval |
| knowledge base | `application/rag`, `postgres/rag_repository.go`, `cmd/ingest` | `documents`, `document_chunks` | `Ingest` with its compensating delete, `SeedFromDirectory`, `DeleteDocument`, `Search` | searchable as a whole or not at all; seeded once; what was confirmed is found |
| chunking | `agent/rag/chunk.go` | none | `ChunkText` | ends, loses no text, pieces fit |
| front door: limiter, authentication, intake handlers | `transport/http/security.go`, `router.go`, `incident_handler.go`, `integrations_handler.go`, `integrations/grafana` | per-process rate windows | `Allow`, the middlewares, `Create`, `GrafanaWebhook` | limits hold per address; an answer tells the truth about the database; no alert is lost for being bare |
| other handlers | `transport/http` | none | decode, one service call, encode | thin over the services |
| LLM providers, other integrations, mocks, config, telemetry, dashboard | `agent/llm`, `integrations`, `config`, `pkg`, `web` | none that matters here | I/O and formatting | not modelled (section 8) |

**How they interact.** The API process and any number of workers share nothing but
the database and the Redis list. The worker and the remediation service move incidents
only through `incident.Service.Transition`; the worker calls the remediation service
itself (`ProposeFromRCA`), and the remediation service calls the tool service. The API
process, the worker and `cmd/ingest` all may seed the knowledge base when they start; the tools
of the agent search it. Each call is a chain of separate database round trips; only intake,
`CreateWithEvent`, `TransitionWithEvent` and `ReplaceChunks` are transactions of several statements.

**What is hard.** Reads used after another process wrote (`Transition`, `Approve`,
`markInvestigationFailed`, the final write of an investigation, the count before a seeding, the
clock of the limiter); a call that took effect and reported an error; a crash or a SIGTERM between
two steps; the retry of a job whose incident has already moved on; lost hints; decisions
that race with the proposal they decide; a compensating delete on the context that was just
cancelled; the offsets of overlapping windows. The list with lines and the properties that cover it
is `hazards` in `PROJECT.json`.

## 2. The modules

```
IncidentStatus            the status machine (no state)
  IncidentLifecycle       abstract: what readers of an incident may see
  IncidentStore           incidents + incident_events and their statements
    IncidentClients       concurrent callers of Service.Transition
      MCIncidentClients, IncidentClientsProofs
    InvestigationStore    investigations, jobs, agent_runs and their statements
      InvestigationWorker intake, workers, hints, crashes, shutdown
        MCInvestigationWorker, InvestigationWorkerProofs
    Remediation           Propose, Approve, Reject, executing actions
      MCRemediation, RemediationProofs
    OpsPilot              InvestigationWorker and Remediation on one database
      MCOpsPilot, OpsPilotProofs
ToolAudit                 abstract: what tool_executions promises whoever audits it
ToolExecutor              Executor.Execute, one round trip or tool per step
  InvestigationAgent      the batch and the agent's loop, with operators beside it
    MCInvestigationAgent, InvestigationAgentProofs
KnowledgeIndex            abstract: what a reader of the knowledge base may see
  KnowledgeBase           seeding, ingest, deletion and search
    MCKnowledgeBase, KnowledgeBaseProofs
Chunker                   ChunkText, one turn of its loop per step
  MCChunker, ChunkerProofs
FrontDoor                 key, rate limit, signature, decoding and intake of a request
  MCFrontDoor, FrontDoorProofs
```

`IncidentStore` and `InvestigationStore` hold only tables and the SQL statements on
them, one operator per repository method. The three component modules share those
tables by `EXTENDS` and add the processes. Each of the three instantiates
`IncidentLifecycle` with the tables as they are and is checked to implement it.

**Composition.** Taken alone, `InvestigationWorker` sees the remediation service as moves the
lifecycle allows (`OutsideMove`), and `Remediation` sees intake and the worker in the same way
(`Create`, `Investigated`). `IncidentClients` is the argument why that is fair: any call of
`Transition`, however it interleaves, is one such move or none. `OpsPilot` goes further and puts the
two together: it instantiates both over the same `status` and `timeline`, without their outside
moves, and conjoins each step with what the other component keeps. A worker in its propose stage is a
caller of the remediation service with a slot in `req` of its own, so `ProposeFromRCA` is the same chain of
round trips that an operator's call makes, and the two interleave as they do in the code.

`ToolExecutor` has the steps of `Execute` and no process: who calls it, and what the caller does
with the answer, is a parameter of its actions (`onRun`, `onOk`, `onError`). `InvestigationAgent`
adds the callers. It shares no table with the modules above but takes apart one step of
`InvestigationWorker`: `Analyse` is a whole attempt of an investigator here, with `outcome` `rca`,
`waiting` or `invalid`; an attempt that ends in `error` or `crashed` is a failure of the run or a
crash there. In the same way `Remediation` sees one call of `Execute` as the step `ExecuteAction`;
here its `executeActions`, and the endpoint that runs a tool, are the operators. `FrontDoor` ends where
the others begin: its `CreateIncident` is the intake of `InvestigationWorker`. `KnowledgeBase` sees a whole
run of `Chunker` as part of `Embed`, and a search as a tool that reads.

**Correspondence.** A row is a record, a table a function from ids to rows. Because
`investigations.incident_id` is unique and only intake inserts, an incident's id also
names its investigation and its job. A process is a record of its locals with a `pc`
naming the next round trip. Every round trip of the worker, of the remediation
service and of `Ingest` has three outcomes (`Call`): it takes effect and returns; it takes effect and the
acknowledgement is lost; it fails without effect. On a cancelled context only the last is
possible. `Transition` is two steps, the read with the table check and the
conditional update, with everything else free to happen between them.

**Abstractions.** Times are reduced to what decides something: whether `scheduled_at` has
passed (`due`), for `created_at` the number of events already committed when the clock
was read, and in `FrontDoor` a clock that counts. Titles, messages, errors, tokens and confidence are left out.
A root cause is present or not. In the worker, the agent with its tools is one step with the outcomes `rca`,
`waiting` (the provider did not answer) and `invalid`. A proposal's actions are the list of the
tools it names; advisory actions have no effect and are dropped, and so are the Slack messages that
`Propose` and `Reject` send, whose errors are ignored. A reply of the model is a list
of tool calls, each with a name and valid or malformed arguments, and content that parses as a root
cause or does not. A row of `tool_executions` has its tool, its caller and its status;
its place in the table stands for its UUID. `told` records, beside the program, what the caller of
a run was told, so that the row can be compared with it. `ExecuteBatch` runs its tools one after
the other, in spite of its comment, and so does the model. The agent always has a tool service:
`cmd/worker` wires one.

A document is its place in the sequence of all that were ever inserted (`created`), its file or 0 for an upload, and its source. How many chunks a text
has, and what each scores for the query of a search, is a constant (`Score`), because embeddings are floating point. `SearchSimilar` sorts and cuts chunks, and so does `Nearest`;
the index it may use is approximate, so `Rows` leaves out any set of chunks (`missed`) that its scan does not reach. A seed file is what
`SeedFromDirectory` and `parseSeedFile` look at: extension, prefix, whether there is a title and a text. `acked` and
`surplus` record beside the program which ingests were confirmed and how many seedings overlapped.
In `Chunker` a text is a sequence of bytes of six kinds: white space (newline or other), a stop (`.`, `!`, `?`),
another byte, and the two bytes of a wide character; a piece is the pair of its offsets. In `FrontDoor` a text of a request
is empty, blank, a known severity, one with spaces around it, one too long for its field, or another word; one value stands for too long
in any field. The limiter knows a sender by its `Address` only: the first element of `X-Forwarded-For` if the request has that header, else `RemoteAddr`,
address and port of the connection. A request brings both (`conn`, `forwarded`), so that one client may have several addresses and several clients one; who is behind an address
is no part of the model, because it is none of the code. In `OpsPilot`, `hasty` records beside the program the incidents a proposal of which was decided before the call of Propose that made it had returned.

## 3. The runs

| run | question | bounds | result |
|---|---|---|---|
| `clients` | do concurrent `Transition` calls keep one legal chain per incident? | 3 callers, 1 incident, every requested target, up to 4 events | passes |
| `worker_safety` | are claims exclusive, attempts exact, agent runs not repeated, finished work never undone? | 2 workers, 1 job, 3 attempts, 1 fault, 1 crash, 1 SIGTERM, 1 stall of 30 s | passes |
| `worker_liveness` | does polling alone carry every job to its end, and are the buried ones reported? | 1 worker, 2 jobs, 3 attempts, any hint lost | passes |
| `worker_shutdown` | "Waits for in-flight jobs before exit" | 1 worker, 1 SIGTERM | violated |
| `remediation_safety` | do gated tools and final statuses always rest on recorded decisions? | 2 concurrent calls, 2 proposals, 1 fault | passes |
| `remediation_race` | "remediation proposal already decided": is a proposal decided once? | 2 calls, 1 proposal, no faults | violated |
| `agent` | is every tool run permitted, audited, answered and counted, and does every attempt end? | 1 investigator, 1 operator, a registry with a tool of each level, 2 rounds, 1 fault | passes |
| `opspilot` | worker and operators together: is an announced root cause stored, a waiting incident listed unless its proposal was decided early, an identified one brought to a human, the lifecycle implemented? | 1 incident, 1 worker, 1 operator, 3 attempts, 2 proposals, 1 crash, 1 SIGTERM | passes |
| `knowledge` | are half-made documents and copies accounted for, and is what was confirmed found? | server, worker and a forced ingest start once and seed 4 files (the worker that starts after a crashed server is also its restart), 1 client, 1 upload, 1 deletion, 1 mishap, 1 outage, 4 documents | passes |
| `chunking` | does `ChunkText` end, lose nothing, and make pieces that fit? | all texts to 8 bytes over 4 kinds, to 6 narrow or wide characters; sizes 0, 3, 6, overlaps -1, 0, 2, 5 | passes |
| `chunk_characters` | "approximate characters per chunk": are pieces made of characters? | the same | violated |
| `front_door` | do limits hold per address, and do answers agree with the database? | 2 requests at a time, 4 arrivals, 6 different requests, 2 connections, 3 addresses (one empty, one shared through the header), limits 1 and 2, clock to 2, 1 fault | passes |

**Why the bounds are enough.** *Callers and workers.* The conflicts here are pairwise:
one process reads, another writes, the first writes. Two workers contain each of them; the
callers get a third, so that a loser of one race can win the next. *Incidents.* The
statements name one incident each and the processes hold one at a time; only the claim ranges
over jobs, and `worker_liveness` has two of them so that one job can be put before another.
*Events.* `MaxEvents` only stops callers from starting moves. Four let an incident return to a status
(`TRIAGING` to `FAILED` to `TRIAGING`), which is what `NoRevisit` in the properties of
`IncidentClients` is about; the five of `worker_safety` leave room for the worker's
three moves and two or three from outside, between any of its steps. *Faults.* One failed or
unacknowledged call, one crash, one SIGTERM and one stall are each free to strike at any step, together.
*Attempts.* `MaxAttempts = 3` is the value in the code. *Proposals.* Two show a decision racing
with another proposal of the same incident, and in `opspilot` the operator's proposal beside the worker's.

*Tools and replies.* One tool of each permission level and one unknown name reach each branch of the
checks; the replies ask for nothing, one tool or two, so that a call can be followed by
another or by the next round. Two rounds have a round that is not the last. One fault strikes at any step of either
caller; that several add up is what is proved.
`MaxRows` keeps operators from running tools for ever; the agent bounds itself.

*One worker, one operator in `opspilot`.* Two workers never hold one job (`ExclusiveClaim`, proved), and
two operators are checked against each other in `remediation_safety`; the pair that is left is a worker and an operator, who acts at any time, also on the proposal the worker is
still making. Two proposals let each make one; `Spare` keeps an id for the worker. The proofs have any number of each. *Knowledge base.* Four files are one that is seeded, one that is skipped, one more that is seeded, and
one that `Ingest` refuses, so that seeding ends early; four documents let two seedings of two files overlap completely. The upload has two chunks, as many as a search returns,
so that it can push the runbook out of a result.
*Texts.* A window of three or six bytes is cut at each kind of break, before and after its first third, and an eight-byte text has
several windows; overlaps of 2 and 5 are smaller than, close to, and larger than a window. The defaults (5, 1) stand for 800 and 120: the two
are only compared, added to an offset or subtracted from one. *Requests.* A window of one tick and a clock to two have one window after another, and
limits of one and two are passed by four arrivals; one request of another connection names the address of the first.

**Symmetry** is used on callers, workers, calls and slots, whose identity no property mentions, and only
for invariants and action properties; `worker_liveness`, `agent` and `opspilot` use none. **Deadlock** is not checked
in `Remediation`, where the bounded number of proposals makes a state in which all calls have ended and nothing is left to
decide a real end; in `InvestigationAgent`, whose attempts end; in `Chunker`, which ends; and in `KnowledgeBase` and `FrontDoor`,
where starts, uploads, arrivals and the clock are bounded. It is checked in all other runs.

### The properties, and why they could fail

* `TimelineChain`, `ImplementsLifecycle`: what a reader sees is the lifecycle, even though the
  table is consulted on a status that may be stale by the time of the update.
* `OneWinner`: two callers that saw the same version are never both told they succeeded.
* `ListedInCommitOrder`: timestamps are taken before the commit, yet sort into commit order,
  as long as the incident does not return to a status and the hosts' clocks agree.
* `ExclusiveClaim`, `ClaimHeld`: what a worker holds is its own in the database, whatever acknowledgement was lost.
* `AttemptsExact`: the claim counts and the report compares; no interleaving of the two
  gives an attempt too many or buries a job early.
* `OneRunPerTriage`: retries do not pay for the model twice. A retry that finds the incident
  past triage is refused at the transition table before it reaches the agent.
* `AdvancedOnlyWhileProcessing`: no worker without a claim drives an incident.
* `CompletedIsSettled`, `RcaNeverErased`: the investigation row is written unconditionally from copies
  read earlier, yet a completed job and a stored root cause stay. Both hold until a worker stalls for
  the 30 seconds of the requeue inside `markInvestigationFailed` (`stalls`); without that condition TLC shows them violated.
* `EveryJobEnds`: see section 4. A job that ends as a dead letter leaves a failed investigation, although the two
  are separate writes and the requeue of a job and its hint may cross.
* `GatedRunApproved`: gated tools run at most once per recorded approval, though approval, status
  and run are three separate writes.
* `OutcomeJustified`: an incident executed or resolved has an approved proposal whose gated
  actions all ran; a failed one an approved, a cancelled one a rejected proposal.
* `AuditAgrees`: `Execute` writes its row twice around an effect it cannot take back. A run that is over
  may still leave its row `running`, or `completed` although its caller was told it failed; the property counts
  such rows against the things that went wrong: never more than one row for each.
* `ImplementsAudit`: runs are announced before they start and settled at most once, and neither the
  batch nor the model has a gated tool run, though the model may ask for any name.
* `CallsAnswered`: refused, unknown, malformed, failed and lost calls take five different ways
  through the loop, and each must append a tool message.
* `RunsBounded`, `AttemptEnds`: a model that always asks for more is cut off.
* `RcaFollows`: the status announces a root cause before the row holds it. The property bounds the gap: a completed job has its
  root cause stored, and without a crash or SIGTERM a worker is just about to store it.
* `WaitingAccounted`: an incident that waits for approval is in the list of what awaits a decision while no call on it is under way, unless one of its proposals was
  decided before the call of Propose that made it had returned. Proposal and status are separate writes of several callers, any of which may crash; without the
  exception (`hasty`) TLC shows it violated (section 5).
* `IdentifiedReachesHuman`: see section 4.
* `LeftoversAccounted`: however often embedding fails, the compensating delete leaves nothing behind; a document that was never confirmed remains
  only where a call failed, a context was cancelled or a process died, at most one for each.
* `CopiesBounded`, `SeededAtRest`: the check for an empty table races with itself. Each seeding that overlaps another may copy every file once, not
  more; and when nothing failed, a server at rest serves every file, also if it skipped its own seeding because it saw another's half-made one.
* `SearchFinds`: limit, filter by source, default threshold and the comparison with it are applied in an order in which a confirmed document is
  not lost, if the index reaches a chunk of it that scores enough and fewer chunks of others than the limit score as much. The limit counts chunks: those others may all be of one document.
* `ImplementsIndex`: a deleted document, or any part of it, is never found again, although an ingest or a compensating delete of it may still be running.
* `Progress`, `Covered`, `PiecesFit`, `EndsInOrder`: the offsets of `ChunkText` depend on the break that was found, on trimming at both ends and on an overlap
  larger than the piece; the loop still ends, no byte but white space falls between two pieces, no piece is empty or too long, and none ends before its predecessor.
* `RateBounded`, `RefusalJustified`: fixed windows let almost twice the limit through around their border, never twice of those that did not wait for the lock; and a request is
  refused only when the limit of that route has been used up under its own address, though the clock is read before the lock is taken and may be behind the window. Both are about
  addresses and not about clients (section 5).
* `AnswersTrue`: each 202 has an incident of its own; one nobody was told of exists only for a fault. A webhook that is delivered again creates another incident.
* `AlertsUsable`: fallbacks fill whatever an alert leaves empty. A webhook that can be decoded is refused only for a known severity with spaces around it (`mapSeverity` trims what it compares and
  not what it returns) or for a text longer than its field, which nothing shortens.

## 4. Fairness and liveness

`EveryJobEnds` assumes weak fairness of each worker's step: `Run` is
a loop in a process of its own, every call it makes has a timeout or returns, and `WaitForJob` returns
after at most five seconds with or without a hint. And weak fairness of `FallDue`: the clock reaches
`scheduled_at`. Nothing is assumed of intake, of the remediation service or of Redis; each hint
may be lost. The run has no failing calls, no crash and no SIGTERM, and must not: a worker that dies,
or whose `FailJob` or `CompleteJob` fails, leaves its row `processing`, and no code returns such
a row to `pending`. This is a gap of the program, recorded under the hazards.

`AttemptEnds` assumes weak fairness of an attempt's step: the attempt is one goroutine, each request to the
provider has the timeout of its HTTP client, each tool the timeout of the executor, and a database call returns
or fails. A failed call, a cancelled context and a crash may happen and lead on to an end of their own. Nothing is
assumed of the model's replies.

`IdentifiedReachesHuman` assumes weak fairness of each worker's loop, with the call of the remediation service it makes: it is one goroutine, and its calls return or fail. Nothing is
assumed of operators, not even that a call of theirs ends; neither intake nor hints nor the clock are fair. The property allows for a crash or a SIGTERM: a worker that
ends between `ROOT_CAUSE_IDENTIFIED` and its proposal leaves the incident there, and the retry of its job is refused at triage. That is one more face of the gap above.

The knowledge base and the front door have no liveness property: nothing in them waits or retries.

## 5. What the code does not keep

Three statements of the repository's documents and comments are violated by a run; `findings` in
`PROJECT.json` quotes them. SIGTERM abandons the job in flight (`worker_shutdown`); two decisions on one proposal can both go
through (`remediation_race`); a chunk may begin or end in the middle of a character, and is then refused by the database
(`chunk_characters`).

Others need no run to be seen:

* The status announces the root cause, and the remediation is proposed, before the root cause is stored (`docs/GUIDE.md:117` gives the other order); `RcaFollows`
  says what holds instead.
* `docs/GUIDE.md:134` answers "What is waiting on humans?" with the list of open proposals. A proposal is in it as soon as it is inserted, and may be decided before Propose has moved its
  incident. If it is rejected while the incident is `ROOT_CAUSE_IDENTIFIED`, the table refuses the move to `CANCELLED`, which is only logged; Propose then moves the incident on to
  `WAITING_FOR_APPROVAL`, where it stays with nothing to decide. `WaitingAccounted` names this exception and shows that there is no other; a worker's proposal is exposed to it as an operator's is.
* A proposal made after a rejection is stored, but the incident stays `CANCELLED`, although a comment in `remediation/service.go:244` means it to work.
* The model is offered, and may run, the `AUTONOMOUS` Slack tool where README and system prompt say `READ_ONLY`.
* A run of the agent that ends in an invalid reply is returned together with an
  error, and `runInvestigation` returns before it stores it, so it has no row in `agent_runs`.
* Nothing returns a job that is left `processing` to the queue.
* A seeding that failed half way, or stopped at a file that `Ingest` refuses, is never completed: the table is no longer empty. The
  compensating delete is made on the context whose cancellation made it necessary, and its result is ignored; a lost acknowledgement of the insert is not compensated at all.
  `ListDocuments` counts and lists in two statements. Vectors of one embedder stay when `EMBEDDING_PROVIDER` is changed, and `cmd/ingest` does not normalize its value as the server does.
* The limits are not limits of a client. Behind no proxy each new connection has another `RemoteAddr`, port included, and with it a window of its own; `X-Forwarded-For` is taken from the request as it
  is, so a client chooses its address, and clients that name the same one use up each other's limit.
* A search returns chunks: one long document may fill a result and keep a confirmed one with a score as good or lower from being found. The index is approximate (`hnsw`), and the sources are
  filtered after its scan, so a search may also miss chunks that a full scan would have found.
* An alert with a title, label or description longer than its field is answered 400 and creates no incident.
* The map of the limiter only grows; `RATE_LIMIT_PER_MINUTE`, which the documents name, is read by nothing: the limits are 30 and 60.
* Requests that waited for the lock of the limiter may pass in larger numbers than twice the limit, when there are three or more of them; `RateBounded` counts those that did not.

## 6. What is proved

TLAPS proves the following for every number of incidents, callers, workers and attempts and for
every bound on faults, crashes, shutdowns and events. They rest only on the named `ASSUME`s of the modules:
the shape of constants, at least one attempt, and that the remediation service asks for none of the
statuses the worker drives (`OutsideTargets`; true of every `Transition` call in `remediation/service.go`).

* `IncidentClientsProofs`: of the abstract lifecycle, type correctness and that each step extends a legal chain
  (`ChainGrows`), hence `LifecycleTimelineChain`. Of the callers, type correctness (`ClientsTypeOK`), and that a caller between its halves
  holds a status it may leave towards its target (`ClientsUpdateChecked`). With it every step is a lifecycle
  step or a stutter (`ClientsImplementLifecycle`): the conditional update succeeds only when the status
  is still the one the table was asked about. `ClientsTimelineChain` follows from the abstract theorem.
  `OneWinner` needs `RaceSettled`: the event a caller read is in the timeline and shows the status it moves from, who was told that it
  succeeded saw one that is no longer the last, and two that saw the same one made the incident come back to a status.
  `ListedInCommitOrder` needs `InstantsSound` (an event's instant precedes its commit) and again `VersionKnown`: the update succeeds only at
  the status the caller read, which, if no status is revisited, is still that of the last event, older than the instant the caller took.
* `InvestigationWorkerProofs`: the inductive invariant is `Inductive`, the conjunction of
  `TypeOK`, `ClaimHeld`, `ExclusiveClaim`, `AttemptsExact`, `JobHasIncident` and `SeenAllowed`.
  `ExclusiveClaim` is not inductive alone: a second claim is excluded because a held job is not pending
  (`ClaimHeld`), and that a new intake does not reset a held job needs `JobHasIncident`.
  `ClaimHeld` in turn needs `ExclusiveClaim`: a report by another worker must concern another job. `AttemptsExact`
  needs `ClaimHeld`, because the report compares the attempt in memory. `SeenAllowed` is what the
  refinement needs. From it: `WorkerTypeCorrect`, `WorkersExclude`, `WorkersHoldTheirJobs`, `AttemptsCounted`,
  `AdvanceNeedsClaim`, `WorkersImplementLifecycle`. Two more invariants build on it. `Fresh`: as long as no failure report outlasted its
  requeue, at most one worker touches an investigation (`Alone`), since the job of one that still writes its failure report cannot be claimed
  (`Reported`), so its copy has the root cause if the row has (`CopiesFresh`), and it reports a job completed only after the investigation is settled; so `CompletedStaysSettled` and `CausesKept`.
  `RunsPaid` and `Unspent`: an incident has no more runs than triages, and while a worker is between its
  triage and its `SaveRun`, strictly fewer; so `RunsFollowTriages`. Without `Unspent` the bound is not inductive:
  nothing else keeps a worker from saving a run on an earlier worker's triage.
* `RemediationProofs`: `OutcomeJustified` speaks of an incident's status at rest, and is not inductive: the
  decision is recorded, and the tools run, several round trips before the status that they justify is written.
  `CallSound` carries the reason along, stage by stage: a call about to mark a proposal has recorded its decision;
  one that executes has run every gated action before `next` (a count over a prefix, `GatedCount`); one between
  the halves of a `Transition` asks for a status that is already justified. What makes this survive every other call
  is that no statement takes anything back (`Grows`: proposals keep their incident and actions, approvals and runs
  only grow), so what was justified stays so (`JustifiedStays`). Each action then has a lemma of two halves,
  what its statement did (`Statement`) and where its call goes next (`Control`). From it:
  `RemediationTypeOK`, `OutcomesJustified`, `RemediationImplementsLifecycle`, with calls overlapping or not.
  `GatedRunsApproved` counts what calls may still do: `Credit(p)` is the set of pairs of a call and a gated action it has yet to
  run, and runs and credit together stay within gated actions times approvals (`Paid`). Recording an approval gives one
  call the credit for each gated action, and running one takes a pair away.
* `InvestigationAgentProofs`: each action does one of nine things to the audit table and to the calls in
  flight (`Effect`, `NextEffect`), so the executor's invariant is proved over these. `AuditAgrees` is not inductive: a
  call on a cancelled context is certain to lose its row, but has not lost it yet. `AuditInductive` counts `Lost`,
  which includes those rows, so that a cancellation pays for the row at once and the later failing update
  costs nothing; and it says that a call in flight holds a row that is its own and still running (`HoldsOwnRow`), so that
  settling it settles no other. Each effect adds at most one row to `Lost`, and only together with a
  fault (`LostStep`); the rest is counting. `AgentAuditAgrees` and `AgentImplementsAudit` follow.
  `AgentCallsAnswered` rests on `AnswersInOrder`: the unanswered calls are those from `next` on. `AgentRunsBounded` compares the rows of
  an investigator with an `Allowance` that grows with its round and its place in the reply, one row ahead while a
  call is inside `Execute` (`Accounted`). It assumes that there is a longest reply, as `MostCalls` is undefined otherwise. With `AgentTypeOK`, all
  of it holds for any registry, any number of callers and rounds, and any lists of tool calls.
* `KnowledgeBaseProofs`: `Base` says where each process is by its locals (`LocalOK`), and that the document it works on came from
  the file or the request it holds. Each step is one of seven deeds
  (`Deeds`: a process creates a document, stores its chunks, drops it, gives up or only moves on; a client deletes; a crash), and every invariant is proved over these.
  `KnowledgeImplementsIndex` follows from `Base`. `KnowledgeFound` needs `Confirmed`: what was confirmed has its chunks, and no ingest
  still holds it, so that none can drop it. A chunk that is not among the nearest leaves as many others before it as the limit (`NearestFull`); there are finitely many chunks (`StoredFinite`), since
  each text has finitely many and only so many documents were created. `LeftoversAccounted` is not inductive: an
  ingest whose context is cancelled is certain to leave its document, but has not left it yet. `Debt` counts both,
  leftovers and hopeless ingests, against the mishaps. In the same way `Owed` counts for each
  file its copies and the seedings still heading for it: a second seeding that begins pays `surplus` for all of its
  files at once. `Seeded` says for the calm case what a seeding has behind it (`PassedDone`), and that as soon as there is a
  document somebody still seeds or everything is there: this is why a server that finds documents may skip its own seeding.
  The clients in flight are a finite set (`SeedersAssumption`), because leftovers are counted.
* `FrontDoorProofs`: `Base` is the type invariant, with that only requests of a limited route wait for the lock. `FrontDoorRate` rests on `Windows`, what a
  window remembers of those it let in: the counter is the number admitted since the window was opened (`Opener`); whoever did not wait came inside the window; and
  fewer than the limit of those before came in the window's length before it. So a stretch as long as a window meets two windows at most, each let the limit
  in, and one of the two openers lies outside the stretch or the earlier window had not filled: fewer than twice the limit. `FrontDoorRefusals` reads the limit of the refused
  address off the same counter (`RefusedFull`). `FrontDoorAnswers` needs `Told`: the incidents and the answers counted are
  finitely many. `FrontDoorAlerts` is a case analysis of the fallbacks (`FirstUsable`, `BareAlert`) under an invariant of what was rejected.
* `OpsPilotProofs`: `Types` says of each slot what a call in it may look like, of each worker what it holds at its stage. A call of the
  remediation service is `Proposing` or `Deciding`, and each round trip is a `Turn` that leaves it so; a round trip of a worker is a
  `WorkerTurn`. Every step is then one of ten kinds (`Kinds`), over which each invariant is proved. `OpsPilotImplementsLifecycle` follows from `Types`: two
  of the kinds update a status, under the condition the statement checks, and one creates an incident. `OpsPilotWaitingAccounted` needs `ListInv`. A
  call of Propose moves an incident to `WAITING_FOR_APPROVAL` long after its insert, when its proposal is still open or its incident hasty (`ProposingOpen`): a proposal changes by the mark of a decision only,
  and that looks whom it overtakes (`HastyNext`). A decision marks the proposal before it moves the
  incident, so in between an incident waits that is not listed, but its call is about to move it (`Settling`, `Listed`). `OpsPilotRcaFollows` needs two more.
  `HeldInv`: no two workers are busy with one incident, since the job of one is processing, or not yet due while its failure is reported (`RunHeld`, `MarkRest`, `Alone`), so
  that a copy in memory is not behind the row and its write takes no root cause back (`CopyFresh`). `RcaInv`: `Announcing` adds to `RcaFollows` what keeps a completion
  away: while the root cause is announced and not stored the job is processing, and a worker that holds it either is about to store it, or was cut off and cannot report its
  failure either. TLC checked each of these, with two workers and two attempts, before it was proved.
* `ChunkerProofs`: `Place` by rank makes what `Collapsed` returns accessible without induction (`PlaceIn`: each kept byte has one place), so `Base`, which adds to `TypeOK` that the text
  being split does not end in white space, is inductive. A turn of the loop is described once (`Turn`, `Appended`): what it appends lies in its window and holds all that is not
  white space there. `ChunkerCovers` and `ChunkerPiecesFit` follow. `EndsInOrder` is not inductive: the overlap moves the next window back, and its break might lie
  before the end of the last piece. `Ahead` excludes it, because a window that begins later is not cut earlier (`CutsInOrder`: a break that a later window may use and that lies
  in an earlier one could be used by that one too, unless that one found a later). TLC checked `Ahead` on texts of seven bytes before it was proved.

The proof modules cite the assumptions on constants by name. `OpsPilotAssumption` gives `OpsPilot` the shape of its tables: ids are numbers and
there is one at least, the tools that `actionsFromRCA` names and the gated ones are among the tools, and operators ask for lists of tools. `ScoreAssumption` (each text has a score) is needed by the
proof of `KnowledgeFound`, which needs chunks to be finitely many.

## 7. What is only model-checked

Liveness (outside the prover's reach, like `ENABLED`): the properties of section 4, `IdentifiedReachesHuman` of `OpsPilot` among them. The type invariants of the worker, the
store, remediation and agent modules are proved only, and not checked by a run.

## 8. What is not modelled

The LLM providers, the clients of GitHub, Loki, Prometheus and Slack, the Grafana health check, mock tools and canned data are I/O and formatting:
they keep nothing between two calls, and what can become of a call (it answers, fails, is cancelled, or takes effect without an answer) is what the agent, the executor and
`Embed` allow for. Reads (`List`, `Get...`, timeline, evidence) change nothing. CORS, security headers, health checks, the recovery and logging middleware,
configuration, logging, tracing and the dashboard do not change the state above. `Enqueue` and
`CreateWithJob` have no caller in the program. Floating point (embeddings, distance, scores) is out of TLC's reach: similarity is a constant. PostgreSQL is trusted to run a
transaction, a conditional update, a cascading foreign key and `FOR UPDATE SKIP LOCKED` atomically, and clocks of different hosts to agree.

## 9. Plan

Done: the status machine, store, lifecycle, callers, worker, remediation, tool executor, agent, knowledge base, chunking, front door and the
composition of worker and remediation, with proofs of every invariant and safety action property that their runs check.

Next:

1. the composition with calls that fail or are not acknowledged, which `OpsPilot` leaves to its parts: what becomes of `WaitingAccounted` then, counted
   against the faults;
2. that the run of `InvestigationAgent` refines the one step `Analyse` of the worker.
