------------------------------ MODULE OpsPilot ------------------------------
(***************************************************************************)
(* The whole path of an incident: intake, the workers that investigate it  *)
(* and propose a remediation, and the operators who propose and decide     *)
(* through the API, on one database.  InvestigationWorker and Remediation  *)
(* see each other as moves of the lifecycle; here those moves are made by  *)
(* the other component itself, so what one does while the other is between *)
(* two round trips is exactly what the code does.                          *)
(*                                                                         *)
(* A worker in its propose stage is also a caller of the remediation       *)
(* service, so the slot req[w] holds the locals of that call; operators    *)
(* have slots of their own.  Nobody waits for a call of another to return. *)
(* Database calls that fail, and workers that stall, are left to the two   *)
(* modules (MaxFaults, MaxStalls are 0 here); worker processes crash and   *)
(* are stopped.                                                            *)
(*                                                                         *)
(*   hasty   the incidents a proposal of which was marked as decided       *)
(*           before the call that made it had returned (history)           *)
(***************************************************************************)
EXTENDS Naturals, Sequences, FiniteSets

CONSTANTS Incidents, Workers, Operators, MaxAttempts,
          Proposals,     \* bound: ids of proposals, numbered
          Tools, Gated,
          ManualActions, \* those of a proposal made by an operator
          MaxHints,      \* bound: hints in the Redis list; one more is lost
          MaxCrashes, MaxStops  \* bounds: worker crashes and SIGTERMs

ASSUME OpsPilotAssumption ==
    /\ Workers \cap Operators = {}
    /\ Incidents # {} /\ Incidents \subseteq Nat \ {0}
    /\ Proposals # {} /\ Proposals \subseteq Nat
    /\ {"create_github_issue", "send_slack_notification"} \cup Gated \subseteq Tools
    /\ ManualActions \in Seq(Tools)

\* actionsFromRCA: what it appends to the advisory actions of the root cause.
RcaActions == <<"create_github_issue", "send_slack_notification">>

VARIABLES status, timeline, job, inv, agentRuns,
          wk, hints, toNotify, cancelled, faults, crashes, stops, stalls,
          proposal, approvals, runs, req, hasty

Worker == INSTANCE InvestigationWorker WITH OutsideTargets <- {}, MaxEvents <- 0,
                                              MaxFaults <- 0, MaxStalls <- 0

Service == INSTANCE Remediation WITH Requests <- Workers \cup Operators,
                                     ActionLists <- {RcaActions, ManualActions}, MaxEvents <- 0,
                                     MaxFaults <- 0

investigationVars == <<job, inv, agentRuns, wk, hints, toNotify, cancelled, crashes, stops, stalls>>
remediationVars == <<proposal, approvals, runs, req, hasty>>
vars == <<status, timeline, faults, investigationVars, remediationVars>>

Init == Worker!Init /\ Service!Init /\ hasty = {}

-----------------------------------------------------------------------------
(***************************************************************************)
(* The worker, and the call it makes                                       *)
(***************************************************************************)

Idle(r) == req[r].pc = "idle"

\* The stages of a worker outside ProposeFromRCA.
WorkerStep(w) ==
    /\ wk[w].pc # "propose"
    /\ Worker!Step(w) /\ hints' <= MaxHints
    /\ UNCHANGED remediationVars

\* Which id a proposal gets means nothing: they are taken in order.
InOrder == \A p, q \in Proposals :
              p < q /\ proposal'[q].status # "none" => proposal'[p].status # "none"

\* After ProposeFromRCA, whatever it returned: the error is logged.
GoesOn(r) ==
    /\ wk' = IF r \in Workers /\ req'[r].pc = "idle" THEN [wk EXCEPT ![r].pc = "finish"] ELSE wk
    /\ UNCHANGED <<job, inv, agentRuns, hints, toNotify, cancelled, crashes, stops, stalls>>

\* Mutant: without ProposeFromRCA.
ProposeFromRCANever(w) ==
    /\ wk[w].pc = "propose" /\ Idle(w)
    /\ wk' = [wk EXCEPT ![w].pc = "finish"]
    /\ UNCHANGED <<status, timeline, job, inv, agentRuns, hints, toNotify, cancelled, faults,
                   crashes, stops, stalls, remediationVars>>

ProposeFromRCA(w) ==
    /\ wk[w].pc = "propose" /\ Idle(w) /\ Worker!Live(w)
    /\ Service!Propose(w, wk[w].inc, RcaActions)
    /\ InOrder
    /\ GoesOn(w)
    /\ UNCHANGED hasty

\* A call of Propose that has inserted its proposal and not returned yet.
Proposing(l) ==
    \/ l.pc \in {"lookProposed", "lookWaiting"}
    \/ l.pc \in {"read", "update"} /\ l.to \in {"REMEDIATION_PROPOSED", "WAITING_FOR_APPROVAL"}

\* A step that changes the proposal of such a call.
Overtaken(r) == Proposing(req[r]) /\ proposal'[req[r].pid].status # proposal[req[r].pid].status

\* One round trip of a call of the remediation service, or one tool.
CallStep(r) ==
    /\ r \in Workers => Worker!Live(r)
    /\ \/ Service!LookProposed(r) \/ Service!LookWaiting(r)
       \/ Service!RecordDecision(r) \/ Service!Mark(r)
       \/ Service!ExecuteAction(r) \/ Service!Executed(r) \/ Service!ExecutionFailed(r)
       \/ Service!TransitionRead(r) \/ Service!TransitionUpdate(r)
    /\ hasty' = hasty \cup {req[s].inc : s \in {s \in Workers \cup Operators : Overtaken(s)}}
    /\ GoesOn(r)

\* On the context that SIGTERM cancelled each further call of ProposeFromRCA fails.
ProposeCutShort(w) ==
    /\ wk[w].pc = "propose" /\ ~Worker!Live(w)
    /\ req' = [req EXCEPT ![w] = Service!Idle]
    /\ GoesOn(w)
    /\ UNCHANGED <<status, timeline, faults, proposal, approvals, runs, hasty>>

-----------------------------------------------------------------------------
(***************************************************************************)
(* The operators, who may act at any time                                  *)
(***************************************************************************)

\* Bound: operators leave an id for each job that may still end in a proposal.
Spare == Cardinality({p \in Proposals : proposal[p].status = "none"})
            > Cardinality({i \in Incidents : job[i].status \in {"none", "pending", "processing"}})

OperatorPropose(o, i) ==
    /\ Spare
    /\ Service!Propose(o, i, ManualActions)
    /\ InOrder
    /\ UNCHANGED <<investigationVars, hasty>>

OperatorDecide(o, p, decision) ==
    /\ Service!Decide(o, p, decision)
    /\ UNCHANGED <<investigationVars, hasty>>

-----------------------------------------------------------------------------
(***************************************************************************)
(* The surroundings                                                        *)
(***************************************************************************)

Intake(i) == Worker!Intake(i) /\ UNCHANGED remediationVars
Notify(i) == Worker!Notify(i) /\ hints' <= MaxHints /\ UNCHANGED remediationVars
FallDue(i) == Worker!FallDue(i) /\ UNCHANGED remediationVars
Stop(w) == Worker!Stop(w) /\ UNCHANGED remediationVars
Restart(w) == Worker!Restart(w) /\ UNCHANGED remediationVars

\* The worker's process dies, and its call with it.
Crash(w) ==
    /\ Worker!Crash(w)
    /\ req' = [req EXCEPT ![w] = Service!Idle]
    /\ UNCHANGED <<proposal, approvals, runs, hasty>>

Next ==
    \/ \E w \in Workers : \/ WorkerStep(w) \/ ProposeFromRCA(w) \/ ProposeCutShort(w)
                          \/ Crash(w) \/ Stop(w) \/ Restart(w)
    \/ \E r \in Workers \cup Operators : CallStep(r)
    \/ \E o \in Operators : \/ \E i \in Incidents : OperatorPropose(o, i)
                            \/ \E p \in Proposals, d \in Service!Decision : OperatorDecide(o, p, d)
    \/ \E i \in Incidents : Intake(i) \/ Notify(i) \/ FallDue(i)

Spec == Init /\ [][Next]_vars

\* A worker's loop, with the call it makes, runs as long as its process does.  Nothing
\* is assumed of operators, not even that their calls end.
Fairness ==
    \A w \in Workers :
        WF_vars(WorkerStep(w) \/ ProposeFromRCA(w) \/ ProposeCutShort(w) \/ CallStep(w))

FairSpec == Spec /\ Fairness

-----------------------------------------------------------------------------
(***************************************************************************)
(* Properties                                                              *)
(***************************************************************************)

Mishaps == crashes + stops

\* GUIDE: "Persist structured RCA on the investigation; status ->
\* ROOT_CAUSE_IDENTIFIED".  The status comes first, so readers may miss the root
\* cause for a while; but what a completed job leaves announced has its root
\* cause stored, whatever went wrong, and without mishaps someone is about to.
Announced == {"ROOT_CAUSE_IDENTIFIED", "REMEDIATION_PROPOSED", "WAITING_FOR_APPROVAL",
              "REMEDIATION_EXECUTED", "RESOLVED"}
RcaFollows ==
    \A i \in Incidents :
        status[i] \in Announced /\ ~inv[i].rca =>
            \/ \E w \in Workers : wk[w].inc = i /\ wk[w].rca /\ wk[w].pc \in {"propose", "finish"}
            \/ job[i].status # "completed" /\ Mishaps > 0

\* No call on incident i is under way.
Quiet(i) == \A r \in Workers \cup Operators : Idle(r) \/ req[r].inc # i

OpenFor(i) == \E p \in Proposals : proposal[p].status = "proposed" /\ proposal[p].inc = i

\* GUIDE, "What is waiting on humans?  GET /api/v1/remediations/awaiting": while no
\* call on it is under way, an incident that waits for approval is in that list, unless
\* one of its proposals was decided while Propose was still under way: a proposal can be
\* found and decided as soon as it is inserted, and the call of Propose moves the incident
\* to WAITING_FOR_APPROVAL afterwards, when nothing is left to decide.  Whatever else
\* workers and operators do at the same time, and although workers crash and are stopped,
\* no other order of their steps has this result.
WaitingAccounted ==
    \A i \in Incidents :
        status[i] = "WAITING_FOR_APPROVAL" /\ Quiet(i) => OpenFor(i) \/ i \in hasty

\* The propose stage is best effort and races with the operators' own proposals, yet
\* an identified root cause never stays unnoticed: the incident comes to wait
\* for a human, or has been decided.
IdentifiedReachesHuman ==
    \A i \in Incidents :
        status[i] = "ROOT_CAUSE_IDENTIFIED" ~>
            status[i] \notin {"ROOT_CAUSE_IDENTIFIED", "REMEDIATION_PROPOSED"} \/ Mishaps > 0

\* Readers see the abstract lifecycle, now that neither component is only imagined by
\* the other: a worker retries after an operator's proposal failed its incident, and an
\* operator decides while the worker that proposed is about to finish.
Lifecycle == INSTANCE IncidentLifecycle
ImplementsLifecycle == Lifecycle!Spec

=============================================================================
