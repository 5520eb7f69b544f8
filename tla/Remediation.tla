---------------------------- MODULE Remediation ----------------------------
(***************************************************************************)
(* Proposals and their approval (remediation/service.go).  Any number of   *)
(* calls of Propose (by the API, or by a worker through ProposeFromRCA),   *)
(* Approve and Reject run at the same time; one step is one round trip to  *)
(* PostgreSQL, or one tool.  A call that finds its proposal decided, or    *)
(* that fails before it changed anything, is not modelled.                 *)
(*                                                                         *)
(*   proposal[p]   the row of remediation_proposals                        *)
(*   approvals[p]  how many rows of approvals say approve and reject       *)
(*   runs[p]       how often a tool that requires approval ran for p       *)
(*   req[r]        the locals of the call in slot r, and where it is       *)
(*   faults        how much went wrong so far, up to its bound             *)
(*                                                                         *)
(* notifySlack changes none of these and its error is logged: left out.    *)
(***************************************************************************)
EXTENDS IncidentStore, FiniteSets

CONSTANTS Requests,      \* calls in flight at the same time
          Proposals,     \* bound: ids of proposals
          Tools, Gated,  \* the tools of actions; those with REQUIRES_APPROVAL
          ActionLists,   \* the tool-backed actions a proposal can have, in order
          MaxEvents,     \* bound: the worker moves no incident with this many events
          MaxFaults      \* bound: database calls that fail, and calls that are abandoned

ASSUME IdsAssumption == Incidents # {} /\ Proposals # {}
ASSUME ToolsAssumption == Gated \subseteq Tools /\ ActionLists \subseteq Seq(Tools)
ASSUME BoundsAssumption == MaxEvents \in Nat /\ MaxFaults \in Nat

VARIABLES proposal, approvals, runs, req, faults

propVars == <<proposal, approvals, runs>>
vars == <<storeVars, propVars, req, faults>>

Decision == {"approve", "reject"}
InvestigationTargets == {"TRIAGING", "INVESTIGATING", "ROOT_CAUSE_IDENTIFIED"}

ProposalRow == [status : {"none", "proposed", "approved", "rejected", "executed", "failed"},
                inc : Incidents, actions : Seq(Tools)]

\* to, seen: the target of the Transition call under way, and the status it read.
\* next: the action to execute.
Local == [pc : {"idle", "lookProposed", "lookWaiting", "record", "mark", "execute", "failed",
                "read", "update"},
          inc : Incidents, pid : Proposals, decision : Decision, next : Nat,
          to : Status, seen : Status \cup {NoStatus}]

TypeOK == /\ StoreTypeOK
          /\ proposal \in [Proposals -> ProposalRow]
          /\ approvals \in [Proposals -> [Decision -> Nat]]
          /\ runs \in [Proposals -> Nat]
          /\ req \in [Requests -> Local]
          /\ faults \in Nat

Idle == [pc |-> "idle", inc |-> CHOOSE i \in Incidents : TRUE, pid |-> CHOOSE p \in Proposals : TRUE,
         decision |-> "reject", next |-> 0, to |-> "RECEIVED", seen |-> NoStatus]

NoProposal == [status |-> "none", inc |-> CHOOSE i \in Incidents : TRUE, actions |-> <<>>]

Init == /\ StoreInit
        /\ proposal = [p \in Proposals |-> NoProposal]
        /\ approvals = [p \in Proposals |-> [d \in Decision |-> 0]]
        /\ runs = [p \in Proposals |-> 0]
        /\ req = [r \in Requests |-> Idle]
        /\ faults = 0

-----------------------------------------------------------------------------

At(r, pc) == req[r].pc = pc
Goto(r, pc) == req' = [req EXCEPT ![r].pc = pc]
Return(r) == req' = [req EXCEPT ![r] = Idle]

Reads == UNCHANGED <<storeVars, propVars>>
NoFault == UNCHANGED faults
Fault == faults < MaxFaults /\ faults' = faults + 1

\* A database call takes effect and returns; its acknowledgement is lost; or it
\* fails without effect.  effect, ok and failed are actions.
Call(effect, ok, failed) ==
    \/ effect /\ ok /\ NoFault
    \/ effect /\ failed /\ Fault
    \/ Reads /\ failed /\ Fault

-----------------------------------------------------------------------------
(***************************************************************************)
(* The statements on the two tables                                        *)
(***************************************************************************)

CreateProposal(p, i, actions) ==
    /\ proposal[p].status = "none"
    /\ proposal' = [proposal EXCEPT ![p] = [status |-> "proposed", inc |-> i, actions |-> actions]]
    /\ UNCHANGED <<storeVars, approvals, runs>>

CreateApproval(p, decision) ==
    /\ approvals' = [approvals EXCEPT ![p][decision] = @ + 1]
    /\ UNCHANGED <<storeVars, proposal, runs>>

\* Unconditional, from the caller's copy; only the status ever differs.
UpdateProposal(p, newStatus) ==
    /\ proposal' = [proposal EXCEPT ![p].status = newStatus]
    /\ UNCHANGED <<storeVars, approvals, runs>>

-----------------------------------------------------------------------------
(***************************************************************************)
(* Service.Transition.  Each call of it here is best effort: whatever its  *)
(* outcome, the caller goes on to the same next thing.                     *)
(***************************************************************************)

Transition(r, to) ==
    req' = [req EXCEPT ![r].pc = "read", ![r].to = to, ![r].seen = NoStatus]

Continue(r) ==
    CASE req[r].to = "REMEDIATION_PROPOSED" -> Goto(r, "lookWaiting")
      [] req[r].to = "REMEDIATION_EXECUTED" -> Transition(r, "RESOLVED")
      [] OTHER -> Return(r)

TransitionRead(r) ==
    LET current == status[req[r].inc] IN
    /\ At(r, "read")
    /\ Call(Reads,
            IF CanTransition(current, req[r].to)
            THEN req' = [req EXCEPT ![r].pc = "update", ![r].seen = current]
            ELSE Continue(r),
            Continue(r))

\* Mutant: the update is not conditional on the status that was read.
TransitionUpdateUnguarded(r) ==
    /\ At(r, "update")
    /\ Call(SetStatus(req[r].inc, req[r].seen, req[r].to) /\ UNCHANGED propVars,
            Continue(r), Continue(r))

TransitionUpdate(r) ==
    LET i == req[r].inc IN
    /\ At(r, "update")
    /\ Call(/\ IF status[i] = req[r].seen
               THEN TransitionWithEvent(i, req[r].seen, req[r].to)
               ELSE UNCHANGED storeVars
            /\ UNCHANGED propVars,
            Continue(r), Continue(r))

-----------------------------------------------------------------------------
(***************************************************************************)
(* Propose                                                                 *)
(***************************************************************************)

\* The incident exists, and always will; then the insert.
Propose(r, i, actions) ==
    /\ At(r, "idle")
    /\ status[i] # NoStatus
    /\ \E p \in Proposals :
          Call(CreateProposal(p, i, actions),
               req' = [req EXCEPT ![r].pc = "lookProposed", ![r].inc = i, ![r].pid = p],
               Return(r))

LookProposed(r) ==
    /\ At(r, "lookProposed")
    /\ Call(Reads,
            IF status[req[r].inc] = "ROOT_CAUSE_IDENTIFIED"
            THEN Transition(r, "REMEDIATION_PROPOSED") ELSE Goto(r, "lookWaiting"),
            Return(r))

LookWaiting(r) ==
    /\ At(r, "lookWaiting")
    /\ Call(Reads,
            IF status[req[r].inc] \in {"REMEDIATION_PROPOSED", "ROOT_CAUSE_IDENTIFIED"}
            THEN Transition(r, "WAITING_FOR_APPROVAL") ELSE Return(r),
            Return(r))

-----------------------------------------------------------------------------
(***************************************************************************)
(* Approve and Reject                                                      *)
(***************************************************************************)

\* GetProposal, and the check that it is still proposed.
Decide(r, p, decision) ==
    /\ At(r, "idle")
    /\ proposal[p].status = "proposed"
    /\ req' = [req EXCEPT ![r].pc = "record", ![r].inc = proposal[p].inc, ![r].pid = p,
                          ![r].decision = decision]
    /\ UNCHANGED <<storeVars, propVars, faults>>

\* Mutant: the approval's insert is best effort.
RecordDecisionBestEffort(r) ==
    /\ At(r, "record")
    /\ Call(CreateApproval(req[r].pid, req[r].decision), Goto(r, "mark"), Goto(r, "mark"))

RecordDecision(r) ==
    /\ At(r, "record")
    /\ Call(CreateApproval(req[r].pid, req[r].decision), Goto(r, "mark"), Return(r))

\* Mutant: a rejection leaves the incident where it is.
MarkOnly(r) ==
    /\ At(r, "mark")
    /\ IF req[r].decision = "approve"
       THEN Call(UpdateProposal(req[r].pid, "approved"),
                 req' = [req EXCEPT ![r].pc = "execute", ![r].next = 1], Return(r))
       ELSE Call(UpdateProposal(req[r].pid, "rejected"), Return(r), Return(r))

Mark(r) ==
    /\ At(r, "mark")
    /\ IF req[r].decision = "approve"
       THEN Call(UpdateProposal(req[r].pid, "approved"),
                 req' = [req EXCEPT ![r].pc = "execute", ![r].next = 1], Return(r))
       ELSE Call(UpdateProposal(req[r].pid, "rejected"), Transition(r, "CANCELLED"), Return(r))

ActionsLeft(r) == req[r].next <= Len(proposal[req[r].pid].actions)

\* Mutant: a failing action is skipped.
ExecuteActionSkipping(r) ==
    /\ At(r, "execute") /\ ActionsLeft(r)
    /\ req' = [req EXCEPT ![r].next = @ + 1]
    /\ \/ runs' = [runs EXCEPT ![req[r].pid] = @ + 1]
       \/ UNCHANGED runs
    /\ UNCHANGED <<storeVars, proposal, approvals, faults>>

\* executeActions: Tools.Execute of the next action, with Approved = true.  It may
\* fail before the tool ran (its audit row could not be written) or after.
ExecuteAction(r) ==
    LET p == req[r].pid
        ran == runs' = [runs EXCEPT ![p] = @ + IF proposal[p].actions[req[r].next] \in Gated THEN 1 ELSE 0]
    IN /\ At(r, "execute") /\ ActionsLeft(r)
       /\ \/ ran /\ req' = [req EXCEPT ![r].next = @ + 1]
          \/ (ran \/ UNCHANGED runs) /\ Goto(r, "failed")
       /\ UNCHANGED <<storeVars, proposal, approvals, faults>>

Executed(r) ==
    /\ At(r, "execute") /\ ~ActionsLeft(r)
    /\ Call(UpdateProposal(req[r].pid, "executed"), Transition(r, "REMEDIATION_EXECUTED"), Return(r))

ExecutionFailed(r) ==
    /\ At(r, "failed")
    /\ Call(UpdateProposal(req[r].pid, "failed"), Transition(r, "FAILED"), Transition(r, "FAILED"))

\* The process dies, or the client goes away and every later call is refused.
Abort(r) ==
    /\ ~At(r, "idle")
    /\ Fault
    /\ Return(r)
    /\ UNCHANGED <<storeVars, propVars>>

-----------------------------------------------------------------------------

\* Intake and the worker's own transitions (InvestigationWorker).
Create(i) == CreateWithEvent(i) /\ UNCHANGED <<propVars, req, faults>>

Investigated(i, to) ==
    /\ CanTransition(status[i], to)
    /\ Len(timeline[i]) < MaxEvents
    /\ SetStatus(i, status[i], to)
    /\ UNCHANGED <<propVars, req, faults>>

Next ==
    \/ \E r \in Requests :
          \/ \E i \in Incidents, actions \in ActionLists : Propose(r, i, actions)
          \/ \E p \in Proposals, decision \in Decision : Decide(r, p, decision)
          \/ LookProposed(r) \/ LookWaiting(r)
          \/ RecordDecision(r) \/ Mark(r)
          \/ ExecuteAction(r) \/ Executed(r) \/ ExecutionFailed(r)
          \/ TransitionRead(r) \/ TransitionUpdate(r)
          \/ Abort(r)
    \/ \E i \in Incidents : \/ Create(i)
                            \/ \E to \in InvestigationTargets : Investigated(i, to)

Spec == Init /\ [][Next]_vars

-----------------------------------------------------------------------------
(***************************************************************************)
(* Properties                                                              *)
(***************************************************************************)

\* How many of the first n actions of p, and of all of them, require approval.
GatedUpTo(p, n) == Cardinality({k \in 1..n : proposal[p].actions[k] \in Gated})
GatedActions(p) == GatedUpTo(p, Len(proposal[p].actions))

\* approvals.md: "remediation service sets [Approved] after an approval record
\* exists".  Whatever races and fails, a tool that requires approval runs at most
\* once for each recorded approval of its proposal.
GatedRunApproved == \A p \in Proposals : runs[p] <= GatedActions(p) * approvals[p]["approve"]

ProposalsOf(i) == {p \in Proposals : proposal[p].status # "none" /\ proposal[p].inc = i}

\* The decisions recorded for incident i explain why it has status s.
Justified(i, s) ==
    /\ s \in {"REMEDIATION_EXECUTED", "RESOLVED"} =>
         \E p \in ProposalsOf(i) : approvals[p]["approve"] > 0 /\ runs[p] >= GatedActions(p)
    /\ s = "FAILED" => \E p \in ProposalsOf(i) : approvals[p]["approve"] > 0
    /\ s = "CANCELLED" => \E p \in ProposalsOf(i) : approvals[p]["reject"] > 0

\* The audit trail explains where an incident ended: executed or resolved, by an
\* approved proposal whose gated tools all ran; failed, by an approved one;
\* cancelled, by a rejected one.
OutcomeJustified == \A i \in Incidents : Justified(i, status[i])

\* What a call in flight knows: its proposal exists and is of its incident; what it
\* is about to do, its decision and the actions done so far have earned; and
\* between the halves of a Transition it keeps a status it may leave.
CallSound(r) ==
    LET l == req[r] IN
    ~At(r, "idle") =>
        /\ l.pid \in ProposalsOf(l.inc)
        /\ At(r, "mark") => approvals[l.pid][l.decision] > 0
        /\ At(r, "execute") \/ At(r, "failed") => approvals[l.pid]["approve"] > 0
        /\ At(r, "execute") => /\ l.next \in 1 .. (Len(proposal[l.pid].actions) + 1)
                               /\ runs[l.pid] >= GatedUpTo(l.pid, l.next - 1)
        /\ At(r, "read") \/ At(r, "update") => Justified(l.inc, l.to)
        /\ At(r, "update") => CanTransition(l.seen, l.to)

\* The inductive invariant behind OutcomeJustified and the refinement.
Inductive == TypeOK /\ OutcomeJustified /\ \A r \in Requests : CallSound(r)

\* Readers see the abstract lifecycle, however the calls interleave and fail.
ImplementsLifecycle == Lifecycle!Spec

\* ErrAlreadyDecided, "remediation proposal already decided": a proposal has one
\* decision.
OneDecision == \A p \in Proposals : approvals[p]["approve"] + approvals[p]["reject"] <= 1

=============================================================================
