-------------------------- MODULE RemediationProofs --------------------------
(***************************************************************************)
(* Safety of Propose, Approve and Reject for any number of incidents,      *)
(* proposals, tools, concurrent calls and failures, orderly or not.        *)
(***************************************************************************)
EXTENDS Remediation, FiniteSetTheorems, TLAPS

USE IdsAssumption, ToolsAssumption, BoundsAssumption

PropTypeOK == /\ proposal \in [Proposals -> ProposalRow]
              /\ approvals \in [Proposals -> [Decision -> Nat]]
              /\ runs \in [Proposals -> Nat]

-----------------------------------------------------------------------------
(***************************************************************************)
(* The two incident tables                                                 *)
(***************************************************************************)

LEMMA StatusFacts ==
    /\ {"RECEIVED", "TRIAGING", "INVESTIGATING", "ROOT_CAUSE_IDENTIFIED"} \subseteq Status
    /\ NoStatus \notin Status
BY DEF Status, NoStatus

\* A statement on the two tables keeps them well typed.
LEMMA SetStatusType ==
  ASSUME NEW i \in Incidents, NEW from \in Status \cup {NoStatus}, NEW to \in Status,
         StoreTypeOK, SetStatus(i, from, to)
  PROVE  StoreTypeOK'
<1> DEFINE e == [from |-> from, to |-> to]
<1>1. e \in IncidentEvent /\ timeline[i] \in Seq(IncidentEvent)
  BY DEF StoreTypeOK, IncidentEvent
<1>2. status' \in [Incidents -> Status \cup {NoStatus}]
  BY DEF StoreTypeOK, SetStatus
<1> HIDE DEF e
<1>3. Append(timeline[i], e) \in Seq(IncidentEvent)
  BY <1>1
<1>4. timeline' \in [Incidents -> Seq(IncidentEvent)]
  BY <1>3 DEF StoreTypeOK, SetStatus, e
<1>5. QED
  BY <1>2, <1>4 DEF StoreTypeOK

\* Leaving the tables alone keeps them well typed.
LEMMA StoreUnchangedType == StoreTypeOK /\ UNCHANGED storeVars => StoreTypeOK'
BY DEF StoreTypeOK, storeVars

\* What a component has to show to implement the lifecycle: the tables begin empty,
\* and each step leaves them alone, creates an incident, or moves one to a status
\* the table allows from the one it has.
LifecycleStep ==
    \/ UNCHANGED storeVars
    \/ \E i \in Incidents : CreateWithEvent(i)
    \/ \E i \in Incidents, to \in Status :
          CanTransition(status[i], to) /\ SetStatus(i, status[i], to)

LEMMA StoreInitIsLifecycle == StoreInit => Lifecycle!Init
BY DEF StoreInit, Lifecycle!Init, NoStatus, Lifecycle!NoStatus

LEMMA StepIsLifecycle == LifecycleStep => [Lifecycle!Next]_(Lifecycle!vars)
<1>1. ASSUME NEW i \in Incidents, CreateWithEvent(i) PROVE Lifecycle!Next
  BY <1>1 DEF CreateWithEvent, SetStatus, Lifecycle!Next, Lifecycle!Create, Lifecycle!Record,
              NoStatus, Lifecycle!NoStatus
<1>2. ASSUME NEW i \in Incidents, NEW to \in Status,
             CanTransition(status[i], to), SetStatus(i, status[i], to)
      PROVE  Lifecycle!Next
  <2>1. Lifecycle!Move(i, to)
    BY <1>2 DEF SetStatus, Lifecycle!Move, Lifecycle!Record, CanTransition,
                Lifecycle!CanTransition, validTransitions, Lifecycle!validTransitions,
                Status, Lifecycle!Status
  <2>2. QED
    BY <2>1 DEF Lifecycle!Next, Status, Lifecycle!Status
<1>3. QED
  BY <1>1, <1>2 DEF LifecycleStep, storeVars, Lifecycle!vars

-----------------------------------------------------------------------------
(* Counting the gated actions of a proposal. *)

LEMMA GatedCount ==
  ASSUME NEW p, NEW n \in Nat
  PROVE  /\ GatedUpTo(p, n) \in Nat
         /\ GatedUpTo(p, 0) = 0
         /\ GatedUpTo(p, n + 1) =
              GatedUpTo(p, n) + IF proposal[p].actions[n + 1] \in Gated THEN 1 ELSE 0
<1> DEFINE S(m) == {k \in 1..m : proposal[p].actions[k] \in Gated}
<1>1. \A m \in Nat : IsFiniteSet(S(m))
  <2> TAKE m \in Nat
  <2>1. IsFiniteSet(1..m)
    BY FS_Interval
  <2>2. S(m) \subseteq 1..m
    OBVIOUS
  <2>3. QED
    BY <2>1, <2>2, FS_Subset
<1>2. GatedUpTo(p, n) \in Nat
  BY <1>1, FS_CardinalityType DEF GatedUpTo
<1>3. GatedUpTo(p, 0) = 0
  <2>1. S(0) = {}
    OBVIOUS
  <2>2. QED
    BY <2>1, FS_EmptySet DEF GatedUpTo
<1>4. CASE proposal[p].actions[n + 1] \in Gated
  <2>1. S(n + 1) = S(n) \cup {n + 1} /\ (n + 1) \notin S(n)
    BY <1>4
  <2> HIDE DEF S
  <2>2. Cardinality(S(n + 1)) = Cardinality(S(n)) + 1
    BY <1>1, <2>1, FS_AddElement
  <2>3. QED
    BY <1>2, <1>3, <1>4, <2>2 DEF GatedUpTo, S
<1>5. CASE proposal[p].actions[n + 1] \notin Gated
  <2>1. S(n + 1) = S(n)
    BY <1>5
  <2>2. GatedUpTo(p, n + 1) = GatedUpTo(p, n)
    BY <2>1 DEF GatedUpTo
  <2>3. QED
    BY <1>2, <1>3, <1>5, <2>2
<1>6. QED
  BY <1>4, <1>5

-----------------------------------------------------------------------------
(* No step takes anything back: proposals keep their incident and actions,  *)
(* recorded decisions and runs only grow in number.                         *)

Grows ==
    /\ \A p \in Proposals :
          proposal[p].status # "none" =>
              /\ proposal'[p].status # "none"
              /\ proposal'[p].inc = proposal[p].inc
              /\ proposal'[p].actions = proposal[p].actions
    /\ \A p \in Proposals, d \in Decision : approvals'[p][d] >= approvals[p][d]
    /\ \A p \in Proposals : runs'[p] >= runs[p]

LEMMA GatedKept ==
  ASSUME NEW p \in Proposals, NEW n, proposal'[p].actions = proposal[p].actions
  PROVE  GatedUpTo(p, n)' = GatedUpTo(p, n)
BY DEF GatedUpTo

\* What is justified stays justified.
LEMMA JustifiedStays ==
  ASSUME PropTypeOK, PropTypeOK', Grows, NEW i \in Incidents, NEW s, Justified(i, s)
  PROVE  Justified(i, s)'
<1>1. \A p \in ProposalsOf(i) :
         /\ p \in ProposalsOf(i)'
         /\ GatedActions(p) \in Nat
         /\ GatedActions(p)' = GatedActions(p)
  <2> TAKE p \in ProposalsOf(i)
  <2>1. p \in Proposals /\ proposal[p].status # "none" /\ proposal[p].inc = i
    BY DEF ProposalsOf
  <2>2. proposal'[p].status # "none" /\ proposal'[p].inc = i /\ proposal'[p].actions = proposal[p].actions
    BY <2>1 DEF Grows
  <2>3. Len(proposal[p].actions) \in Nat
    BY <2>1 DEF PropTypeOK, ProposalRow
  <2>4. GatedActions(p) \in Nat
    BY <2>3, GatedCount DEF GatedActions
  <2>5. GatedActions(p)' = GatedActions(p)
    BY <2>1, <2>2, GatedKept DEF GatedActions
  <2>6. QED
    BY <2>1, <2>2, <2>4, <2>5 DEF ProposalsOf
<1>2. \A p \in ProposalsOf(i) :
         /\ \A d \in Decision : approvals[p][d] > 0 => approvals'[p][d] > 0
         /\ runs[p] >= GatedActions(p) => runs'[p] >= GatedActions(p)'
  BY <1>1 DEF Grows, PropTypeOK, ProposalsOf
<1>3. QED
  BY <1>1, <1>2 DEF Justified, Decision

-----------------------------------------------------------------------------
(* The statements, one round trip each. *)

\* What the rest of a step may rely on once its statement has run.
Statement ==
    /\ StoreTypeOK' /\ PropTypeOK' /\ Grows
    /\ \A i \in Incidents : status'[i] # status[i] => Justified(i, status[i])'

LEMMA UnchangedProps ==
  ASSUME PropTypeOK, UNCHANGED propVars
  PROVE  PropTypeOK' /\ Grows
BY DEF PropTypeOK, Grows, propVars, Decision

LEMMA StatementOf ==
  ASSUME StoreTypeOK, UNCHANGED storeVars, PropTypeOK', Grows
  PROVE  Statement
BY StoreUnchangedType DEF Statement, storeVars

LEMMA ReadsStatement ==
  ASSUME StoreTypeOK, PropTypeOK, Reads
  PROVE  Statement
BY StatementOf, UnchangedProps DEF Reads

LEMMA CreateProposalStatement ==
  ASSUME StoreTypeOK, PropTypeOK, NEW p \in Proposals, NEW i \in Incidents,
         NEW actions \in Seq(Tools), CreateProposal(p, i, actions)
  PROVE  Statement
<1>1. [status |-> "proposed", inc |-> i, actions |-> actions] \in ProposalRow
  BY DEF ProposalRow
<1>2. PropTypeOK'
  BY <1>1 DEF PropTypeOK, CreateProposal
<1>3. Grows
  BY DEF PropTypeOK, CreateProposal, Grows, Decision
<1>4. QED
  BY <1>2, <1>3, StatementOf DEF CreateProposal

LEMMA CreateApprovalStatement ==
  ASSUME StoreTypeOK, PropTypeOK, NEW p \in Proposals, NEW d \in Decision, CreateApproval(p, d)
  PROVE  Statement /\ approvals'[p][d] > 0
<1>1. PropTypeOK' /\ approvals'[p][d] > 0
  BY DEF PropTypeOK, CreateApproval, Decision
<1>2. Grows
  BY DEF PropTypeOK, CreateApproval, Grows, Decision
<1>3. QED
  BY <1>1, <1>2, StatementOf DEF CreateApproval

LEMMA UpdateProposalStatement ==
  ASSUME StoreTypeOK, PropTypeOK, NEW p \in Proposals,
         NEW s \in {"approved", "rejected", "executed", "failed"}, UpdateProposal(p, s)
  PROVE  Statement
<1>1. [proposal[p] EXCEPT !.status = s] \in ProposalRow
  BY DEF PropTypeOK, ProposalRow
<1>2. PropTypeOK'
  BY <1>1 DEF PropTypeOK, UpdateProposal
<1>3. Grows
  BY DEF PropTypeOK, ProposalRow, UpdateProposal, Grows, Decision
<1>4. QED
  BY <1>2, <1>3, StatementOf DEF UpdateProposal

\* A move of an incident is allowed if the decisions explain where it goes.
LEMMA SetStatusStatement ==
  ASSUME StoreTypeOK, PropTypeOK, NEW i \in Incidents, NEW from \in Status \cup {NoStatus},
         NEW to \in Status, SetStatus(i, from, to), UNCHANGED propVars, Justified(i, to)
  PROVE  Statement
<1>1. StoreTypeOK' /\ PropTypeOK' /\ Grows
  BY SetStatusType, UnchangedProps
<1>2. Justified(i, to)'
  BY <1>1, JustifiedStays
<1>3. status' = [status EXCEPT ![i] = to] /\ status \in [Incidents -> Status \cup {NoStatus}]
  BY DEF SetStatus, StoreTypeOK
<1>4. ASSUME NEW j \in Incidents, status'[j] # status[j] PROVE Justified(j, status[j])'
  <2>1. j = i /\ status'[j] = to
    BY <1>3, <1>4
  <2>2. QED
    BY <1>2, <2>1 DEF Justified
<1>5. QED
  BY <1>1, <1>4 DEF Statement

-----------------------------------------------------------------------------
(* Where a call goes next. *)

Control(r) ==
    /\ req' \in [Requests -> Local]
    /\ \A q \in Requests \ {r} : req'[q] = req[q]
    /\ CallSound(r)'

LEMMA IdleType == Idle \in Local
<1>1. (CHOOSE i \in Incidents : TRUE) \in Incidents /\ (CHOOSE p \in Proposals : TRUE) \in Proposals
  OBVIOUS
<1>2. QED
  BY <1>1 DEF Idle, Local, Decision, Status, NoStatus

LEMMA ReturnControl ==
  ASSUME TypeOK, NEW r \in Requests, Return(r)
  PROVE  Control(r)
<1>1. req'[r] = Idle /\ Idle.pc = "idle"
  BY DEF TypeOK, Return, Idle
<1>2. CallSound(r)'
  BY <1>1 DEF CallSound, At
<1>3. QED
  BY <1>2, IdleType DEF TypeOK, Return, Control

LEMMA LookControl ==
  ASSUME Inductive, Statement, NEW r \in Requests, ~At(r, "idle"),
         NEW pc \in {"lookProposed", "lookWaiting"}, Goto(r, pc)
  PROVE  Control(r)
<1>1. req[r] \in Local /\ req[r].pid \in Proposals /\ req[r].pid \in ProposalsOf(req[r].inc)
  BY DEF Inductive, TypeOK, CallSound, Local
<1>2. req'[r] = [req[r] EXCEPT !.pc = pc] /\ req'[r] \in Local
  BY <1>1 DEF Inductive, TypeOK, Goto, Local
<1>3. req'[r].pc = pc /\ req'[r].pid = req[r].pid /\ req'[r].inc = req[r].inc
  BY <1>1, <1>2 DEF Local
<1>4. proposal'[req[r].pid].status # "none" /\ proposal'[req[r].pid].inc = req[r].inc
  BY <1>1 DEF Statement, Grows, ProposalsOf
<1>5. CallSound(r)'
  BY <1>1, <1>3, <1>4 DEF CallSound, At, ProposalsOf
<1>6. QED
  BY <1>2, <1>5 DEF Control, Goto, Inductive, TypeOK

LEMMA TransitionControl ==
  ASSUME Inductive, Statement, NEW r \in Requests, ~At(r, "idle"), NEW to \in Status,
         Justified(req[r].inc, to), Transition(r, to)
  PROVE  Control(r)
<1> DEFINE i == req[r].inc
           p == req[r].pid
<1>1. req[r] \in Local /\ p \in Proposals /\ i \in Incidents /\ p \in ProposalsOf(i)
  BY DEF Inductive, TypeOK, CallSound, Local
<1>2. req'[r] = [req[r] EXCEPT !.pc = "read", !.to = to, !.seen = NoStatus] /\ req'[r] \in Local
  BY <1>1 DEF Inductive, TypeOK, Transition, Local
<1>3. req'[r].pc = "read" /\ req'[r].pid = p /\ req'[r].inc = i /\ req'[r].to = to
  BY <1>1, <1>2 DEF Local
<1>4. proposal'[p].status # "none" /\ proposal'[p].inc = i
  BY <1>1 DEF Statement, Grows, ProposalsOf
<1>5. \A j \in Incidents : j = i => Justified(j, to)'
  <2>1. \A j \in Incidents : Justified(j, to) => Justified(j, to)'
    BY JustifiedStays DEF Statement, Inductive, TypeOK, PropTypeOK
  <2>2. QED
    BY <2>1
<1>6. CallSound(r)'
  BY <1>1, <1>3, <1>4, <1>5 DEF CallSound, At, ProposalsOf, Justified
<1>7. QED
  BY <1>2, <1>6 DEF Control, Transition, Inductive, TypeOK

-----------------------------------------------------------------------------
(* The inductive invariant, action by action. *)

\* A call that does not move is not disturbed by what the others do.
LEMMA CallSoundStays ==
  ASSUME Inductive, Statement, NEW r \in Requests, req'[r] = req[r]
  PROVE  CallSound(r)'
<1> DEFINE p == req[r].pid
           i == req[r].inc
           n == req[r].next
<1>1. CASE At(r, "idle")
  BY <1>1 DEF CallSound, At
<1>2. CASE ~At(r, "idle")
  <2>1. /\ p \in Proposals /\ i \in Incidents /\ n \in Nat /\ req[r].decision \in Decision
        /\ proposal[p].status # "none" /\ proposal[p].inc = i
    BY <1>2 DEF Inductive, TypeOK, CallSound, Local, ProposalsOf
  <2>2. /\ proposal'[p].status # "none" /\ proposal'[p].inc = i
        /\ proposal'[p].actions = proposal[p].actions
    BY <2>1 DEF Statement, Grows
  <2>3. At(r, "mark") => approvals'[p][req[r].decision] > 0
    <3>1. approvals'[p][req[r].decision] >= approvals[p][req[r].decision]
      BY <2>1 DEF Statement, Grows
    <3>2. QED
      BY <1>2, <2>1, <3>1 DEF Inductive, CallSound, TypeOK, Statement, PropTypeOK
  <2>4. At(r, "execute") \/ At(r, "failed") => approvals'[p]["approve"] > 0
    <3>1. approvals'[p]["approve"] >= approvals[p]["approve"]
      BY <2>1 DEF Statement, Grows, Decision
    <3>2. QED
      BY <1>2, <2>1, <3>1 DEF Inductive, CallSound, TypeOK, Statement, PropTypeOK, Decision
  <2>5. ASSUME At(r, "execute")
        PROVE  /\ n \in 1 .. (Len(proposal'[p].actions) + 1)
               /\ runs'[p] >= GatedUpTo(p, n - 1)'
    <3>1. n \in 1 .. (Len(proposal[p].actions) + 1) /\ runs[p] >= GatedUpTo(p, n - 1)
      BY <1>2, <2>5 DEF Inductive, CallSound
    <3>2. \A q \in Proposals, m \in Nat :
             proposal'[q].actions = proposal[q].actions => GatedUpTo(q, m)' = GatedUpTo(q, m)
      BY GatedKept
    <3>3. n - 1 \in Nat
      BY <2>1, <3>1 DEF Inductive, TypeOK, ProposalRow
    <3>4. GatedUpTo(p, n - 1) \in Nat
      BY <3>3, GatedCount
    <3>5. runs'[p] >= runs[p] /\ runs[p] \in Nat /\ runs'[p] \in Nat
      BY <2>1 DEF Inductive, TypeOK, Statement, PropTypeOK, Grows
    <3>6. \A q \in Proposals, m \in Nat :
             q = p /\ m = n - 1 => runs'[q] >= GatedUpTo(q, m)'
      BY <2>2, <3>1, <3>2, <3>4, <3>5
    <3>7. QED
      BY <2>1, <2>2, <3>1, <3>3, <3>6
  <2>6. At(r, "read") \/ At(r, "update") => Justified(i, req[r].to)'
    <3>1. i \in Incidents
      BY <2>1 DEF Inductive, TypeOK, ProposalRow
    <3>2. \A j \in Incidents, to \in Status : Justified(j, to) => Justified(j, to)'
      BY JustifiedStays DEF Statement, Inductive, TypeOK, PropTypeOK
    <3>3. \A j \in Incidents, to \in Status :
             /\ j = i /\ to = req[r].to
             /\ At(r, "read") \/ At(r, "update")
             => Justified(j, to)'
      BY <1>2, <3>2 DEF Inductive, CallSound
    <3>4. req[r].to \in Status
      BY DEF Inductive, TypeOK, Local
    <3>5. QED
      BY <3>1, <3>3, <3>4
  <2>7. At(r, "update") => CanTransition(req[r].seen, req[r].to)
    BY <1>2 DEF Inductive, CallSound
  <2>8. QED
    BY <2>1, <2>2, <2>3, <2>4, <2>5, <2>6, <2>7 DEF CallSound, At, ProposalsOf, CanTransition
<1>3. QED
  BY <1>1, <1>2

LEMMA StepInductive ==
  ASSUME Inductive, Statement, faults' \in Nat, req' \in [Requests -> Local],
         \A r \in Requests : req'[r] = req[r] \/ CallSound(r)'
  PROVE  Inductive'
<1>1. TypeOK'
  BY DEF TypeOK, Statement, PropTypeOK
<1>2. OutcomeJustified'
  <2> SUFFICES ASSUME NEW i \in Incidents PROVE Justified(i, status[i])'
    BY DEF OutcomeJustified
  <2>1. CASE status'[i] # status[i]
    BY <2>1 DEF Statement
  <2>2. CASE status'[i] = status[i]
    <3>1. Justified(i, status[i])
      BY DEF Inductive, OutcomeJustified
    <3>2. \A s : Justified(i, s) => Justified(i, s)'
      BY JustifiedStays DEF Statement, Inductive, TypeOK, PropTypeOK
    <3>3. QED
      BY <2>2, <3>1, <3>2
  <2>3. QED
    BY <2>1, <2>2
<1>3. \A r \in Requests : CallSound(r)'
  BY CallSoundStays
<1>4. QED
  BY <1>1, <1>2, <1>3 DEF Inductive

LEMMA ControlInductive ==
  ASSUME Inductive, Statement, NoFault \/ Fault, NEW r \in Requests, Control(r)
  PROVE  Inductive'
<1>1. faults' \in Nat
  BY DEF Inductive, TypeOK, NoFault, Fault
<1>2. \A q \in Requests : req'[q] = req[q] \/ CallSound(q)'
  BY DEF Control
<1>3. QED
  BY <1>1, <1>2, StepInductive DEF Control

\* What is known of a call in flight.
LEMMA InFlight ==
  ASSUME Inductive, NEW r \in Requests, ~At(r, "idle")
  PROVE  /\ req[r] \in Local
         /\ req[r].pid \in Proposals /\ req[r].inc \in Incidents /\ req[r].next \in Nat
         /\ req[r].decision \in Decision /\ req[r].to \in Status
         /\ req[r].seen \in Status \cup {NoStatus}
         /\ proposal[req[r].pid].status # "none" /\ proposal[req[r].pid].inc = req[r].inc
         /\ proposal[req[r].pid] \in ProposalRow
         /\ approvals[req[r].pid] \in [Decision -> Nat]
         /\ CallSound(r)
<1>1. req[r] \in Local /\ CallSound(r)
  BY DEF Inductive, TypeOK
<1>2. req[r].pid \in ProposalsOf(req[r].inc)
  BY <1>1 DEF CallSound
<1>3. req[r].pid \in Proposals /\ proposal[req[r].pid] \in ProposalRow
      /\ approvals[req[r].pid] \in [Decision -> Nat]
  BY <1>1 DEF Local, Inductive, TypeOK
<1>4. QED
  BY <1>1, <1>2, <1>3 DEF Local, ProposalsOf

LEMMA KnownTypes == Inductive => TypeOK /\ StoreTypeOK /\ PropTypeOK
BY DEF Inductive, TypeOK, PropTypeOK

\* A status no decision has to explain.
Free(s) == s \notin {"REMEDIATION_EXECUTED", "RESOLVED", "FAILED", "CANCELLED"}

LEMMA FreeJustified == \A i, s : Free(s) => Justified(i, s)
BY DEF Free, Justified

LEMMA ProposeInductive ==
  ASSUME Inductive, NEW r \in Requests, NEW i \in Incidents, NEW actions \in ActionLists,
         Propose(r, i, actions)
  PROVE  Inductive'
<1> PICK p \in Proposals :
       Call(CreateProposal(p, i, actions),
            req' = [req EXCEPT ![r].pc = "lookProposed", ![r].inc = i, ![r].pid = p],
            Return(r))
  BY DEF Propose
<1>0. actions \in Seq(Tools)
  OBVIOUS
<1>1. Statement /\ (NoFault \/ Fault)
  BY <1>0, KnownTypes, ReadsStatement, CreateProposalStatement DEF Call
<1>2. CASE Return(r)
  BY <1>1, <1>2, KnownTypes, ReturnControl, ControlInductive
<1>3. CASE ~Return(r)
  <2>1. /\ CreateProposal(p, i, actions)
        /\ req' = [req EXCEPT ![r].pc = "lookProposed", ![r].inc = i, ![r].pid = p]
    BY <1>3 DEF Call
  <2> DEFINE l == [req[r] EXCEPT !.pc = "lookProposed", !.inc = i, !.pid = p]
  <2>2. /\ l \in Local /\ l.pc = "lookProposed" /\ l.inc = i /\ l.pid = p
    BY DEF Inductive, TypeOK, Local
  <2>3. req' = [req EXCEPT ![r] = l] /\ req \in [Requests -> Local]
    BY <2>1 DEF Inductive, TypeOK
  <2> HIDE DEF l
  <2>4. req'[r] = l /\ req' \in [Requests -> Local] /\ \A q \in Requests \ {r} : req'[q] = req[q]
    BY <2>2, <2>3
  <2>5. proposal'[p].status # "none" /\ proposal'[p].inc = i
    BY <2>1, KnownTypes DEF CreateProposal, PropTypeOK
  <2>6. CallSound(r)'
    BY <2>2, <2>4, <2>5 DEF CallSound, At, ProposalsOf
  <2>7. QED
    BY <1>1, <2>4, <2>6, ControlInductive DEF Control
<1>4. QED
  BY <1>2, <1>3

LEMMA LookInductive ==
  ASSUME Inductive, NEW r \in Requests, LookProposed(r) \/ LookWaiting(r)
  PROVE  Inductive'
<1>1. ~At(r, "idle")
  BY DEF LookProposed, LookWaiting, At
<1>2. Statement /\ (NoFault \/ Fault)
  BY KnownTypes, ReadsStatement DEF LookProposed, LookWaiting, Call
<1>3. \/ Return(r) \/ Goto(r, "lookWaiting")
      \/ \E to \in {"REMEDIATION_PROPOSED", "WAITING_FOR_APPROVAL"} : Transition(r, to)
  BY DEF LookProposed, LookWaiting, Call
<1>4. \A to \in {"REMEDIATION_PROPOSED", "WAITING_FOR_APPROVAL"} :
         to \in Status /\ Justified(req[r].inc, to)
  BY FreeJustified DEF Status, Free
<1>5. Control(r)
  BY <1>1, <1>2, <1>3, <1>4, KnownTypes, ReturnControl, LookControl, TransitionControl
<1>6. QED
  BY <1>2, <1>5, ControlInductive

LEMMA DecideInductive ==
  ASSUME Inductive, NEW r \in Requests, NEW p \in Proposals, NEW d \in Decision, Decide(r, p, d)
  PROVE  Inductive'
<1> DEFINE l == [req[r] EXCEPT !.pc = "record", !.inc = proposal[p].inc, !.pid = p, !.decision = d]
<1>1. Statement /\ (NoFault \/ Fault)
  BY KnownTypes, ReadsStatement DEF Decide, Reads, NoFault
<1>2. proposal[p].inc \in Incidents /\ proposal[p].status = "proposed"
  BY DEF Decide, Inductive, TypeOK, ProposalRow
<1>3. l \in Local /\ l.pc = "record" /\ l.inc = proposal[p].inc /\ l.pid = p
  BY <1>2 DEF Inductive, TypeOK, Local
<1>4. req' = [req EXCEPT ![r] = l] /\ req \in [Requests -> Local]
  BY DEF Decide, Inductive, TypeOK
<1> HIDE DEF l
<1>5. req'[r] = l /\ req' \in [Requests -> Local] /\ \A q \in Requests \ {r} : req'[q] = req[q]
  BY <1>3, <1>4
<1>6. proposal' = proposal
  BY DEF Decide, propVars
<1>7. CallSound(r)'
  BY <1>2, <1>3, <1>5, <1>6 DEF CallSound, At, ProposalsOf
<1>8. QED
  BY <1>1, <1>5, <1>7, ControlInductive DEF Control

\* Going on to a stage after a statement that earned it.
LEMMA GotoControl ==
  ASSUME Inductive, Statement, NEW r \in Requests, ~At(r, "idle"),
         NEW pc \in {"mark", "failed"}, Goto(r, pc),
         pc = "mark" => approvals'[req[r].pid][req[r].decision] > 0,
         pc = "failed" => approvals'[req[r].pid]["approve"] > 0
  PROVE  Control(r)
<1>1. req'[r] = [req[r] EXCEPT !.pc = pc] /\ req'[r] \in Local
  BY InFlight DEF Inductive, TypeOK, Goto, Local
<1>2. /\ req'[r].pc = pc /\ req'[r].pid = req[r].pid /\ req'[r].inc = req[r].inc
      /\ req'[r].decision = req[r].decision
  BY <1>1, InFlight DEF Local
<1>3. proposal'[req[r].pid].status # "none" /\ proposal'[req[r].pid].inc = req[r].inc
  BY InFlight DEF Statement, Grows
<1>4. CallSound(r)'
  BY <1>2, <1>3, InFlight DEF CallSound, At, ProposalsOf
<1>5. QED
  BY <1>1, <1>4 DEF Control, Goto, Inductive, TypeOK

LEMMA RecordInductive ==
  ASSUME Inductive, NEW r \in Requests, RecordDecision(r)
  PROVE  Inductive'
<1>1. ~At(r, "idle")
  BY DEF RecordDecision, At
<1>2. Statement /\ (NoFault \/ Fault)
  BY <1>1, KnownTypes, InFlight, ReadsStatement, CreateApprovalStatement DEF RecordDecision, Call
<1>3. \/ Return(r)
      \/ Goto(r, "mark") /\ approvals'[req[r].pid][req[r].decision] > 0
  BY <1>1, KnownTypes, InFlight, CreateApprovalStatement DEF RecordDecision, Call
<1>4. Control(r)
  BY <1>1, <1>2, <1>3, KnownTypes, ReturnControl, GotoControl
<1>5. QED
  BY <1>2, <1>4, ControlInductive

LEMMA MarkInductive ==
  ASSUME Inductive, NEW r \in Requests, Mark(r)
  PROVE  Inductive'
<1> DEFINE p == req[r].pid
<1>1. ~At(r, "idle") /\ At(r, "mark")
  BY DEF Mark, At
<1>2. Statement /\ (NoFault \/ Fault)
  BY <1>1, KnownTypes, InFlight, ReadsStatement, UpdateProposalStatement DEF Mark, Call
<1>3. req[r].decision \in {"approve", "reject"} /\ approvals[p][req[r].decision] > 0
  BY <1>1, InFlight DEF CallSound, Decision
<1>4. CASE Return(r)
  BY <1>2, <1>4, KnownTypes, ReturnControl, ControlInductive
<1>5. CASE req[r].decision = "reject" /\ ~Return(r)
  <2>1. Transition(r, "CANCELLED")
    BY <1>5 DEF Mark, Call
  <2>2. Justified(req[r].inc, "CANCELLED")
    BY <1>1, <1>3, <1>5, InFlight DEF Justified, ProposalsOf
  <2>3. "CANCELLED" \in Status
    BY DEF Status
  <2>4. QED
    BY <1>1, <1>2, <2>1, <2>2, <2>3, TransitionControl, ControlInductive
<1>6. CASE req[r].decision = "approve" /\ ~Return(r)
  <2>1. UpdateProposal(p, "approved") /\ req' = [req EXCEPT ![r].pc = "execute", ![r].next = 1]
    BY <1>6 DEF Mark, Call
  <2> DEFINE l == [req[r] EXCEPT !.pc = "execute", !.next = 1]
  <2>2. l \in Local /\ l.pc = "execute" /\ l.next = 1 /\ l.pid = p /\ l.inc = req[r].inc
    BY <1>1, InFlight DEF Local
  <2>3. req' = [req EXCEPT ![r] = l] /\ req \in [Requests -> Local]
    BY <2>1 DEF Inductive, TypeOK
  <2> HIDE DEF l
  <2>4. req'[r] = l /\ req' \in [Requests -> Local] /\ \A q \in Requests \ {r} : req'[q] = req[q]
    BY <2>2, <2>3
  <2>5. proposal'[p].status # "none" /\ proposal'[p].inc = req[r].inc
        /\ proposal'[p] \in ProposalRow
    BY <1>1, <1>2, InFlight DEF Statement, Grows, PropTypeOK
  <2>6. approvals' = approvals /\ runs' = runs /\ runs[p] \in Nat
    BY <1>1, <2>1, InFlight DEF UpdateProposal, Inductive, TypeOK
  <2>7. Len(proposal'[p].actions) \in Nat
    BY <2>5 DEF ProposalRow
  <2>8. GatedUpTo(p, 0)' = 0
    <3>1. \A q : GatedUpTo(q, 0)' = 0
      <4> TAKE q
      <4>1. {k \in 1..0 : proposal'[q].actions[k] \in Gated} = {}
        OBVIOUS
      <4>2. QED
        BY <4>1, FS_EmptySet DEF GatedUpTo
    <3>2. QED
      BY <3>1
  <2>9. CallSound(r)'
    BY <1>1, <1>3, <1>6, <2>2, <2>4, <2>5, <2>6, <2>7, <2>8, InFlight
       DEF CallSound, At, ProposalsOf
  <2>10. QED
    BY <1>2, <2>4, <2>9, ControlInductive DEF Control
<1>7. QED
  BY <1>3, <1>4, <1>5, <1>6

LEMMA ExecutedInductive ==
  ASSUME Inductive, NEW r \in Requests, Executed(r)
  PROVE  Inductive'
<1> DEFINE p == req[r].pid
           n == Len(proposal[p].actions)
<1>1. ~At(r, "idle") /\ At(r, "execute")
  BY DEF Executed, At
<1>2. Statement /\ (NoFault \/ Fault)
  BY <1>1, KnownTypes, InFlight, ReadsStatement, UpdateProposalStatement DEF Executed, Call
<1>3. n \in Nat /\ req[r].next = n + 1
  BY <1>1, InFlight DEF CallSound, Executed, ActionsLeft, ProposalRow
<1>4. approvals[p]["approve"] > 0 /\ runs[p] >= GatedActions(p)
  BY <1>1, <1>3, InFlight DEF CallSound, GatedActions
<1>5. Justified(req[r].inc, "REMEDIATION_EXECUTED") /\ "REMEDIATION_EXECUTED" \in Status
  BY <1>1, <1>4, InFlight DEF Justified, ProposalsOf, Status
<1>6. Return(r) \/ Transition(r, "REMEDIATION_EXECUTED")
  BY DEF Executed, Call
<1>7. Control(r)
  BY <1>1, <1>2, <1>5, <1>6, KnownTypes, ReturnControl, TransitionControl
<1>8. QED
  BY <1>2, <1>7, ControlInductive

LEMMA FailedInductive ==
  ASSUME Inductive, NEW r \in Requests, ExecutionFailed(r)
  PROVE  Inductive'
<1>1. ~At(r, "idle") /\ At(r, "failed")
  BY DEF ExecutionFailed, At
<1>2. Statement /\ (NoFault \/ Fault)
  BY <1>1, KnownTypes, InFlight, ReadsStatement, UpdateProposalStatement DEF ExecutionFailed, Call
<1>3. Justified(req[r].inc, "FAILED") /\ "FAILED" \in Status
  BY <1>1, InFlight DEF CallSound, Justified, ProposalsOf, Status
<1>4. Transition(r, "FAILED")
  BY DEF ExecutionFailed, Call
<1>5. Control(r)
  BY <1>1, <1>2, <1>3, <1>4, TransitionControl
<1>6. QED
  BY <1>2, <1>5, ControlInductive

LEMMA ExecuteInductive ==
  ASSUME Inductive, NEW r \in Requests, ExecuteAction(r)
  PROVE  Inductive'
<1> DEFINE p == req[r].pid
           n == req[r].next
           gated == proposal[p].actions[n] \in Gated
           ran == runs' = [runs EXCEPT ![p] = @ + IF gated THEN 1 ELSE 0]
<1>1. ~At(r, "idle") /\ At(r, "execute")
  BY DEF ExecuteAction, At
<1>2. UNCHANGED <<storeVars, proposal, approvals>> /\ NoFault /\ (ran \/ UNCHANGED runs)
  BY DEF ExecuteAction, NoFault
<1>3. /\ p \in Proposals /\ proposal[p] \in ProposalRow /\ Len(proposal[p].actions) \in Nat
      /\ n \in 1 .. (Len(proposal[p].actions) + 1)
      /\ approvals[p]["approve"] > 0 /\ runs[p] \in Nat /\ runs[p] >= GatedUpTo(p, n - 1)
  BY <1>1, InFlight DEF CallSound, ProposalRow, Inductive, TypeOK
<1>4. PropTypeOK' /\ Grows
  <2>1. runs \in [Proposals -> Nat] /\ \E k \in {0, 1} : runs' = [runs EXCEPT ![p] = @ + k]
    <3>1. runs \in [Proposals -> Nat] /\ (UNCHANGED runs => runs' = [runs EXCEPT ![p] = @ + 0])
      BY <1>3 DEF Inductive, TypeOK
    <3>2. ran => \E k \in {0, 1} : runs' = [runs EXCEPT ![p] = @ + k]
      <4> HIDE DEF gated, p
      <4> QED
        OBVIOUS
    <3>3. QED
      BY <1>2, <3>1, <3>2
  <2>2. runs' \in [Proposals -> Nat] /\ \A q \in Proposals : runs'[q] >= runs[q]
    <3> HIDE DEF p
    <3> QED
      BY <1>3, <2>1
  <2>3. QED
    BY <1>2, <2>2 DEF Inductive, TypeOK, PropTypeOK, Grows, Decision
<1>5. Statement
  BY <1>2, <1>4, KnownTypes, StatementOf
<1>6. CASE Goto(r, "failed")
  BY <1>1, <1>2, <1>3, <1>5, <1>6, GotoControl, ControlInductive
<1>7. CASE ran /\ req' = [req EXCEPT ![r].next = @ + 1]
  <2> DEFINE l == [req[r] EXCEPT !.next = n + 1]
  <2>1. l \in Local /\ l.pc = "execute" /\ l.next = n + 1 /\ l.pid = p /\ l.inc = req[r].inc
    BY <1>1, InFlight DEF Local, At
  <2>2. req' = [req EXCEPT ![r] = l] /\ req \in [Requests -> Local]
    BY <1>7 DEF Inductive, TypeOK
  <2> HIDE DEF l
  <2>3. req'[r] = l /\ req' \in [Requests -> Local] /\ \A q \in Requests \ {r} : req'[q] = req[q]
    BY <2>1, <2>2
  <2>4. n <= Len(proposal[p].actions)
    BY DEF ExecuteAction, ActionsLeft
  <2>5. runs'[p] >= GatedUpTo(p, n)
    <3>1. n - 1 \in Nat /\ (n - 1) + 1 = n
      BY <1>3
    <3>2. /\ GatedUpTo(p, n - 1) \in Nat
          /\ GatedUpTo(p, n) = GatedUpTo(p, n - 1) + IF gated THEN 1 ELSE 0
      <4> HIDE DEF n
      <4>1. /\ GatedUpTo(p, n - 1) \in Nat
            /\ GatedUpTo(p, (n - 1) + 1) = GatedUpTo(p, n - 1)
                 + IF proposal[p].actions[(n - 1) + 1] \in Gated THEN 1 ELSE 0
        BY <3>1, GatedCount
      <4>2. QED
        BY <3>1, <4>1
    <3>3. runs'[p] = runs[p] + IF gated THEN 1 ELSE 0
      BY <1>3, <1>7 DEF Inductive, TypeOK
    <3>4. QED
      BY <1>3, <3>2, <3>3
  <2>6. \A q, m : GatedUpTo(q, m)' = GatedUpTo(q, m)
    BY <1>2 DEF GatedUpTo
  <2>7. /\ proposal' = proposal /\ approvals' = approvals
        /\ proposal[p].status # "none" /\ proposal[p].inc = req[r].inc
    BY <1>1, <1>2, InFlight
  <2>8. (req[r].next + 1) - 1 = n /\ n + 1 \in 1 .. (Len(proposal[p].actions) + 1)
    BY <1>3, <2>4
  <2>9. \A q, m : q = p /\ m = n => runs'[q] >= GatedUpTo(q, m)'
    BY <2>5, <2>6
  <2>10. runs'[p] >= GatedUpTo(req[r].pid, req[r].next - 1)'
    BY <2>1, <2>3, <2>8, <2>9
  <2>11. CallSound(r)'
    BY <1>3, <2>1, <2>3, <2>7, <2>8, <2>10 DEF CallSound, At, ProposalsOf
  <2>12. QED
    BY <1>2, <1>5, <2>3, <2>11, ControlInductive DEF Control
<1>8. QED
  BY <1>6, <1>7 DEF ExecuteAction

LEMMA ContinueControl ==
  ASSUME Inductive, Statement, NEW r \in Requests, ~At(r, "idle"),
         Justified(req[r].inc, req[r].to), Continue(r)
  PROVE  Control(r)
<1>1. CASE req[r].to = "REMEDIATION_PROPOSED"
  BY <1>1, LookControl DEF Continue
<1>2. CASE req[r].to = "REMEDIATION_EXECUTED"
  <2>1. Justified(req[r].inc, "RESOLVED") /\ "RESOLVED" \in Status
    BY <1>2 DEF Justified, Status
  <2>2. QED
    BY <1>2, <2>1, TransitionControl DEF Continue
<1>3. CASE req[r].to \notin {"REMEDIATION_PROPOSED", "REMEDIATION_EXECUTED"}
  BY <1>3, KnownTypes, ReturnControl DEF Continue
<1>4. QED
  BY <1>1, <1>2, <1>3

LEMMA ReadInductive ==
  ASSUME Inductive, NEW r \in Requests, TransitionRead(r)
  PROVE  Inductive'
<1> DEFINE i == req[r].inc
           to == req[r].to
<1>1. ~At(r, "idle") /\ Justified(i, to)
  BY InFlight DEF TransitionRead, At, CallSound
<1>2. Statement /\ (NoFault \/ Fault)
  BY KnownTypes, ReadsStatement DEF TransitionRead, Call
<1>3. CASE Continue(r)
  BY <1>1, <1>2, <1>3, ContinueControl, ControlInductive
<1>4. CASE ~Continue(r)
  <2>1. /\ Reads /\ CanTransition(status[i], to)
        /\ req' = [req EXCEPT ![r].pc = "update", ![r].seen = status[i]]
    BY <1>4 DEF TransitionRead, Call
  <2> DEFINE l == [req[r] EXCEPT !.pc = "update", !.seen = status[i]]
  <2>2. status[i] \in Status \cup {NoStatus}
    BY <1>1, InFlight, KnownTypes DEF StoreTypeOK
  <2>3. /\ l \in Local /\ l.pc = "update" /\ l.seen = status[i]
        /\ l.pid = req[r].pid /\ l.inc = i /\ l.to = to
    BY <1>1, <2>2, InFlight DEF Local
  <2>4. req' = [req EXCEPT ![r] = l] /\ req \in [Requests -> Local]
    BY <2>1 DEF Inductive, TypeOK
  <2> HIDE DEF l
  <2>5. req'[r] = l /\ req' \in [Requests -> Local] /\ \A q \in Requests \ {r} : req'[q] = req[q]
    BY <2>3, <2>4
  <2>6. proposal' = proposal /\ approvals' = approvals /\ runs' = runs
    BY <2>1 DEF Reads, propVars
  <2>7. \A j, s : Justified(j, s)' = Justified(j, s)
    BY <2>6 DEF Justified, ProposalsOf, GatedActions, GatedUpTo
  <2>8. \A j, s : j = i /\ s = to => Justified(j, s)'
    BY <1>1, <2>7
  <2>9. Justified(req[r].inc, req[r].to)'
    BY <2>3, <2>5, <2>8
  <2>10. CallSound(r)'
    BY <1>1, <2>1, <2>3, <2>5, <2>6, <2>9, InFlight DEF CallSound, At, ProposalsOf, CanTransition
  <2>11. QED
    BY <1>2, <2>5, <2>10, ControlInductive DEF Control
<1>5. QED
  BY <1>3, <1>4

LEMMA UpdateInductive ==
  ASSUME Inductive, NEW r \in Requests, TransitionUpdate(r)
  PROVE  Inductive'
<1> DEFINE i == req[r].inc
           to == req[r].to
<1>1. ~At(r, "idle") /\ Justified(i, to)
  BY InFlight DEF TransitionUpdate, At, CallSound
<1>2. (NoFault \/ Fault) /\ Continue(r)
  BY DEF TransitionUpdate, Call
<1>3. Reads \/ (SetStatus(i, req[r].seen, to) /\ UNCHANGED propVars)
  BY DEF TransitionUpdate, Call, TransitionWithEvent, Reads
<1>4. Statement
  BY <1>1, <1>3, InFlight, KnownTypes, ReadsStatement, SetStatusStatement
<1>5. QED
  BY <1>1, <1>2, <1>4, ContinueControl, ControlInductive

\* Crashes, intake and the worker.
LEMMA OthersInductive ==
  ASSUME Inductive
  PROVE  /\ \A r \in Requests : Abort(r) => Inductive'
         /\ \A i \in Incidents : Create(i) => Inductive'
         /\ \A i \in Incidents, to \in InvestigationTargets : Investigated(i, to) => Inductive'
<1>1. ASSUME NEW r \in Requests, Abort(r) PROVE Inductive'
  <2>1. Statement
    BY <1>1, KnownTypes, ReadsStatement DEF Abort, Reads
  <2>2. QED
    BY <1>1, <2>1, KnownTypes, ReturnControl, ControlInductive DEF Abort
<1>2. ASSUME NEW i \in Incidents, Create(i) PROVE Inductive'
  <2>1. Justified(i, "RECEIVED") /\ "RECEIVED" \in Status
    BY StatusFacts, FreeJustified DEF Free
  <2>2. Statement
    BY <1>2, <2>1, KnownTypes, SetStatusStatement DEF Create, CreateWithEvent
  <2>3. req' = req /\ faults' = faults
    BY <1>2 DEF Create
  <2>4. QED
    BY <2>2, <2>3, StepInductive DEF Inductive, TypeOK
<1>3. ASSUME NEW i \in Incidents, NEW to \in InvestigationTargets, Investigated(i, to) PROVE Inductive'
  <2>1. Justified(i, to) /\ to \in Status
    BY StatusFacts, FreeJustified DEF Free, InvestigationTargets
  <2>2. status[i] \in Status \cup {NoStatus}
    BY KnownTypes DEF StoreTypeOK
  <2>3. Statement
    BY <1>3, <2>1, <2>2, KnownTypes, SetStatusStatement DEF Investigated
  <2>4. req' = req /\ faults' = faults
    BY <1>3 DEF Investigated
  <2>5. QED
    BY <2>3, <2>4, StepInductive DEF Inductive, TypeOK
<1>4. QED
  BY <1>1, <1>2, <1>3

LEMMA RemediationInductive == Spec => []Inductive
<1>1. Init => Inductive
  <2>1. ASSUME Init PROVE TypeOK
    <3>1. NoProposal \in ProposalRow
      <4>1. (CHOOSE i \in Incidents : TRUE) \in Incidents
        OBVIOUS
      <4>2. QED
        BY <4>1 DEF NoProposal, ProposalRow
    <3>2. StoreTypeOK
      BY <2>1 DEF Init, StoreInit, StoreTypeOK
    <3>3. QED
      BY <2>1, <3>1, <3>2, IdleType DEF Init, TypeOK
  <2>2. ASSUME Init PROVE OutcomeJustified
    <3>1. \A i \in Incidents : Free(status[i])
      BY <2>2 DEF Init, StoreInit, Free, NoStatus
    <3>2. QED
      BY <3>1, FreeJustified DEF OutcomeJustified
  <2>3. ASSUME Init PROVE \A r \in Requests : CallSound(r)
    <3>1. Idle.pc = "idle"
      BY DEF Idle
    <3>2. QED
      BY <2>3, <3>1 DEF Init, CallSound, At
  <2>4. QED
    BY <2>1, <2>2, <2>3 DEF Inductive
<1>2. Inductive /\ Next => Inductive'
  BY ProposeInductive, LookInductive, DecideInductive, RecordInductive, MarkInductive,
     ExecuteInductive, ExecutedInductive, FailedInductive, ReadInductive, UpdateInductive,
     OthersInductive
     DEF Next
<1>3. Inductive /\ UNCHANGED vars => Inductive'
  <2> SUFFICES ASSUME Inductive, UNCHANGED vars PROVE Inductive'
    OBVIOUS
  <2>1. Statement /\ req' = req /\ faults' = faults
    BY KnownTypes, ReadsStatement DEF vars, Reads
  <2>2. QED
    BY <2>1, StepInductive DEF Inductive, TypeOK
<1>4. QED
  BY <1>1, <1>2, <1>3, PTL DEF Spec

\* Every row and every call in flight stays well formed, however many calls race
\* and fail.
THEOREM RemediationTypeOK == Spec => []TypeOK
BY RemediationInductive, PTL DEF Inductive

\* The audit trail explains where an incident ended (Approve, Reject and
\* executeActions of remediation/service.go): no incident is executed or resolved,
\* failed, or cancelled by a remediation without the recorded decision that led
\* there, and none is resolved before every gated tool of that proposal ran.
THEOREM OutcomesJustified == Spec => []OutcomeJustified
BY RemediationInductive, PTL DEF Inductive

-----------------------------------------------------------------------------
(* What the steps do to the incidents. *)

LEMMA NextStoreStep ==
  ASSUME Inductive, Next
  PROVE  LifecycleStep
<1>1. ASSUME NEW r \in Requests, TransitionUpdate(r) PROVE LifecycleStep
  <2> DEFINE i == req[r].inc
  <2>1. ~At(r, "idle") /\ At(r, "update")
    BY <1>1 DEF TransitionUpdate, At
  <2>2. i \in Incidents /\ req[r].to \in Status /\ CanTransition(req[r].seen, req[r].to)
    BY <2>1, InFlight DEF CallSound
  <2>3. UNCHANGED storeVars \/ (status[i] = req[r].seen /\ SetStatus(i, req[r].seen, req[r].to))
    BY <1>1 DEF TransitionUpdate, Call, TransitionWithEvent, Reads
  <2>4. QED
    BY <2>2, <2>3 DEF LifecycleStep
<1>2. ASSUME NEW i \in Incidents, NEW to \in InvestigationTargets, Investigated(i, to) PROVE LifecycleStep
  BY <1>2, StatusFacts DEF Investigated, InvestigationTargets, LifecycleStep
<1>3. ASSUME NEW i \in Incidents, Create(i) PROVE LifecycleStep
  BY <1>3 DEF Create, LifecycleStep
<1>4. CASE \/ \E r \in Requests : TransitionUpdate(r)
           \/ \E i \in Incidents : Create(i) \/ \E to \in InvestigationTargets : Investigated(i, to)
  BY <1>1, <1>2, <1>3, <1>4
<1>5. ASSUME NEW r \in Requests,
             \/ \E i \in Incidents, actions \in ActionLists : Propose(r, i, actions)
             \/ \E p \in Proposals, d \in Decision : Decide(r, p, d)
             \/ LookProposed(r) \/ LookWaiting(r) \/ RecordDecision(r) \/ Mark(r)
             \/ ExecuteAction(r) \/ Executed(r) \/ ExecutionFailed(r)
             \/ TransitionRead(r) \/ Abort(r)
      PROVE  UNCHANGED storeVars
  BY <1>5 DEF Propose, CreateProposal, Decide, LookProposed, LookWaiting, RecordDecision,
              CreateApproval, Mark, UpdateProposal, ExecuteAction, Executed, ExecutionFailed,
              TransitionRead, Abort, Call, Reads
<1>6. QED
  BY <1>4, <1>5 DEF Next, LifecycleStep

\* The incidents and their timelines, with any number of proposals, decisions,
\* failures and racing calls, behave as the abstract lifecycle says.
THEOREM RemediationImplementsLifecycle == Spec => ImplementsLifecycle
<1>1. Init => Lifecycle!Init
  BY StoreInitIsLifecycle DEF Init
<1>2. ASSUME Inductive, [Next]_vars PROVE [Lifecycle!Next]_(Lifecycle!vars)
  <2>1. ASSUME UNCHANGED vars PROVE LifecycleStep
    BY <2>1 DEF vars, LifecycleStep
  <2>2. QED
    BY <1>2, <2>1, NextStoreStep, StepIsLifecycle
<1>3. QED
  BY <1>1, <1>2, RemediationInductive, PTL DEF Spec, ImplementsLifecycle, Lifecycle!Spec

-----------------------------------------------------------------------------
(* How often gated tools run: each recorded approval pays for one run of    *)
(* each gated action, and the call that recorded it holds what is left.     *)

\* A call with these locals may still run the k-th action of p.
Holds(l, p, k) ==
    /\ l.pid = p
    /\ \/ l.pc = "mark" /\ l.decision = "approve"
       \/ l.pc = "execute" /\ k >= l.next

GatedOf(p) == {k \in 1..Len(proposal[p].actions) : proposal[p].actions[k] \in Gated}
Credit(p) == {c \in Requests \X GatedOf(p) : Holds(req[c[1]], p, c[2])}

Paid(p) == /\ IsFiniteSet(Credit(p))
           /\ Cardinality(Credit(p)) + runs[p] <= GatedActions(p) * approvals[p]["approve"]
           /\ proposal[p].status = "none" => runs[p] = 0

LEMMA GatedFinite ==
  ASSUME TypeOK, NEW p \in Proposals
  PROVE  IsFiniteSet(GatedOf(p)) /\ GatedActions(p) = Cardinality(GatedOf(p)) /\ GatedActions(p) \in Nat
<1>1. Len(proposal[p].actions) \in Nat
  BY DEF TypeOK, ProposalRow
<1>2. IsFiniteSet(1..Len(proposal[p].actions))
  BY <1>1, FS_Interval
<1>3. GatedOf(p) \subseteq 1..Len(proposal[p].actions)
  BY DEF GatedOf
<1>4. IsFiniteSet(GatedOf(p))
  BY <1>2, <1>3, FS_Subset
<1>5. GatedActions(p) = Cardinality(GatedOf(p))
  BY DEF GatedActions, GatedUpTo, GatedOf
<1>6. QED
  BY <1>4, <1>5, FS_CardinalityType

\* More approvals pay for more, one gated action each time.
LEMMA ApprovalPays ==
  ASSUME NEW g \in Nat, NEW m \in Nat, NEW n \in Nat, n >= m
  PROVE  g * m \in Nat /\ g * n \in Nat /\ g * n >= g * m /\ g * (m + 1) = g * m + g
<1>1. PICK d \in Nat : n = m + d
  <2>1. n - m \in Nat /\ n = m + (n - m)
    OBVIOUS
  <2>2. QED
    BY <2>1
<1>2. g * m \in Nat /\ g * d \in Nat /\ g * (m + d) = g * m + g * d /\ g * (m + 1) = g * m + g
  OBVIOUS
<1>3. QED
  BY <1>1, <1>2

\* A step in which p gains no credit and runs nothing.
LEMMA PaidStays ==
  ASSUME TypeOK, TypeOK', NEW p \in Proposals, Paid(p),
         Credit(p)' \subseteq Credit(p), runs'[p] = runs[p],
         proposal'[p].actions = proposal[p].actions,
         proposal'[p].status = "none" => proposal[p].status = "none",
         approvals'[p]["approve"] >= approvals[p]["approve"]
  PROVE  Paid(p)'
<1> DEFINE c == Cardinality(Credit(p))
           d == Cardinality(Credit(p)')
           g == GatedActions(p)
           a == approvals[p]["approve"]
           b == approvals'[p]["approve"]
<1>1. IsFiniteSet(Credit(p)') /\ d <= c /\ d \in Nat /\ c \in Nat
  BY FS_Subset, FS_CardinalityType DEF Paid
<1>2. g \in Nat /\ a \in Nat /\ b \in Nat /\ runs[p] \in Nat /\ b >= a
  BY GatedFinite DEF TypeOK, Decision
<1>3. GatedActions(p)' = g
  BY GatedKept DEF GatedActions
<1>4. c + runs[p] <= g * a
  BY DEF Paid
<1> HIDE DEF c, d, g, a, b
<1>5. g * a \in Nat /\ g * b \in Nat /\ g * b >= g * a
  BY <1>2, ApprovalPays
<1>6. d + runs[p] <= g * b
  BY <1>1, <1>2, <1>4, <1>5
<1>7. QED
  BY <1>1, <1>3, <1>6 DEF Paid, d, b

\* No call but r's changes, and r gains nothing.
Calm(r) ==
    /\ \A s \in Requests : s # r => req'[s] = req[s]
    /\ \A p \in Proposals, k \in Nat : Holds(req'[r], p, k) => Holds(req[r], p, k)

LEMMA CalmCredit ==
  ASSUME TypeOK, NEW r \in Requests, Calm(r), NEW p \in Proposals,
         proposal'[p].actions = proposal[p].actions
  PROVE  Credit(p)' \subseteq Credit(p)
<1>1. GatedOf(p)' = GatedOf(p) /\ GatedOf(p) \subseteq Nat
  <2>1. Len(proposal[p].actions) \in Nat
    BY DEF TypeOK, ProposalRow
  <2>2. QED
    BY <2>1 DEF GatedOf
<1>2. ASSUME NEW s \in Requests, NEW k \in GatedOf(p), Holds(req'[s], p, k)
      PROVE  Holds(req[s], p, k)
  BY <1>1, <1>2 DEF Calm
<1>3. Credit(p)' = {c \in Requests \X GatedOf(p) : Holds(req'[c[1]], p, c[2])}
  BY <1>1 DEF Credit, Holds
<1>4. QED
  BY <1>2, <1>3 DEF Credit

\* The control part of a step that leaves r without anything to mark or execute.
LEMMA AwayCalm ==
  ASSUME TypeOK, NEW r \in Requests,
         \/ Return(r) \/ \E to \in Status : Transition(r, to)
         \/ \E pc \in {"lookWaiting", "failed"} : Goto(r, pc)
  PROVE  Calm(r)
<1>1. \A s \in Requests : s # r => req'[s] = req[s]
  BY DEF TypeOK, Return, Transition, Goto
<1>2. req'[r].pc \in {"idle", "read", "lookWaiting", "failed"}
  <2>1. Idle.pc = "idle" /\ req[r] \in Local
    BY DEF Idle, TypeOK
  <2>2. CASE Return(r)
    <3>1. req'[r] = Idle
      BY <2>2 DEF Return, TypeOK
    <3>2. QED
      BY <2>1, <3>1
  <2>3. ASSUME NEW to \in Status, Transition(r, to) PROVE req'[r].pc = "read"
    <3>1. req' = [req EXCEPT ![r] = [req[r] EXCEPT !.pc = "read", !.to = to, !.seen = NoStatus]]
      BY <2>3 DEF Transition, TypeOK, Local
    <3>2. req'[r] = [req[r] EXCEPT !.pc = "read", !.to = to, !.seen = NoStatus]
      BY <3>1 DEF TypeOK
    <3>3. QED
      BY <2>1, <3>2 DEF Local
  <2>4. CASE \E pc \in {"lookWaiting", "failed"} : Goto(r, pc)
    BY <2>1, <2>4 DEF Goto, TypeOK, Local
  <2>5. QED
    BY <2>2, <2>3, <2>4
<1>3. QED
  BY <1>1, <1>2 DEF Calm, Holds

LEMMA UnionSmall ==
  ASSUME NEW S, IsFiniteSet(S), NEW T, IsFiniteSet(T), NEW U, U \subseteq S \cup T
  PROVE  /\ IsFiniteSet(U) /\ Cardinality(U) \in Nat
         /\ Cardinality(U) <= Cardinality(S) + Cardinality(T)
<1>1. /\ IsFiniteSet(S \cup T) /\ IsFiniteSet(S \cap T)
      /\ Cardinality(S \cup T) = Cardinality(S) + Cardinality(T) - Cardinality(S \cap T)
  BY FS_Union, FS_Intersection
<1>2. /\ Cardinality(S) \in Nat /\ Cardinality(T) \in Nat /\ Cardinality(S \cap T) \in Nat
      /\ Cardinality(S \cup T) \in Nat
  BY <1>1, FS_CardinalityType
<1>3. IsFiniteSet(U) /\ Cardinality(U) <= Cardinality(S \cup T) /\ Cardinality(U) \in Nat
  BY <1>1, FS_Subset, FS_CardinalityType
<1>4. QED
  BY <1>1, <1>2, <1>3

LEMMA TakeOne ==
  ASSUME NEW S, IsFiniteSet(S), NEW x \in S, NEW U, U \subseteq S \ {x}
  PROVE  IsFiniteSet(U) /\ Cardinality(U) \in Nat /\ Cardinality(U) <= Cardinality(S) - 1
<1>1. IsFiniteSet(S \ {x}) /\ Cardinality(S \ {x}) = Cardinality(S) - 1
  BY FS_RemoveElement
<1>2. QED
  BY <1>1, FS_Subset, FS_CardinalityType

LEMMA CalmPaid ==
  ASSUME TypeOK, TypeOK', NEW r \in Requests, Calm(r), UNCHANGED runs,
         \A p \in Proposals : Paid(p),
         \A p \in Proposals : /\ proposal'[p].actions = proposal[p].actions
                              /\ proposal'[p].status = "none" => proposal[p].status = "none"
                              /\ approvals'[p]["approve"] >= approvals[p]["approve"]
  PROVE  \A p \in Proposals : Paid(p)'
BY CalmCredit, PaidStays

\* What a step may do to the proposals when it runs no action and creates no proposal.
Kept == \/ UNCHANGED <<proposal, approvals>>
        \/ \E p \in Proposals, d \in Decision : CreateApproval(p, d)
        \/ \E p \in Proposals, s \in {"approved", "rejected", "executed", "failed"} : UpdateProposal(p, s)

LEMMA KeptFacts ==
  ASSUME TypeOK, Kept, NEW p \in Proposals
  PROVE  /\ proposal'[p].actions = proposal[p].actions
         /\ proposal'[p].status = "none" => proposal[p].status = "none"
         /\ approvals'[p]["approve"] >= approvals[p]["approve"]
<1>0. proposal[p] \in ProposalRow /\ approvals[p]["approve"] \in Nat
  BY DEF TypeOK, Decision
<1>1. CASE UNCHANGED <<proposal, approvals>>
  BY <1>0, <1>1
<1>2. ASSUME NEW q \in Proposals, NEW d \in Decision, CreateApproval(q, d)
      PROVE  UNCHANGED proposal /\ approvals'[p]["approve"] >= approvals[p]["approve"]
  BY <1>0, <1>2 DEF CreateApproval, TypeOK, Decision
<1>3. ASSUME NEW q \in Proposals, NEW s \in {"approved", "rejected", "executed", "failed"},
             UpdateProposal(q, s)
      PROVE  /\ UNCHANGED approvals
             /\ proposal'[p].actions = proposal[p].actions
             /\ proposal'[p].status = "none" => proposal[p].status = "none"
  BY <1>0, <1>3 DEF UpdateProposal, TypeOK, ProposalRow
<1>4. QED
  BY <1>0, <1>1, <1>2, <1>3 DEF Kept

\* A decision to approve is recorded: the call may run every gated action once.
LEMMA ApprovalPaid ==
  ASSUME Inductive, TypeOK', \A p \in Proposals : Paid(p), NEW r \in Requests, At(r, "record"),
         req[r].decision = "approve", CreateApproval(req[r].pid, "approve"), Goto(r, "mark")
  PROVE  \A p \in Proposals : Paid(p)'
<1>0. TypeOK
  BY DEF Inductive
<1>q. PICK q \in Proposals : req[r].pid = q
  BY <1>0 DEF TypeOK, Local
<1>1. /\ \A s \in Requests : s # r => req'[s] = req[s]
      /\ req'[r].pid = q /\ req'[r].pc = "mark"
  BY <1>0, <1>q DEF Goto, TypeOK, Local
<1>2. UNCHANGED <<proposal, runs>> /\ \A p : GatedOf(p)' = GatedOf(p)
  BY DEF CreateApproval, GatedOf
<1>3. ASSUME NEW p \in Proposals, p # q PROVE Paid(p)'
  <2>1. approvals'[p]["approve"] = approvals[p]["approve"]
    BY <1>0, <1>q, <1>3 DEF CreateApproval, TypeOK, Decision
  <2>2. Credit(p)' \subseteq Credit(p)
    BY <1>1, <1>2, <1>3 DEF Credit, Holds
  <2>3. approvals[p]["approve"] \in Nat
    BY <1>0 DEF TypeOK, Decision
  <2>4. QED
    BY <1>0, <1>2, <2>1, <2>2, <2>3, PaidStays
<1>4. Paid(q)'
  <2> DEFINE new == {r} \X GatedOf(q)
             g == GatedActions(q)
             a == approvals[q]["approve"]
             c == Cardinality(Credit(q))
             d == Cardinality(Credit(q)')
             n == runs[q]
  <2>1. IsFiniteSet(new) /\ Cardinality(new) = g /\ g \in Nat
    <3>1. IsFiniteSet({r}) /\ Cardinality({r}) = 1
      BY FS_Singleton
    <3>2. IsFiniteSet(GatedOf(q)) /\ g = Cardinality(GatedOf(q)) /\ g \in Nat
      BY <1>0, GatedFinite
    <3>3. IsFiniteSet(new) /\ Cardinality(new) = 1 * g
      BY <3>1, <3>2, FS_Product
    <3>4. QED
      BY <3>2, <3>3
  <2>2. Credit(q)' \subseteq Credit(q) \cup new
    BY <1>1, <1>2 DEF Credit, Holds
  <2>3. IsFiniteSet(Credit(q)) /\ c \in Nat /\ c + n <= g * a
    BY <1>0, FS_CardinalityType DEF Paid
  <2>4. IsFiniteSet(Credit(q)') /\ d <= c + g /\ d \in Nat
    BY <2>1, <2>2, <2>3, UnionSmall
  <2>5. approvals'[q]["approve"] = a + 1 /\ a \in Nat /\ n \in Nat
    BY <1>0, <1>q DEF CreateApproval, TypeOK, Decision
  <2>6. GatedActions(q)' = g
    BY <1>2, GatedKept DEF GatedActions
  <2> HIDE DEF g, a, c, d, n
  <2>7. g * a \in Nat /\ g * (a + 1) = g * a + g
    BY <2>1, <2>5, ApprovalPays
  <2>8. d + n <= g * (a + 1)
    BY <2>1, <2>3, <2>4, <2>5, <2>7
  <2>9. QED
    BY <1>2, <2>4, <2>5, <2>6, <2>8, <2>3 DEF d, n, Paid
<1>5. QED
  BY <1>3, <1>4

\* An action was executed, or failed: what the call may still run is one less.
LEMMA ExecutePaid ==
  ASSUME Inductive, TypeOK', \A p \in Proposals : Paid(p), NEW r \in Requests, ExecuteAction(r)
  PROVE  \A p \in Proposals : Paid(p)'
<1>0. TypeOK
  BY DEF Inductive
<1>q. PICK q \in Proposals : req[r].pid = q
  BY <1>0 DEF TypeOK, Local
<1> DEFINE k == req[r].next
<1>1. /\ k \in 1..Len(proposal[q].actions) /\ Len(proposal[q].actions) \in Nat /\ k \in Nat
      /\ req[r].pc = "execute"
  <2>1. At(r, "execute") /\ k <= Len(proposal[q].actions)
    BY <1>q DEF ExecuteAction, ActionsLeft
  <2>2. k \in 1..(Len(proposal[q].actions) + 1)
    BY <1>q, <2>1 DEF Inductive, CallSound, At
  <2>3. Len(proposal[q].actions) \in Nat
    BY <1>0 DEF TypeOK, ProposalRow
  <2>4. QED
    BY <2>1, <2>2, <2>3 DEF At
<1>2. UNCHANGED <<proposal, approvals>> /\ \A p : GatedOf(p)' = GatedOf(p)
  BY DEF ExecuteAction, GatedOf
<1>3. \A s \in Requests : s # r => req'[s] = req[s]
  BY <1>0 DEF ExecuteAction, Goto, TypeOK
<1>4. /\ req'[r].pid = q
      /\ \/ req'[r].pc = "execute" /\ req'[r].next = k + 1
         \/ req'[r].pc = "failed"
  <2>1. \/ req' = [req EXCEPT ![r] = [req[r] EXCEPT !.next = k + 1]]
        \/ req' = [req EXCEPT ![r] = [req[r] EXCEPT !.pc = "failed"]]
    BY <1>0 DEF ExecuteAction, Goto, TypeOK, Local
  <2>2. \/ req'[r] = [req[r] EXCEPT !.next = k + 1]
        \/ req'[r] = [req[r] EXCEPT !.pc = "failed"]
    BY <1>0, <2>1 DEF TypeOK
  <2>3. QED
    BY <1>0, <1>1, <1>q, <2>2 DEF TypeOK, Local
<1>5. \A p \in Proposals : p # q => runs'[p] = runs[p]
  BY <1>0, <1>q DEF ExecuteAction, TypeOK
<1>6. \/ runs'[q] = runs[q] \/ (k \in GatedOf(q) /\ runs'[q] = runs[q] + 1)
  BY <1>0, <1>1, <1>q DEF ExecuteAction, TypeOK, GatedOf
<1>7. \A j \in Nat : Holds(req'[r], q, j) => Holds(req[r], q, j) /\ j # k
  BY <1>1, <1>4, <1>q DEF Holds
<1>8. GatedOf(q) \subseteq Nat
  BY <1>1 DEF GatedOf
<1>9. ASSUME NEW p \in Proposals, p # q PROVE Paid(p)'
  <2>1. Credit(p)' \subseteq Credit(p)
    BY <1>2, <1>3, <1>4, <1>9 DEF Credit, Holds
  <2>2. approvals[p]["approve"] \in Nat
    BY <1>0 DEF TypeOK, Decision
  <2>3. QED
    BY <1>0, <1>2, <1>5, <1>9, <2>1, <2>2, PaidStays
<1>10. Credit(q)' \subseteq Credit(q) \ {<<r, k>>}
  <2>1. Credit(q)' = {c \in Requests \X GatedOf(q) : Holds(req'[c[1]], q, c[2])}
    BY <1>2 DEF Credit, Holds
  <2>2. QED
    BY <1>3, <1>7, <1>8, <2>1 DEF Credit
<1>11. CASE runs'[q] = runs[q]
  <2>1. approvals[q]["approve"] \in Nat
    BY <1>0 DEF TypeOK, Decision
  <2>2. Paid(q)'
    BY <1>0, <1>2, <1>10, <1>11, <2>1, PaidStays
  <2>3. QED
    BY <1>9, <2>2
<1>12. CASE k \in GatedOf(q) /\ runs'[q] = runs[q] + 1
  <2>1. <<r, k>> \in Credit(q)
    BY <1>1, <1>12, <1>q DEF Credit, Holds
  <2> DEFINE C == Credit(q)
             D == Credit(q)'
             x == <<r, k>>
             n == runs[q]
             b == GatedActions(q) * approvals[q]["approve"]
  <2>2. /\ IsFiniteSet(C) /\ Cardinality(C) + n <= b /\ n \in Nat /\ b \in Nat
        /\ x \in C /\ D \subseteq C \ {x}
    <3>1. GatedActions(q) \in Nat /\ approvals[q]["approve"] \in Nat
      BY <1>0, GatedFinite DEF TypeOK, Decision
    <3>2. b \in Nat
      BY <3>1
    <3>3. QED
      BY <1>0, <1>10, <2>1, <3>2 DEF Paid, TypeOK
  <2> HIDE DEF C, D, x, n, b
  <2>3. IsFiniteSet(D) /\ Cardinality(D) \in Nat /\ Cardinality(D) <= Cardinality(C) - 1
    BY <2>2, TakeOne
  <2>4. Cardinality(D) + (n + 1) <= b
    <3>1. Cardinality(C) \in Nat
      BY <2>2, FS_CardinalityType
    <3>2. QED
      BY <2>2, <2>3, <3>1
  <2>5. GatedActions(q)' = GatedActions(q)
    BY <1>2, GatedKept DEF GatedActions
  <2>6. proposal'[q].status # "none"
    <3>1. q \in ProposalsOf(req[r].inc)
      BY <1>1, <1>q DEF Inductive, CallSound, At
    <3>2. QED
      BY <1>2, <3>1 DEF ProposalsOf
  <2>7. Paid(q)'
    BY <1>2, <1>12, <2>3, <2>4, <2>5, <2>6 DEF Paid, D, n, b
  <2>8. QED
    BY <1>9, <2>7
<1>13. QED
  BY <1>6, <1>11, <1>12

\* A new proposal has no approvals, and no call works on it yet.
LEMMA ProposePaid ==
  ASSUME Inductive, TypeOK', \A p \in Proposals : Paid(p), NEW r \in Requests,
         NEW q \in Proposals, NEW i, NEW actions, CreateProposal(q, i, actions),
         Calm(r)
  PROVE  \A p \in Proposals : Paid(p)'
<1>0. TypeOK
  BY DEF Inductive
<1>1. UNCHANGED <<approvals, runs>> /\ \A p \in Proposals : p # q => proposal'[p] = proposal[p]
  BY <1>0 DEF CreateProposal, TypeOK
<1>2. ASSUME NEW p \in Proposals, p # q PROVE Paid(p)'
  <2>1. Credit(p)' \subseteq Credit(p)
    BY <1>0, <1>1, <1>2, CalmCredit
  <2>2. approvals[p]["approve"] \in Nat
    BY <1>0 DEF TypeOK, Decision
  <2>3. QED
    BY <1>0, <1>1, <1>2, <2>1, <2>2, PaidStays
<1>3. \A s \in Requests, k \in Nat : ~Holds(req[s], q, k)
  <2>1. proposal[q].status = "none"
    BY DEF CreateProposal
  <2>2. QED
    BY <2>1 DEF Inductive, CallSound, At, ProposalsOf, Holds
<1>4. Credit(q)' = {}
  <2>1. \A s \in Requests, k \in Nat : ~Holds(req'[s], q, k)
    BY <1>3 DEF Calm
  <2>2. Len(proposal'[q].actions) \in Nat
    BY DEF TypeOK, ProposalRow
  <2>3. GatedOf(q)' \subseteq Nat
    BY <2>2 DEF GatedOf
  <2>4. QED
    BY <2>1, <2>3 DEF Credit, Holds
<1>5. Paid(q)'
  <2>1. runs'[q] = 0
    BY <1>1 DEF Paid, CreateProposal
  <2>2. IsFiniteSet(Credit(q)') /\ Cardinality(Credit(q)') = 0
    BY <1>4, FS_EmptySet
  <2>3. GatedActions(q)' \in Nat /\ approvals'[q]["approve"] \in Nat
    <3>1. Len(proposal'[q].actions) \in Nat
      BY DEF TypeOK, ProposalRow
    <3>2. IsFiniteSet(1..Len(proposal'[q].actions))
      BY <3>1, FS_Interval
    <3>3. {k \in 1..Len(proposal'[q].actions) : proposal'[q].actions[k] \in Gated}
             \subseteq 1..Len(proposal'[q].actions)
      OBVIOUS
    <3>4. GatedActions(q)' \in Nat
      BY <3>2, <3>3, FS_Subset, FS_CardinalityType DEF GatedActions, GatedUpTo
    <3>5. QED
      BY <3>4 DEF TypeOK, Decision
  <2>4. GatedActions(q)' * approvals'[q]["approve"] >= 0
    BY <2>3
  <2>5. QED
    BY <2>1, <2>2, <2>4 DEF Paid
<1>6. QED
  BY <1>2, <1>5

\* Nor does a call earn anything on its way to record, to look or to update, or when it
\* goes from marking to executing.
LEMMA OnwardCalm ==
  ASSUME TypeOK, NEW r \in Requests, NEW l,
         req' = [req EXCEPT ![r] = l],
         \/ l.pc \in {"lookProposed", "record", "update"}
         \/ l.pc = "mark" /\ l.decision = "reject"
         \/ l.pc = "execute" /\ l.pid = req[r].pid /\ At(r, "mark") /\ req[r].decision = "approve"
  PROVE  Calm(r)
<1>1. req'[r] = l /\ \A s \in Requests : s # r => req'[s] = req[s]
  BY DEF TypeOK
<1>2. QED
  BY <1>1 DEF Calm, Holds, At

LEMMA PaidStep ==
  ASSUME Inductive, Inductive', \A p \in Proposals : Paid(p), [Next]_vars
  PROVE  \A p \in Proposals : Paid(p)'
<1>0. TypeOK /\ TypeOK'
  BY DEF Inductive
<1>1. ASSUME NEW r \in Requests, Calm(r), Kept, UNCHANGED runs PROVE \A p \in Proposals : Paid(p)'
  BY <1>0, <1>1, CalmPaid, KeptFacts
<1>2. ASSUME NEW r \in Requests, NEW i \in Incidents, NEW actions \in ActionLists, Propose(r, i, actions)
      PROVE  \A p \in Proposals : Paid(p)'
  <2>1. PICK p \in Proposals :
            /\ CreateProposal(p, i, actions) \/ Reads
            /\ \/ req' = [req EXCEPT ![r].pc = "lookProposed", ![r].inc = i, ![r].pid = p]
               \/ Return(r)
    BY <1>2 DEF Propose, Call
  <2>2. CASE Return(r)
    <3>1. Calm(r)
      BY <1>0, <2>2, AwayCalm
    <3>2. QED
      BY <1>0, <1>1, <2>1, <3>1, ProposePaid DEF Kept, Reads, propVars
  <2>3. CASE req' = [req EXCEPT ![r].pc = "lookProposed", ![r].inc = i, ![r].pid = p]
    <3> DEFINE l == [req[r] EXCEPT !.pc = "lookProposed", !.inc = i, !.pid = p]
    <3>1. req' = [req EXCEPT ![r] = l] /\ l.pc = "lookProposed"
      BY <1>0, <2>3 DEF TypeOK, Local
    <3> HIDE DEF l
    <3>2. Calm(r)
      BY <1>0, <3>1, OnwardCalm
    <3>3. QED
      BY <1>0, <1>1, <2>1, <3>2, ProposePaid DEF Kept, Reads, propVars
  <2>4. QED
    BY <2>1, <2>2, <2>3
<1>3. ASSUME NEW r \in Requests, LookProposed(r) \/ LookWaiting(r) \/ Executed(r) \/ ExecutionFailed(r) \/ Abort(r)
      PROVE  \A p \in Proposals : Paid(p)'
  <2>1. \/ Return(r) \/ \E to \in Status : Transition(r, to) \/ Goto(r, "lookWaiting")
    BY <1>3 DEF LookProposed, LookWaiting, Executed, ExecutionFailed, Abort, Call, Status
  <2>2. Calm(r)
    BY <1>0, <2>1, AwayCalm
  <2>3. req[r].pid \in Proposals
    BY <1>0 DEF TypeOK, Local
  <2>4. Kept /\ UNCHANGED runs
    BY <1>3, <2>3 DEF LookProposed, LookWaiting, Executed, ExecutionFailed, Abort, Call, Kept,
                      Reads, propVars, UpdateProposal
  <2>5. QED
    BY <1>1, <2>2, <2>4
<1>4. ASSUME NEW r \in Requests, NEW p \in Proposals, NEW d \in Decision, Decide(r, p, d)
      PROVE  \A q \in Proposals : Paid(q)'
  <2> DEFINE l == [req[r] EXCEPT !.pc = "record", !.inc = proposal[p].inc, !.pid = p, !.decision = d]
  <2>1. req' = [req EXCEPT ![r] = l] /\ l.pc = "record"
    BY <1>0, <1>4 DEF Decide, TypeOK, Local
  <2> HIDE DEF l
  <2>2. Calm(r)
    BY <1>0, <2>1, OnwardCalm
  <2>3. QED
    BY <1>1, <1>4, <2>2 DEF Decide, Kept, propVars
<1>5. ASSUME NEW r \in Requests, RecordDecision(r) PROVE \A p \in Proposals : Paid(p)'
  <2>1. req[r] \in Local /\ req[r].pid \in Proposals /\ req[r].decision \in Decision
    BY <1>0 DEF TypeOK, Local
  <2>2. Kept /\ UNCHANGED runs
    BY <1>5, <2>1 DEF RecordDecision, Call, CreateApproval, Kept, Reads, propVars
  <2>3. CASE Return(r)
    BY <1>0, <1>1, <2>2, <2>3, AwayCalm
  <2>4. CASE CreateApproval(req[r].pid, req[r].decision) /\ Goto(r, "mark")
    <3>1. CASE req[r].decision = "approve"
      BY <1>0, <1>5, <2>4, <3>1, ApprovalPaid DEF RecordDecision
    <3>2. CASE req[r].decision = "reject"
      <4> DEFINE l == [req[r] EXCEPT !.pc = "mark"]
      <4>1. req' = [req EXCEPT ![r] = l] /\ l.pc = "mark" /\ l.decision = "reject"
        BY <1>0, <2>1, <2>4, <3>2 DEF Goto, TypeOK, Local
      <4> HIDE DEF l
      <4>2. Calm(r)
        BY <1>0, <4>1, OnwardCalm
      <4>3. QED
        BY <1>1, <2>2, <4>2
    <3>3. QED
      BY <2>1, <3>1, <3>2 DEF Decision
  <2>5. QED
    BY <1>5, <2>3, <2>4 DEF RecordDecision, Call
<1>6. ASSUME NEW r \in Requests, Mark(r) PROVE \A p \in Proposals : Paid(p)'
  <2>1. req[r] \in Local /\ req[r].pid \in Proposals
    BY <1>0 DEF TypeOK, Local
  <2>2. Kept /\ UNCHANGED runs
    BY <1>6, <2>1 DEF Mark, Call, UpdateProposal, Kept, Reads, propVars
  <2>3. CASE Return(r) \/ Transition(r, "CANCELLED")
    BY <1>0, <1>1, <2>2, <2>3, AwayCalm DEF Status
  <2>4. CASE /\ At(r, "mark") /\ req[r].decision = "approve"
             /\ req' = [req EXCEPT ![r].pc = "execute", ![r].next = 1]
    <3> DEFINE l == [req[r] EXCEPT !.pc = "execute", !.next = 1]
    <3>1. req' = [req EXCEPT ![r] = l] /\ l.pc = "execute" /\ l.pid = req[r].pid
      BY <1>0, <2>1, <2>4 DEF TypeOK, Local
    <3> HIDE DEF l
    <3>2. Calm(r)
      BY <1>0, <2>4, <3>1, OnwardCalm
    <3>3. QED
      BY <1>1, <2>2, <3>2
  <2>5. QED
    BY <1>6, <2>3, <2>4 DEF Mark, Call
<1>7. ASSUME NEW r \in Requests, TransitionRead(r) \/ TransitionUpdate(r) PROVE \A p \in Proposals : Paid(p)'
  <2>1. Kept /\ UNCHANGED runs
    BY <1>7 DEF TransitionRead, TransitionUpdate, Call, Kept, Reads, propVars
  <2>2. CASE Continue(r)
    <3>1. \/ Return(r) \/ \E to \in Status : Transition(r, to) \/ Goto(r, "lookWaiting")
      BY <2>2 DEF Continue, Status
    <3>2. QED
      BY <1>0, <1>1, <2>1, <3>1, AwayCalm
  <2>3. CASE \E current : req' = [req EXCEPT ![r].pc = "update", ![r].seen = current]
    <3>1. PICK current : req' = [req EXCEPT ![r].pc = "update", ![r].seen = current]
      BY <2>3
    <3> DEFINE l == [req[r] EXCEPT !.pc = "update", !.seen = current]
    <3>2. req' = [req EXCEPT ![r] = l] /\ l.pc = "update"
      BY <1>0, <3>1 DEF TypeOK, Local
    <3> HIDE DEF l
    <3>3. Calm(r)
      BY <1>0, <3>2, OnwardCalm
    <3>4. QED
      BY <1>1, <2>1, <3>3
  <2>4. QED
    BY <1>7, <2>2, <2>3 DEF TransitionRead, TransitionUpdate, Call
<1>8. CASE UNCHANGED <<propVars, req>>
  BY <1>8 DEF propVars, Paid, Credit, GatedOf, Holds, GatedActions, GatedUpTo
<1>9. QED
  BY <1>2, <1>3, <1>4, <1>5, <1>6, <1>7, <1>8, ExecutePaid, <1>0
     DEF Next, Create, Investigated, vars

\* However many approvals race, fail and are abandoned, a tool that requires approval
\* runs at most once for each recorded approval of its proposal.
THEOREM GatedRunsApproved == Spec => []GatedRunApproved
<1>1. Init => \A p \in Proposals : Paid(p)
  <2> SUFFICES ASSUME Init, NEW p \in Proposals PROVE Paid(p)
    OBVIOUS
  <2>1. \A r \in Requests : req[r].pc = "idle"
    BY DEF Init, Idle
  <2>2. Credit(p) = {}
    BY <2>1 DEF Credit, Holds
  <2>3. runs[p] = 0 /\ approvals[p]["approve"] = 0 /\ proposal[p].actions = <<>>
    BY DEF Init, Decision, NoProposal
  <2>4. GatedActions(p) = 0
    <3>1. Len(proposal[p].actions) = 0
      BY <2>3
    <3>2. QED
      BY <3>1, GatedCount DEF GatedActions
  <2>5. QED
    BY <2>2, <2>3, <2>4, FS_EmptySet DEF Paid
<1>2. Inductive /\ Inductive' /\ (\A p \in Proposals : Paid(p)) /\ [Next]_vars
      => (\A p \in Proposals : Paid(p))'
  BY PaidStep
<1>3. Inductive /\ (\A p \in Proposals : Paid(p)) => GatedRunApproved
  <2> SUFFICES ASSUME Inductive, NEW p \in Proposals, Paid(p)
               PROVE  runs[p] <= GatedActions(p) * approvals[p]["approve"]
    BY DEF GatedRunApproved
  <2>1. TypeOK
    BY DEF Inductive
  <2>2. GatedActions(p) \in Nat /\ approvals[p]["approve"] \in Nat /\ runs[p] \in Nat
    BY <2>1, GatedFinite DEF TypeOK, Decision
  <2>3. GatedActions(p) * approvals[p]["approve"] \in Nat
    BY <2>2
  <2>4. Cardinality(Credit(p)) \in Nat
    BY FS_CardinalityType DEF Paid
  <2>5. QED
    BY <2>2, <2>3, <2>4 DEF Paid
<1>4. QED
  BY <1>1, <1>2, <1>3, RemediationInductive, PTL DEF Spec

=============================================================================
