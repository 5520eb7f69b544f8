--------------------------- MODULE OpsPilotProofs ---------------------------
(***************************************************************************)
(* Safety of the workers and the remediation service on one database, for  *)
(* any number of incidents, workers, operators and proposals, and for any  *)
(* number of crashes and shutdowns.                                        *)
(***************************************************************************)
EXTENDS OpsPilot, TLAPS

USE OpsPilotAssumption

Slots == Workers \cup Operators

-----------------------------------------------------------------------------
(***************************************************************************)
(* Calls of the remediation service.  What a call in flight is about to do *)
(* is one of two things, and each round trip leaves it at that.            *)
(***************************************************************************)

Settled == {"REMEDIATION_EXECUTED", "FAILED", "CANCELLED"}

Moving(l) == l.pc \in {"read", "update"}

\* A call of Approve or Reject.
Deciding(l) ==
    l.pc \in {"record", "mark", "execute", "failed"}
    \/ (Moving(l) /\ l.to \in Settled \cup {"RESOLVED"})

\* A call that has marked its proposal, and will take an incident that waits for
\* approval out of that status.
Settling(l) ==
    l.pc \in {"execute", "failed"}
    \/ (l.pc = "read" /\ l.to \in Settled)
    \/ (l.pc = "update" /\ l.to \in Settled /\ l.seen = "WAITING_FOR_APPROVAL")

\* What a call in slot r may look like.
CallOK(r, l) ==
    /\ l \in Service!Local
    /\ l.pc = "idle" \/ Proposing(l) \/ (Deciding(l) /\ r \in Operators)
    /\ l.pc = "update" => Service!CanTransition(l.seen, l.to)

ServiceTypes ==
    /\ status \in [Incidents -> Lifecycle!Status \cup {Lifecycle!NoStatus}]
    /\ proposal \in [Proposals -> Service!ProposalRow]
    /\ req \in [Slots -> Service!Local]
    /\ faults = 0
    /\ \A r \in Slots : CallOK(r, req[r])

\* The two components and the abstract lifecycle name the same statuses.
LEMMA SameStatus ==
    /\ Service!Status = Lifecycle!Status /\ Worker!Status = Lifecycle!Status
    /\ Service!NoStatus = Lifecycle!NoStatus /\ Worker!NoStatus = Lifecycle!NoStatus
    /\ Lifecycle!NoStatus = "none"
    /\ "WAITING_FOR_APPROVAL" \in Lifecycle!Status /\ "none" \notin Lifecycle!Status
BY DEF Service!Status, Lifecycle!Status, Worker!Status, Service!NoStatus, Lifecycle!NoStatus,
       Worker!NoStatus

\* An idle slot is well formed.
LEMMA IdleOK == \A r \in Slots : CallOK(r, Service!Idle) /\ Service!Idle.pc = "idle"
<1>1. (CHOOSE i \in Incidents : TRUE) \in Incidents /\ (CHOOSE p \in Proposals : TRUE) \in Proposals
  OBVIOUS
<1>2. Service!Idle \in Service!Local /\ Service!Idle.pc = "idle"
  BY <1>1 DEF Service!Idle, Service!Local, Service!Decision, Service!Status, Service!NoStatus
<1>3. QED
  BY <1>2 DEF CallOK

\* The tables a call may change, and how: its own move of the incident, or its own mark.
Moves(l) ==
    /\ l.pc = "update" /\ status[l.inc] = l.seen
    /\ status' = [status EXCEPT ![l.inc] = l.to]
    /\ timeline' = [timeline EXCEPT ![l.inc] = Append(@, [from |-> l.seen, to |-> l.to])]
    /\ UNCHANGED proposal

Marks(l, m) ==
    /\ Deciding(l) /\ Settling(m)
    /\ \E s \in {"approved", "rejected", "executed", "failed"} :
          proposal' = [proposal EXCEPT ![l.pid].status = s]
    /\ UNCHANGED <<status, timeline>>

\* One round trip of the call in slot r.
Turn(r) ==
    LET l == req[r]
        m == req'[r]
    IN /\ req' = [req EXCEPT ![r] = m] /\ l.pc # "idle" /\ UNCHANGED faults
       /\ CallOK(r, m)
       /\ \/ m.pc = "idle"
          \/ m.inc = l.inc /\ m.pid = l.pid /\ (Proposing(l) <=> Proposing(m))
       /\ UNCHANGED <<status, timeline, proposal>> \/ Moves(l) \/ Marks(l, m)
       /\ status[l.inc] = "WAITING_FOR_APPROVAL" /\ Settling(l)
             => Settling(m) \/ status'[l.inc] # "WAITING_FOR_APPROVAL"

\* The ways a call goes on.
LEMMA GotoIs ==
  ASSUME ServiceTypes, NEW r \in Slots, Service!Goto(r, "lookWaiting") \/ Service!Goto(r, "mark")
                                         \/ Service!Goto(r, "failed")
  PROVE  /\ req' = [req EXCEPT ![r] = req'[r]] /\ req'[r] \in Service!Local
         /\ req'[r].inc = req[r].inc /\ req'[r].pid = req[r].pid
         /\ Service!Goto(r, "lookWaiting") => req'[r].pc = "lookWaiting"
         /\ Service!Goto(r, "mark") => req'[r].pc = "mark"
         /\ Service!Goto(r, "failed") => req'[r].pc = "failed"
<1>1. \E pc \in {"lookWaiting", "mark", "failed"} : req' = [req EXCEPT ![r].pc = pc]
  BY DEF Service!Goto
<1>2. req[r] \in Service!Local /\ req \in [Slots -> Service!Local]
  BY DEF ServiceTypes
<1>3. PICK pc \in {"lookWaiting", "mark", "failed"} : req' = [req EXCEPT ![r].pc = pc]
  BY <1>1
<1>4. req'[r] = [req[r] EXCEPT !.pc = pc] /\ req' = [req EXCEPT ![r] = req'[r]]
  BY <1>2, <1>3
<1>5. [req[r] EXCEPT !.pc = pc] \in Service!Local
  BY <1>2 DEF Service!Local
<1>6. /\ req'[r].inc = req[r].inc /\ req'[r].pid = req[r].pid /\ req'[r].pc = pc
  BY <1>2, <1>4 DEF Service!Local
<1>7. \A q : Service!Goto(r, q) => req'[r].pc = q
  BY <1>2 DEF Service!Goto, Service!Local
<1>8. QED
  BY <1>4, <1>5, <1>6, <1>7

\* The call turns to a transition.
LEMMA TransitionIs ==
  ASSUME ServiceTypes, NEW r \in Slots, NEW to \in Service!Status, Service!Transition(r, to)
  PROVE  /\ req' = [req EXCEPT ![r] = req'[r]] /\ req'[r] \in Service!Local
         /\ req'[r].inc = req[r].inc /\ req'[r].pid = req[r].pid
         /\ req'[r].pc = "read" /\ req'[r].to = to
<1>1. req[r] \in Service!Local /\ req \in [Slots -> Service!Local]
  BY DEF ServiceTypes
<1> DEFINE l == [req[r] EXCEPT !.pc = "read", !.to = to, !.seen = Service!NoStatus]
<1>2. l \in Service!Local /\ l.inc = req[r].inc /\ l.pid = req[r].pid /\ l.pc = "read" /\ l.to = to
  BY <1>1 DEF Service!Local
<1>3. req' = [req EXCEPT ![r] = l]
  BY <1>1 DEF Service!Transition
<1> HIDE DEF l
<1>4. QED
  BY <1>1, <1>2, <1>3

\* The call is over.
LEMMA ReturnIs ==
  ASSUME ServiceTypes, NEW r \in Slots, Service!Return(r)
  PROVE  req' = [req EXCEPT ![r] = req'[r]] /\ req'[r] = Service!Idle
BY DEF ServiceTypes, Service!Return

\* After a transition, whatever became of it, the call goes on as it was.
LEMMA ContinueIs ==
  ASSUME ServiceTypes, NEW r \in Slots, Moving(req[r]), Service!Continue(r)
  PROVE  /\ req' = [req EXCEPT ![r] = req'[r]] /\ CallOK(r, req'[r])
         /\ \/ req'[r].pc = "idle"
            \/ /\ req'[r].inc = req[r].inc /\ req'[r].pid = req[r].pid
               /\ Proposing(req[r]) <=> Proposing(req'[r])
<1> DEFINE to == req[r].to
<1>0. CallOK(r, req[r])
  BY DEF ServiceTypes
<1>1. CASE to = "REMEDIATION_PROPOSED"
  <2>1. Service!Goto(r, "lookWaiting")
    BY <1>1 DEF Service!Continue
  <2>2. QED
    BY <1>1, <2>1, GotoIs DEF CallOK, Proposing, Moving
<1>2. CASE to = "REMEDIATION_EXECUTED"
  <2>1. Service!Transition(r, "RESOLVED")
    BY <1>2 DEF Service!Continue
  <2>2. r \in Operators /\ ~Proposing(req[r])
    BY <1>0, <1>2 DEF CallOK, Moving, Proposing, Settled
  <2>3. "RESOLVED" \in Service!Status
    BY DEF Service!Status
  <2>4. QED
    BY <2>1, <2>2, <2>3, TransitionIs DEF CallOK, Proposing, Deciding, Moving
<1>3. CASE to \notin {"REMEDIATION_PROPOSED", "REMEDIATION_EXECUTED"}
  <2>1. Service!Return(r)
    BY <1>3 DEF Service!Continue
  <2>2. QED
    BY <2>1, ReturnIs, IdleOK
<1>4. QED
  BY <1>1, <1>2, <1>3

\* GetByID, before each of the two moves of Propose.
LEMMA LookTurn ==
  ASSUME ServiceTypes, NEW r \in Slots, Service!LookProposed(r) \/ Service!LookWaiting(r)
  PROVE  Turn(r)
<1>1. /\ req[r].pc \in {"lookProposed", "lookWaiting"}
      /\ UNCHANGED <<status, timeline, proposal, faults>>
      /\ \/ Service!Transition(r, "REMEDIATION_PROPOSED")
         \/ Service!Transition(r, "WAITING_FOR_APPROVAL")
         \/ Service!Goto(r, "lookWaiting") \/ Service!Return(r)
  BY DEF ServiceTypes, Service!LookProposed, Service!LookWaiting, Service!At, Service!Call,
         Service!Reads, Service!storeVars, Service!propVars, Service!NoFault, Service!Fault
<1>2. Proposing(req[r]) /\ ~Settling(req[r]) /\ req[r].pc # "idle"
  BY <1>1 DEF Proposing, Settling
<1>3. {"REMEDIATION_PROPOSED", "WAITING_FOR_APPROVAL"} \subseteq Service!Status
  BY DEF Service!Status
<1>4. ASSUME NEW to \in {"REMEDIATION_PROPOSED", "WAITING_FOR_APPROVAL"}, Service!Transition(r, to)
      PROVE  Turn(r)
  BY <1>1, <1>2, <1>3, <1>4, TransitionIs DEF Turn, CallOK, Proposing, Moving
<1>5. CASE Service!Goto(r, "lookWaiting")
  BY <1>1, <1>2, <1>5, GotoIs DEF Turn, CallOK, Proposing
<1>6. CASE Service!Return(r)
  BY <1>1, <1>2, <1>6, ReturnIs, IdleOK DEF Turn
<1>7. QED
  BY <1>1, <1>4, <1>5, <1>6

\* The row of approvals.
LEMMA RecordTurn ==
  ASSUME ServiceTypes, NEW r \in Slots, Service!RecordDecision(r)
  PROVE  Turn(r)
<1>1. /\ req[r].pc = "record" /\ UNCHANGED <<status, timeline, proposal, faults>>
      /\ Service!Goto(r, "mark")
  BY DEF ServiceTypes, Service!RecordDecision, Service!At, Service!Call, Service!Reads,
         Service!CreateApproval, Service!storeVars, Service!propVars, Service!NoFault, Service!Fault
<1>2. ~Proposing(req[r]) /\ ~Settling(req[r]) /\ CallOK(r, req[r])
  BY <1>1 DEF Proposing, Settling, Moving, ServiceTypes
<1>3. r \in Operators
  BY <1>1, <1>2 DEF CallOK
<1>4. QED
  BY <1>1, <1>2, <1>3, GotoIs DEF Turn, CallOK, Proposing, Deciding, Moving

\* The proposal is marked approved or rejected.
LEMMA MarkTurn ==
  ASSUME ServiceTypes, NEW r \in Slots, Service!Mark(r)
  PROVE  Turn(r)
<1> DEFINE l == req[r]
           m == [l EXCEPT !.pc = "execute", !.next = 1]
<1>1. /\ l.pc = "mark" /\ UNCHANGED <<status, timeline, faults>>
      /\ \/ /\ proposal' = [proposal EXCEPT ![l.pid].status = "approved"]
            /\ req' = [req EXCEPT ![r].pc = "execute", ![r].next = 1]
         \/ /\ proposal' = [proposal EXCEPT ![l.pid].status = "rejected"]
            /\ Service!Transition(r, "CANCELLED")
  <2>1. faults = 0 /\ l.pc = "mark"
    BY DEF ServiceTypes, Service!Mark, Service!At
  <2>2. /\ \/ Service!UpdateProposal(l.pid, "approved") /\ req' = [req EXCEPT ![r].pc = "execute", ![r].next = 1]
           \/ Service!UpdateProposal(l.pid, "rejected") /\ Service!Transition(r, "CANCELLED")
        /\ UNCHANGED faults
    BY <2>1 DEF Service!Mark, Service!Call, Service!NoFault, Service!Fault
  <2>3. QED
    BY <2>1, <2>2 DEF Service!UpdateProposal, Service!storeVars
<1>2. /\ ~Proposing(l) /\ ~Settling(l) /\ Deciding(l) /\ CallOK(r, l) /\ l \in Service!Local
      /\ req \in [Slots -> Service!Local]
  BY <1>1 DEF Proposing, Settling, Deciding, Moving, ServiceTypes
<1>3. r \in Operators
  BY <1>1, <1>2 DEF CallOK, Proposing, Moving
<1>4. CASE req' = [req EXCEPT ![r].pc = "execute", ![r].next = 1]
  <2>1. /\ m \in Service!Local /\ m.pc = "execute" /\ m.inc = l.inc /\ m.pid = l.pid
    BY <1>2 DEF Service!Local
  <2>2. req' = [req EXCEPT ![r] = m]
    BY <1>2, <1>4
  <2> HIDE DEF m
  <2>3. req'[r] = m /\ req' = [req EXCEPT ![r] = req'[r]]
    BY <1>2, <2>2
  <2>4. CallOK(r, m) /\ Settling(m) /\ ~Proposing(m)
    BY <1>3, <2>1 DEF CallOK, Deciding, Settling, Proposing, Moving
  <2>5. Marks(l, m)
    BY <1>1, <1>2, <2>4 DEF Marks
  <2>6. QED
    BY <1>1, <1>2, <2>1, <2>3, <2>4, <2>5 DEF Turn
<1>5. CASE Service!Transition(r, "CANCELLED")
  <2>1. "CANCELLED" \in Service!Status
    BY DEF Service!Status
  <2>2. /\ req' = [req EXCEPT ![r] = req'[r]] /\ req'[r] \in Service!Local
        /\ req'[r].inc = l.inc /\ req'[r].pid = l.pid
        /\ req'[r].pc = "read" /\ req'[r].to = "CANCELLED"
    BY <1>5, <2>1, TransitionIs
  <2>3. CallOK(r, req'[r]) /\ Settling(req'[r]) /\ ~Proposing(req'[r])
    BY <1>3, <2>2 DEF CallOK, Deciding, Settling, Settled, Proposing, Moving
  <2>4. Marks(l, req'[r])
    BY <1>1, <1>2, <2>3 DEF Marks
  <2>5. QED
    BY <1>1, <1>2, <2>2, <2>3, <2>4 DEF Turn
<1>6. QED
  BY <1>1, <1>4, <1>5

\* One tool.
LEMMA ExecuteTurn ==
  ASSUME ServiceTypes, NEW r \in Slots, Service!ExecuteAction(r)
  PROVE  Turn(r)
<1> DEFINE l == req[r]
           m == [l EXCEPT !.next = @ + 1]
<1>1. /\ l.pc = "execute" /\ UNCHANGED <<status, timeline, proposal, faults>>
      /\ req' = [req EXCEPT ![r].next = @ + 1] \/ Service!Goto(r, "failed")
  BY DEF Service!ExecuteAction, Service!At, Service!storeVars
<1>2. /\ ~Proposing(l) /\ Settling(l) /\ CallOK(r, l) /\ l \in Service!Local
      /\ req \in [Slots -> Service!Local]
  BY <1>1 DEF Proposing, Settling, Moving, ServiceTypes
<1>3. r \in Operators
  BY <1>1, <1>2 DEF CallOK, Proposing, Moving
<1>4. CASE req' = [req EXCEPT ![r].next = @ + 1]
  <2>0. l.next + 1 \in Nat
    BY <1>2 DEF Service!Local
  <2>1. /\ m \in Service!Local /\ m.pc = "execute" /\ m.inc = l.inc /\ m.pid = l.pid
    BY <1>1, <1>2, <2>0 DEF Service!Local
  <2>2. req' = [req EXCEPT ![r] = m]
    BY <1>2, <1>4
  <2> HIDE DEF m
  <2>3. req'[r] = m /\ req' = [req EXCEPT ![r] = req'[r]]
    BY <1>2, <2>2
  <2>4. CallOK(r, m) /\ Settling(m) /\ ~Proposing(m)
    BY <1>3, <2>1 DEF CallOK, Deciding, Settling, Proposing, Moving
  <2>5. QED
    BY <1>1, <1>2, <2>1, <2>3, <2>4 DEF Turn
<1>5. CASE Service!Goto(r, "failed")
  BY <1>1, <1>2, <1>3, <1>5, GotoIs DEF Turn, CallOK, Proposing, Deciding, Settling, Moving
<1>6. QED
  BY <1>1, <1>4, <1>5

\* The proposal is marked executed or failed.
LEMMA ExecutedTurn ==
  ASSUME ServiceTypes, NEW r \in Slots, Service!Executed(r) \/ Service!ExecutionFailed(r)
  PROVE  Turn(r)
<1> DEFINE l == req[r]
<1>1. /\ l.pc \in {"execute", "failed"} /\ UNCHANGED <<status, timeline, faults>>
      /\ \E s \in {"executed", "failed"} : proposal' = [proposal EXCEPT ![l.pid].status = s]
      /\ Service!Transition(r, "REMEDIATION_EXECUTED") \/ Service!Transition(r, "FAILED")
  BY DEF ServiceTypes, Service!Executed, Service!ExecutionFailed, Service!At, Service!Call,
         Service!Reads, Service!UpdateProposal, Service!storeVars, Service!propVars,
         Service!NoFault, Service!Fault
<1>2. ~Proposing(l) /\ Deciding(l) /\ CallOK(r, l)
  BY <1>1 DEF Proposing, Deciding, Moving, ServiceTypes
<1>3. r \in Operators
  BY <1>1, <1>2 DEF CallOK, Proposing, Moving
<1>4. {"REMEDIATION_EXECUTED", "FAILED"} \subseteq Service!Status
  BY DEF Service!Status
<1>5. /\ req' = [req EXCEPT ![r] = req'[r]] /\ req'[r] \in Service!Local
      /\ req'[r].inc = l.inc /\ req'[r].pid = l.pid
      /\ req'[r].pc = "read" /\ req'[r].to \in {"REMEDIATION_EXECUTED", "FAILED"}
  BY <1>1, <1>4, TransitionIs
<1>6. CallOK(r, req'[r]) /\ Settling(req'[r]) /\ ~Proposing(req'[r])
  BY <1>3, <1>5 DEF CallOK, Deciding, Settling, Settled, Proposing, Moving
<1>7. Marks(l, req'[r])
  BY <1>1, <1>2, <1>6 DEF Marks
<1>8. QED
  BY <1>1, <1>2, <1>5, <1>6, <1>7 DEF Turn

\* First half of Service.Transition.  A settling call that reads WAITING_FOR_APPROVAL
\* goes on to the update, since the table allows each of its targets from there.
LEMMA ReadTurn ==
  ASSUME ServiceTypes, NEW r \in Slots, Service!TransitionRead(r)
  PROVE  Turn(r)
<1> DEFINE l == req[r]
           current == status[l.inc]
           m == [l EXCEPT !.pc = "update", !.seen = current]
<1>1. /\ l.pc = "read" /\ UNCHANGED <<status, timeline, proposal, faults>>
      /\ IF Service!CanTransition(current, l.to)
         THEN req' = [req EXCEPT ![r].pc = "update", ![r].seen = current]
         ELSE Service!Continue(r)
  <2>1. faults = 0 /\ l.pc = "read"
    BY DEF ServiceTypes, Service!TransitionRead, Service!At
  <2>2. /\ Service!Reads /\ UNCHANGED faults
        /\ IF Service!CanTransition(current, l.to)
           THEN req' = [req EXCEPT ![r].pc = "update", ![r].seen = current]
           ELSE Service!Continue(r)
    BY <2>1 DEF Service!TransitionRead, Service!Call, Service!NoFault, Service!Fault
  <2>3. QED
    BY <2>1, <2>2 DEF Service!Reads, Service!storeVars, Service!propVars
<1>2. CallOK(r, l) /\ l \in Service!Local /\ req \in [Slots -> Service!Local] /\ Moving(l)
  BY <1>1 DEF Moving, ServiceTypes
<1>3. CASE Service!CanTransition(current, l.to)
  <2>1. current \in Service!Status
    BY <1>3 DEF Service!CanTransition
  <2>2. /\ m \in Service!Local /\ m.pc = "update" /\ m.inc = l.inc /\ m.pid = l.pid /\ m.to = l.to
        /\ m.seen = current
    BY <1>2, <2>1 DEF Service!Local
  <2>3. req' = [req EXCEPT ![r] = m]
    BY <1>1, <1>2, <1>3
  <2> HIDE DEF m
  <2>4. req'[r] = m /\ req' = [req EXCEPT ![r] = req'[r]]
    BY <1>2, <2>3
  <2>5. CallOK(r, m) /\ (Proposing(l) <=> Proposing(m))
    BY <1>1, <1>2, <1>3, <2>2 DEF CallOK, Deciding, Proposing, Moving
  <2>6. current = "WAITING_FOR_APPROVAL" /\ Settling(l) => Settling(m)
    BY <1>1, <2>2 DEF Settling
  <2>7. QED
    BY <1>1, <2>2, <2>4, <2>5, <2>6 DEF Turn
<1>4. CASE ~Service!CanTransition(current, l.to)
  <2>1. ~(current = "WAITING_FOR_APPROVAL" /\ Settling(l))
    BY <1>1, <1>4 DEF Settling, Settled, Service!CanTransition, Service!Status,
                      Service!validTransitions
  <2>2. /\ req' = [req EXCEPT ![r] = req'[r]] /\ CallOK(r, req'[r])
        /\ \/ req'[r].pc = "idle"
           \/ /\ req'[r].inc = l.inc /\ req'[r].pid = l.pid
              /\ Proposing(l) <=> Proposing(req'[r])
    BY <1>1, <1>2, <1>4, ContinueIs
  <2>3. QED
    BY <1>1, <2>1, <2>2 DEF Turn
<1>5. QED
  BY <1>3, <1>4

\* Second half of Service.Transition: it moves the incident or finds it changed.
LEMMA UpdateTurn ==
  ASSUME ServiceTypes, NEW r \in Slots, Service!TransitionUpdate(r)
  PROVE  Turn(r)
<1> DEFINE l == req[r]
<1>1. /\ l.pc = "update" /\ UNCHANGED <<proposal, faults>> /\ Service!Continue(r)
      /\ IF status[l.inc] = l.seen
         THEN Service!SetStatus(l.inc, l.seen, l.to) ELSE UNCHANGED <<status, timeline>>
  BY DEF ServiceTypes, Service!TransitionUpdate, Service!TransitionWithEvent, Service!At,
         Service!Call, Service!storeVars, Service!propVars, Service!NoFault, Service!Fault
<1>2. CallOK(r, l) /\ l \in Service!Local /\ Moving(l) /\ l.inc \in Incidents
  BY <1>1 DEF Moving, ServiceTypes, Service!Local
<1>3. /\ req' = [req EXCEPT ![r] = req'[r]] /\ CallOK(r, req'[r])
      /\ \/ req'[r].pc = "idle"
         \/ /\ req'[r].inc = l.inc /\ req'[r].pid = l.pid
            /\ Proposing(l) <=> Proposing(req'[r])
  BY <1>1, <1>2, ContinueIs
<1>4. CASE status[l.inc] = l.seen
  <2>1. Moves(l)
    BY <1>1, <1>4 DEF Moves, Service!SetStatus
  <2>2. Settling(l) => status'[l.inc] # "WAITING_FOR_APPROVAL"
    BY <1>1, <1>2, <2>1 DEF Moves, Settling, Settled, ServiceTypes
  <2>3. QED
    BY <1>1, <1>3, <2>1, <2>2 DEF Turn
<1>5. CASE status[l.inc] # l.seen
  <2>1. ~(status[l.inc] = "WAITING_FOR_APPROVAL" /\ Settling(l))
    BY <1>1, <1>5 DEF Settling
  <2>2. QED
    BY <1>1, <1>3, <1>5, <2>1 DEF Turn
<1>6. QED
  BY <1>4, <1>5

\* So one round trip is always a Turn.
LEMMA CallTurn ==
  ASSUME ServiceTypes, NEW r \in Slots, CallStep(r)
  PROVE  Turn(r)
BY LookTurn, RecordTurn, MarkTurn, ExecuteTurn, ExecutedTurn, ReadTurn, UpdateTurn DEF CallStep

-----------------------------------------------------------------------------
(* How a call begins and ends. *)

\* A call of Propose, by a worker or an operator: the proposal is new.
Opening(r, p, i, a) ==
    /\ req[r].pc = "idle" /\ req' = [req EXCEPT ![r] = req'[r]] /\ CallOK(r, req'[r])
    /\ Proposing(req'[r]) /\ req'[r].pid = p /\ req'[r].inc = i
    /\ proposal[p].status = "none"
    /\ proposal' = [proposal EXCEPT ![p] = [status |-> "proposed", inc |-> i, actions |-> a]]
    /\ UNCHANGED <<status, timeline, faults>>

Opens(r) == \E p \in Proposals, i \in Incidents, a \in Seq(Tools) : Opening(r, p, i, a)

\* Service.Propose inserts the proposal and begins the call.
LEMMA ProposeOpens ==
  ASSUME ServiceTypes, NEW r \in Slots, NEW i \in Incidents, NEW a \in Seq(Tools),
         Service!Propose(r, i, a)
  PROVE  Opens(r)
<1>0. ~Service!Fault
  BY DEF ServiceTypes, Service!Fault
<1> PICK p \in Proposals :
       Service!Call(Service!CreateProposal(p, i, a),
                    req' = [req EXCEPT ![r].pc = "lookProposed", ![r].inc = i, ![r].pid = p],
                    Service!Return(r))
  BY DEF Service!Propose
<1>a. /\ Service!CreateProposal(p, i, a)
      /\ req' = [req EXCEPT ![r].pc = "lookProposed", ![r].inc = i, ![r].pid = p]
      /\ UNCHANGED faults
  BY <1>0 DEF Service!Call, Service!NoFault
<1> DEFINE m == [req[r] EXCEPT !.pc = "lookProposed", !.inc = i, !.pid = p]
<1>1. req[r] \in Service!Local /\ req \in [Slots -> Service!Local] /\ req[r].pc = "idle"
  BY DEF ServiceTypes, Service!Propose, Service!At
<1>2. m \in Service!Local /\ m.pc = "lookProposed" /\ m.inc = i /\ m.pid = p
  BY <1>1 DEF Service!Local
<1>3. req' = [req EXCEPT ![r] = m]
  BY <1>a, <1>1
<1> HIDE DEF m
<1>4. req'[r] = m /\ req' = [req EXCEPT ![r] = req'[r]]
  BY <1>1, <1>3
<1>5. CallOK(r, m) /\ Proposing(m)
  BY <1>2 DEF CallOK, Proposing
<1>6. /\ req[r].pc = "idle" /\ req' = [req EXCEPT ![r] = req'[r]] /\ CallOK(r, req'[r])
      /\ Proposing(req'[r]) /\ req'[r].pid = p /\ req'[r].inc = i
  BY <1>1, <1>2, <1>4, <1>5
<1>7. /\ proposal[p].status = "none"
      /\ proposal' = [proposal EXCEPT ![p] = [status |-> "proposed", inc |-> i, actions |-> a]]
      /\ UNCHANGED <<status, timeline, faults>>
  BY <1>a DEF Service!CreateProposal, Service!storeVars
<1>8. QED
  BY <1>6, <1>7 DEF Opens, Opening

\* A call of Approve or Reject, by an operator.
Decides(o, p) ==
    /\ req[o].pc = "idle" /\ req' = [req EXCEPT ![o] = req'[o]] /\ CallOK(o, req'[o])
    /\ Deciding(req'[o]) /\ ~Proposing(req'[o]) /\ req'[o].pid = p /\ req'[o].inc = proposal[p].inc
    /\ proposal[p].status = "proposed"
    /\ UNCHANGED <<status, timeline, proposal, faults>>

\* Service.Approve and Service.Reject read the proposal and begin the call.
LEMMA DecideDecides ==
  ASSUME ServiceTypes, NEW o \in Operators, NEW p \in Proposals, NEW d \in Service!Decision,
         Service!Decide(o, p, d)
  PROVE  Decides(o, p)
<1> DEFINE i == proposal[p].inc
           m == [req[o] EXCEPT !.pc = "record", !.inc = i, !.pid = p, !.decision = d]
<1>1. req[o] \in Service!Local /\ req \in [Slots -> Service!Local] /\ req[o].pc = "idle"
  BY DEF ServiceTypes, Service!Decide, Service!At, Slots
<1>2. i \in Incidents
  BY DEF ServiceTypes, Service!ProposalRow
<1>3. m \in Service!Local /\ m.pc = "record" /\ m.inc = i /\ m.pid = p
  BY <1>1, <1>2 DEF Service!Local
<1>4. req' = [req EXCEPT ![o] = m]
  BY <1>1 DEF Service!Decide
<1> HIDE DEF m
<1>5. req'[o] = m /\ req' = [req EXCEPT ![o] = req'[o]]
  BY <1>1, <1>4 DEF Slots
<1>6. CallOK(o, m) /\ Deciding(m) /\ ~Proposing(m)
  BY <1>3 DEF CallOK, Deciding, Proposing, Moving
<1>7. QED
  BY <1>1, <1>3, <1>5, <1>6 DEF Decides, Service!Decide, Service!storeVars, Service!propVars

\* The process of a worker dies, or its context is cancelled, and its call is over.
Drops(w) ==
    /\ req' = [req EXCEPT ![w] = Service!Idle]
    /\ UNCHANGED <<status, timeline, proposal, faults>>

-----------------------------------------------------------------------------
(***************************************************************************)
(* Steps of a worker                                                       *)
(***************************************************************************)

Stages == Worker!RunStages \cup Worker!MarkStages \cup {"renotify"} \cup Worker!LoopStages

\* What the locals of a worker may look like: it has an incident to work on, may
\* make the move it is about to make, and holds a root cause once it announces one.
WorkerOK(l) ==
    /\ l \in Worker!Local
    /\ l.pc \notin Worker!LoopStages => l.inc \in Incidents
    /\ l.pc = "triageUpdate" => Worker!CanTransition(l.seen, "TRIAGING")
    /\ l.pc = "investigateUpdate" => Worker!CanTransition(l.seen, "INVESTIGATING")
    /\ l.pc = "rootCauseUpdate" => Worker!CanTransition(l.seen, "ROOT_CAUSE_IDENTIFIED")
    /\ l.pc = "saveRun" => l.outcome = "waiting" \/ l.rca
    /\ l.pc \in {"rootCause", "rootCauseUpdate", "propose", "finish"} => l.rca

WorkerTypes ==
    /\ status \in [Incidents -> Lifecycle!Status \cup {Lifecycle!NoStatus}]
    /\ wk \in [Workers -> Worker!Local]
    /\ \A w \in Workers : WorkerOK(wk[w])
    /\ job \in [Incidents -> Worker!JobRow]
    /\ inv \in [Incidents -> Worker!InvestigationRow]
    /\ cancelled \subseteq Workers
    /\ faults = 0 /\ stalls = 0 /\ crashes \in Nat /\ stops \in Nat

\* The stages in which a worker's copy of its investigation is to be written back.
CopyStages == {"start", "triage", "triageUpdate", "investigate", "investigateUpdate", "analyse",
               "saveRun", "park", "rootCause", "rootCauseUpdate", "propose", "finish", "markWrite"}

Tables == <<status, timeline, job, inv>>

\* What a step of a worker does to the tables.  l and m are its locals before and after.
Claims(l, m) ==
    /\ l.pc \in Worker!LoopStages /\ m.pc = "load" /\ m.inc \in Incidents
    /\ job[m.inc].status = "pending" /\ job[m.inc].due
    /\ job' = [job EXCEPT ![m.inc] = job'[m.inc]] /\ job'[m.inc].status = "processing"
    /\ job'[m.inc] \in Worker!JobRow
    /\ UNCHANGED <<status, timeline, inv>>

GoesOnWorking(l, m, gone) ==
    /\ UNCHANGED Tables
    /\ l.pc \notin Worker!LoopStages /\ m.pc \notin Worker!LoopStages /\ m.inc = l.inc
    /\ m.pc \in Worker!RunStages => l.pc \in Worker!RunStages
    /\ m.pc \in Worker!MarkStages => l.pc \in Worker!MarkStages
    /\ m.pc \in CopyStages => \/ l.pc \in CopyStages /\ (l.rca => m.rca)
                              \/ inv[l.inc].rca => m.rca
    /\ l.pc = "finish" => m.pc = "failJob" /\ gone
    /\ l.pc \notin {"failJob", "propose"}

Writes(l, m) ==
    /\ l.pc \in {"start", "park", "finish", "markWrite"}
    /\ m.pc \in Worker!RunStages => l.pc \in Worker!RunStages /\ m.inc = l.inc
    /\ m.pc \notin Worker!MarkStages /\ m.pc \notin {"propose", "finish"}
    /\ m.pc \in CopyStages => m.rca = l.rca
    /\ inv' = [inv EXCEPT ![l.inc] = inv'[l.inc]] /\ inv'[l.inc].rca = l.rca
    /\ inv'[l.inc] \in Worker!InvestigationRow
    /\ UNCHANGED <<status, timeline, job>>

Transitions(l, m) ==
    /\ \/ l.pc = "triageUpdate" /\ m.pc = "investigate" /\ status' = [status EXCEPT ![l.inc] = "TRIAGING"]
       \/ l.pc = "investigateUpdate" /\ m.pc = "analyse" /\ status' = [status EXCEPT ![l.inc] = "INVESTIGATING"]
       \/ /\ l.pc = "rootCauseUpdate" /\ m.pc = "propose"
          /\ status' = [status EXCEPT ![l.inc] = "ROOT_CAUSE_IDENTIFIED"]
    /\ Worker!CanTransition(status[l.inc], status'[l.inc])
    /\ timeline' = [timeline EXCEPT ![l.inc] = Append(@, [from |-> status[l.inc], to |-> status'[l.inc]])]
    /\ m.inc = l.inc /\ m.rca = l.rca
    /\ UNCHANGED <<job, inv>>

Completes(l, m) ==
    /\ l.pc = "complete" /\ m.pc \in Worker!LoopStages
    /\ job' = [job EXCEPT ![l.inc] = job'[l.inc]] /\ job'[l.inc].status = "completed"
    /\ job'[l.inc] \in Worker!JobRow
    /\ UNCHANGED <<status, timeline, inv>>

Fails(l, m, gone) ==
    /\ l.pc = "failJob" /\ ~gone /\ m.pc = "markRead" /\ m.inc = l.inc
    /\ job' = [job EXCEPT ![l.inc] = job'[l.inc]]
    /\ \/ job'[l.inc].status = "pending" /\ ~job'[l.inc].due
       \/ job'[l.inc].status = "dead_letter"
    /\ job'[l.inc] \in Worker!JobRow
    /\ UNCHANGED <<status, timeline, inv>>

Leaves(l, m) ==
    /\ l.pc \notin Worker!RunStages \ {"complete", "failJob"}
    /\ m.pc \in Worker!LoopStages \cup {"renotify"}
    /\ UNCHANGED Tables

WorkerTurn(w) ==
    LET l == wk[w]
        m == wk'[w]
        gone == w \in cancelled
    IN /\ wk' = [wk EXCEPT ![w] = m] /\ WorkerOK(m)
       /\ UNCHANGED <<cancelled, faults, crashes, stops, stalls>>
       /\ \/ Claims(l, m) \/ GoesOnWorking(l, m, gone) \/ Writes(l, m) \/ Transitions(l, m)
          \/ Completes(l, m) \/ Fails(l, m, gone) \/ Leaves(l, m)

\* The worker goes on to another stage.
LEMMA StageIs ==
  ASSUME WorkerTypes, NEW w \in Workers, NEW pc \in Stages, Worker!Goto(w, pc)
  PROVE  /\ wk' = [wk EXCEPT ![w] = wk'[w]] /\ wk'[w] \in Worker!Local /\ wk'[w].pc = pc
         /\ wk'[w].inc = wk[w].inc /\ wk'[w].rca = wk[w].rca
         /\ wk'[w].outcome = wk[w].outcome /\ wk'[w].seen = wk[w].seen
<1>1. wk[w] \in Worker!Local /\ wk \in [Workers -> Worker!Local]
  BY DEF WorkerTypes
<1> DEFINE m == [wk[w] EXCEPT !.pc = pc]
<1>2. /\ m \in Worker!Local /\ m.pc = pc /\ m.inc = wk[w].inc /\ m.rca = wk[w].rca
      /\ m.outcome = wk[w].outcome /\ m.seen = wk[w].seen
  BY <1>1 DEF Worker!Local, Stages
<1>3. wk' = [wk EXCEPT ![w] = m]
  BY <1>1 DEF Worker!Goto
<1> HIDE DEF m
<1>4. QED
  BY <1>1, <1>2, <1>3

\* A worker that is between two jobs has no copy, and nothing to answer for.
LEMMA LoopIs ==
  ASSUME WorkerTypes, NEW w \in Workers, NEW pc \in Worker!LoopStages, Worker!Return(w, pc)
  PROVE  wk' = [wk EXCEPT ![w] = wk'[w]] /\ WorkerOK(wk'[w]) /\ wk'[w].pc = pc
<1>1. wk' = [wk EXCEPT ![w] = wk'[w]] /\ wk'[w] = Worker!Loop(pc)
  BY DEF WorkerTypes, Worker!Return
<1>2. Worker!Loop(pc) \in Worker!Local /\ Worker!Loop(pc).pc = pc
  BY DEF Worker!Loop, Worker!Local, Worker!LoopStages, Worker!NoIncident, Worker!NoStatus
<1>3. QED
  BY <1>1, <1>2 DEF WorkerOK, Worker!LoopStages

\* ClaimNextJob, or nothing to claim.
LEMMA ClaimTurn ==
  ASSUME WorkerTypes, NEW w \in Workers, Worker!Claim(w)
  PROVE  WorkerTurn(w)
<1>1. /\ wk[w].pc = "idle" /\ UNCHANGED <<cancelled, faults, crashes, stops, stalls>>
      /\ \/ \E i \in Incidents :
               /\ UNCHANGED <<status, timeline>> /\ Worker!ClaimNextJob(i)
               /\ wk' = [wk EXCEPT ![w] = [Worker!Loop("load") EXCEPT !.inc = i,
                                                                   !.attempt = job[i].attempts + 1]]
         \/ UNCHANGED Tables /\ (Worker!Return(w, "backoff") \/ Worker!Return(w, "wait"))
  <2>1. faults = 0 /\ ~Worker!Fault
    BY DEF WorkerTypes, Worker!Fault
  <2>2. CASE Worker!Claimable = {} /\ Worker!Call(w, Worker!Reads, Worker!Return(w, "wait"), Worker!Return(w, "backoff"))
    BY <2>1, <2>2 DEF Worker!Call, Worker!Claim, Worker!At, Worker!Reads, Worker!Refused, Worker!NoFault, Worker!storeVars,
                      Worker!jobVars, Worker!envVars, Tables
  <2>3. CASE \E i \in Incidents :
               Worker!Call(w, Worker!OnJobs(Worker!ClaimNextJob(i)),
                  wk' = [wk EXCEPT ![w] = [Worker!Loop("load") EXCEPT !.inc = i,
                                                               !.attempt = job[i].attempts + 1]],
                  Worker!Return(w, "backoff"))
    BY <2>1, <2>3 DEF Worker!Call, Worker!Claim, Worker!At, Worker!OnJobs, Worker!Refused, Worker!NoFault, Worker!storeVars,
                      Worker!jobVars, Worker!envVars, Tables
  <2>4. QED
    BY <2>2, <2>3 DEF Worker!Claim
<1>2. ASSUME NEW pc \in {"backoff", "wait"}, UNCHANGED Tables, Worker!Return(w, pc) PROVE WorkerTurn(w)
  BY <1>1, <1>2, LoopIs DEF WorkerTurn, Leaves, Worker!LoopStages, Worker!RunStages
<1>3. ASSUME NEW i \in Incidents, UNCHANGED <<status, timeline>>, Worker!ClaimNextJob(i),
             wk' = [wk EXCEPT ![w] = [Worker!Loop("load") EXCEPT !.inc = i,
                                                                 !.attempt = job[i].attempts + 1]]
      PROVE  WorkerTurn(w)
  <2> DEFINE m == [Worker!Loop("load") EXCEPT !.inc = i, !.attempt = job[i].attempts + 1]
             j == [job[i] EXCEPT !.status = "processing", !.attempts = @ + 1]
  <2>1. job[i] \in Worker!JobRow /\ job \in [Incidents -> Worker!JobRow] /\ job[i].attempts + 1 \in Nat
    BY DEF WorkerTypes, Worker!JobRow
  <2>2. m \in Worker!Local /\ m.pc = "load" /\ m.inc = i
    BY <2>1 DEF Worker!Loop, Worker!Local, Worker!RunStages, Worker!NoStatus, Worker!NoIncident
  <2>3. WorkerOK(m)
    BY <2>2 DEF WorkerOK
  <2>4. j \in Worker!JobRow /\ j.status = "processing"
    BY <2>1 DEF Worker!JobRow
  <2>5. job' = [job EXCEPT ![i] = j] /\ UNCHANGED inv /\ job[i].status = "pending" /\ job[i].due
    BY <1>3, <2>1 DEF Worker!ClaimNextJob, Worker!Claimable
  <2> HIDE DEF m, j
  <2>6. wk'[w] = m /\ wk' = [wk EXCEPT ![w] = wk'[w]]
    BY <1>3 DEF m, WorkerTypes
  <2>7. job'[i] = j /\ job' = [job EXCEPT ![i] = job'[i]]
    BY <2>1, <2>5
  <2>8. Claims(wk[w], m)
    BY <1>1, <1>3, <2>2, <2>4, <2>5, <2>7 DEF Claims, Worker!LoopStages
  <2>9. QED
    BY <1>1, <2>3, <2>6, <2>8 DEF WorkerTurn
<1>4. QED
  BY <1>1, <1>2, <1>3

\* A call of a worker takes effect and returns, or its context is cancelled.
LEMMA LoadTurn ==
  ASSUME WorkerTypes, NEW w \in Workers, Worker!Load(w) \/ Worker!MarkRead(w)
  PROVE  WorkerTurn(w)
<1> DEFINE l == wk[w]
           m(pc) == [l EXCEPT !.pc = pc, !.rca = inv[l.inc].rca]
<1>1. /\ UNCHANGED <<cancelled, faults, crashes, stops, stalls>> /\ UNCHANGED Tables
      /\ \/ l.pc = "load" /\ (Worker!Goto(w, "failJob") \/ wk' = [wk EXCEPT ![w] = m("start")])
         \/ l.pc = "markRead" /\ (Worker!Marked(w) \/ wk' = [wk EXCEPT ![w] = m("markWrite")])
  <2>1. ~Worker!Fault /\ l \in Worker!Local /\ wk \in [Workers -> Worker!Local]
    BY DEF WorkerTypes, Worker!Fault
  <2>2. CASE Worker!Load(w)
    BY <2>1, <2>2 DEF Worker!Load, Worker!Call, Worker!At, Worker!Reads, Worker!Refused, Worker!NoFault, Worker!storeVars,
                      Worker!jobVars, Worker!envVars, Tables
  <2>3. CASE Worker!MarkRead(w)
    BY <2>1, <2>3 DEF Worker!MarkRead, Worker!Call, Worker!At, Worker!Reads, Worker!Refused, Worker!NoFault, Worker!storeVars,
                      Worker!jobVars, Worker!envVars, Tables
  <2>4. QED
    BY <2>2, <2>3
<1>2. l \in Worker!Local /\ WorkerOK(l) /\ l.inc \in Incidents /\ inv[l.inc].rca \in BOOLEAN
      /\ wk \in [Workers -> Worker!Local]
  BY <1>1 DEF WorkerTypes, WorkerOK, Worker!LoopStages, Worker!InvestigationRow
<1>3. ASSUME l.pc = "load", Worker!Goto(w, "failJob") PROVE WorkerTurn(w)
  <2>1. "failJob" \in Stages
    BY DEF Stages, Worker!RunStages
  <2>2. /\ wk' = [wk EXCEPT ![w] = wk'[w]] /\ wk'[w] \in Worker!Local /\ wk'[w].pc = "failJob"
        /\ wk'[w].inc = l.inc
    BY <1>3, <2>1, StageIs
  <2>3. WorkerOK(wk'[w])
    BY <1>2, <2>2 DEF WorkerOK
  <2>4. GoesOnWorking(l, wk'[w], w \in cancelled)
    BY <1>1, <1>2, <1>3, <2>2 DEF GoesOnWorking, Worker!LoopStages, Worker!RunStages, Worker!MarkStages, CopyStages
  <2>5. QED
    BY <1>1, <2>2, <2>3, <2>4 DEF WorkerTurn
<1>4. ASSUME NEW pc \in {"start", "markWrite"}, wk' = [wk EXCEPT ![w] = m(pc)],
             (l.pc = "load" /\ pc = "start") \/ (l.pc = "markRead" /\ pc = "markWrite")
      PROVE  WorkerTurn(w)
  <2>1. m(pc) \in Worker!Local /\ m(pc).pc = pc /\ m(pc).inc = l.inc /\ m(pc).rca = inv[l.inc].rca
    BY <1>2 DEF Worker!Local, Worker!RunStages, Worker!MarkStages
  <2> HIDE DEF m
  <2>2. wk'[w] = m(pc) /\ wk' = [wk EXCEPT ![w] = wk'[w]]
    BY <1>2, <1>4
  <2>3. WorkerOK(wk'[w])
    BY <1>2, <2>1, <2>2 DEF WorkerOK
  <2>4. GoesOnWorking(l, wk'[w], w \in cancelled)
    BY <1>1, <1>2, <1>4, <2>1, <2>2 DEF GoesOnWorking, Worker!LoopStages, Worker!RunStages, Worker!MarkStages, CopyStages
  <2>5. QED
    BY <1>1, <2>2, <2>3, <2>4 DEF WorkerTurn
<1>5. ASSUME Worker!Marked(w), l.pc = "markRead" PROVE WorkerTurn(w)
  <2>1. Worker!Goto(w, "renotify") \/ Worker!Return(w, "backoff")
    BY <1>5 DEF Worker!Marked
  <2>2. CASE Worker!Goto(w, "renotify")
    <3>1. "renotify" \in Stages
      BY DEF Stages
    <3>2. /\ wk' = [wk EXCEPT ![w] = wk'[w]] /\ wk'[w] \in Worker!Local /\ wk'[w].pc = "renotify"
          /\ wk'[w].inc = l.inc
      BY <2>2, <3>1, StageIs
    <3>3. QED
      BY <1>1, <1>2, <1>5, <3>2 DEF WorkerTurn, WorkerOK, Leaves, Worker!RunStages
  <2>3. CASE Worker!Return(w, "backoff")
    BY <1>1, <1>5, <2>3, LoopIs DEF WorkerTurn, Leaves, Worker!LoopStages, Worker!RunStages
  <2>4. QED
    BY <2>1, <2>2, <2>3
<1>6. QED
  BY <1>1, <1>3, <1>4, <1>5

\* The first half of a transition.
LEMMA ReadsStatus ==
  ASSUME WorkerTypes, NEW w \in Workers, NEW to, NEW good, NEW bad,
         Worker!TransitionRead(w, to, good, bad)
  PROVE  /\ UNCHANGED <<cancelled, faults, crashes, stops, stalls>> /\ UNCHANGED Tables
         /\ \/ Worker!Goto(w, bad)
            \/ /\ Worker!CanTransition(status[wk[w].inc], to)
               /\ wk' = [wk EXCEPT ![w].pc = good, ![w].seen = status[wk[w].inc]]
<1>1. ~Worker!Fault
  BY DEF WorkerTypes, Worker!Fault
<1>2. QED
  BY <1>1 DEF Worker!TransitionRead, Worker!Call, Worker!Reads, Worker!Refused, Worker!NoFault,
              Worker!storeVars, Worker!jobVars, Worker!envVars, Tables

\* First half of the three transitions of a worker ...
LEMMA WorkerReadTurn ==
  ASSUME WorkerTypes, NEW w \in Workers, Worker!Triage(w) \/ Worker!Investigate(w) \/ Worker!RootCause(w)
  PROVE  WorkerTurn(w)
<1> DEFINE l == wk[w]
           m(pc) == [l EXCEPT !.pc = pc, !.seen = status[l.inc]]
           Half(pc, to, good, bad) == l.pc = pc /\ (Worker!Goto(w, bad) \/
                 (Worker!CanTransition(status[l.inc], to) /\ wk' = [wk EXCEPT ![w] = m(good)]))
<1>1. /\ UNCHANGED <<cancelled, faults, crashes, stops, stalls>> /\ UNCHANGED Tables
      /\ \/ Half("triage", "TRIAGING", "triageUpdate", "failJob")
         \/ Half("investigate", "INVESTIGATING", "investigateUpdate", "failJob")
         \/ Half("rootCause", "ROOT_CAUSE_IDENTIFIED", "rootCauseUpdate", "propose")
  <2>1. wk \in [Workers -> Worker!Local] /\ l \in Worker!Local
    BY DEF WorkerTypes
  <2>2. \A good : wk' = [wk EXCEPT ![w].pc = good, ![w].seen = status[wk[w].inc]]
                     => wk' = [wk EXCEPT ![w] = m(good)]
    BY <2>1
  <2> HIDE DEF m
  <2>3. QED
    BY <2>2, ReadsStatus DEF Worker!Triage, Worker!Investigate, Worker!RootCause, Worker!At
<1>2. l \in Worker!Local /\ WorkerOK(l) /\ wk \in [Workers -> Worker!Local]
  BY DEF WorkerTypes
<1>3. l.inc \in Incidents /\ status[l.inc] \in Worker!Status \cup {Worker!NoStatus}
  BY <1>1, <1>2, SameStatus DEF WorkerOK, Worker!LoopStages, WorkerTypes
<1>4. ASSUME NEW pc, NEW to, NEW good, NEW bad, Half(pc, to, good, bad),
             \/ pc = "triage" /\ to = "TRIAGING" /\ good = "triageUpdate" /\ bad = "failJob"
             \/ pc = "investigate" /\ to = "INVESTIGATING" /\ good = "investigateUpdate" /\ bad = "failJob"
             \/ pc = "rootCause" /\ to = "ROOT_CAUSE_IDENTIFIED" /\ good = "rootCauseUpdate" /\ bad = "propose"
      PROVE  WorkerTurn(w)
  <2>0. {good, bad} \subseteq Stages \cap Worker!RunStages /\ good \in Worker!RunStages
    BY <1>4 DEF Stages, Worker!RunStages
  <2>1. CASE Worker!Goto(w, bad)
    <3>1. /\ wk' = [wk EXCEPT ![w] = wk'[w]] /\ wk'[w] \in Worker!Local /\ wk'[w].pc = bad
          /\ wk'[w].inc = l.inc /\ wk'[w].rca = l.rca
      BY <2>0, <2>1, StageIs
    <3>2. WorkerOK(wk'[w])
      BY <1>2, <1>3, <1>4, <3>1 DEF WorkerOK
    <3>3. GoesOnWorking(l, wk'[w], w \in cancelled)
      BY <1>1, <1>4, <3>1 DEF GoesOnWorking, Worker!LoopStages, Worker!RunStages, Worker!MarkStages, CopyStages
    <3>4. QED
      BY <1>1, <3>1, <3>2, <3>3 DEF WorkerTurn
  <2>2. CASE Worker!CanTransition(status[l.inc], to) /\ wk' = [wk EXCEPT ![w] = m(good)]
    <3>1. /\ m(good) \in Worker!Local /\ m(good).pc = good /\ m(good).inc = l.inc
          /\ m(good).rca = l.rca /\ m(good).seen = status[l.inc]
      BY <1>2, <1>3, <2>0 DEF Worker!Local
    <3> HIDE DEF m
    <3>2. wk'[w] = m(good) /\ wk' = [wk EXCEPT ![w] = wk'[w]]
      BY <1>2, <2>2
    <3>3. WorkerOK(wk'[w])
      BY <1>2, <1>3, <1>4, <2>2, <3>1, <3>2 DEF WorkerOK
    <3>4. GoesOnWorking(l, wk'[w], w \in cancelled)
      BY <1>1, <1>4, <3>1, <3>2 DEF GoesOnWorking, Worker!LoopStages, Worker!RunStages, Worker!MarkStages, CopyStages
    <3>5. QED
      BY <1>1, <3>2, <3>3, <3>4 DEF WorkerTurn
  <2>3. QED
    BY <1>4, <2>1, <2>2
<1> HIDE DEF Half
<1>5. QED
  BY <1>1, <1>4

\* The second half: the row was found as it had been read, or not.
Updated(w, to, good, bad) ==
    \/ /\ UNCHANGED <<status, timeline>>
       /\ wk' = [wk EXCEPT ![w] = [wk[w] EXCEPT !.pc = bad, !.seen = Worker!NoStatus]]
    \/ /\ status[wk[w].inc] = wk[w].seen
       /\ status' = [status EXCEPT ![wk[w].inc] = to]
       /\ timeline' = [timeline EXCEPT ![wk[w].inc] = Append(@, [from |-> wk[w].seen, to |-> to])]
       /\ wk' = [wk EXCEPT ![w] = [wk[w] EXCEPT !.pc = good, !.seen = Worker!NoStatus]]

LEMMA UpdatesStatus ==
  ASSUME WorkerTypes, NEW w \in Workers, NEW to, NEW good, NEW bad,
         Worker!TransitionUpdate(w, to, good, bad)
  PROVE  UNCHANGED <<cancelled, faults, crashes, stops, stalls, job, inv>> /\ Updated(w, to, good, bad)
<1>1. ~Worker!Fault /\ wk \in [Workers -> Worker!Local]
  BY DEF WorkerTypes, Worker!Fault
<1>2. \A pc : wk' = [wk EXCEPT ![w].pc = pc, ![w].seen = Worker!NoStatus]
                 => wk' = [wk EXCEPT ![w] = [wk[w] EXCEPT !.pc = pc, !.seen = Worker!NoStatus]]
  BY <1>1
<1>3. CASE status[wk[w].inc] = wk[w].seen
  BY <1>1, <1>2, <1>3 DEF Updated, Worker!TransitionUpdate, Worker!Call, Worker!Refused, Worker!NoFault,
              Worker!TransitionWithEvent, Worker!SetStatus, Worker!storeVars, Worker!jobVars, Worker!envVars
<1>4. CASE status[wk[w].inc] # wk[w].seen
  BY <1>1, <1>2, <1>4 DEF Updated, Worker!TransitionUpdate, Worker!Call, Worker!Refused, Worker!NoFault,
              Worker!storeVars, Worker!jobVars, Worker!envVars
<1>5. QED
  BY <1>3, <1>4

\* ... and second half.
LEMMA WorkerUpdateTurn ==
  ASSUME WorkerTypes, NEW w \in Workers,
         Worker!TriageUpdate(w) \/ Worker!InvestigateUpdate(w) \/ Worker!RootCauseUpdate(w)
  PROVE  WorkerTurn(w)
<1> DEFINE l == wk[w]
           m(pc) == [l EXCEPT !.pc = pc, !.seen = Worker!NoStatus]
           Half(pc, to, good, bad) == l.pc = pc /\ Updated(w, to, good, bad)
<1>1. /\ UNCHANGED <<cancelled, faults, crashes, stops, stalls, job, inv>>
      /\ \/ Half("triageUpdate", "TRIAGING", "investigate", "failJob")
         \/ Half("investigateUpdate", "INVESTIGATING", "analyse", "failJob")
         \/ Half("rootCauseUpdate", "ROOT_CAUSE_IDENTIFIED", "propose", "propose")
  BY UpdatesStatus DEF Worker!TriageUpdate, Worker!InvestigateUpdate, Worker!RootCauseUpdate, Worker!At
<1>2. l \in Worker!Local /\ WorkerOK(l) /\ wk \in [Workers -> Worker!Local]
  BY DEF WorkerTypes
<1>3. l.inc \in Incidents
  BY <1>1, <1>2 DEF WorkerOK, Worker!LoopStages
<1>4. ASSUME NEW pc, NEW to, NEW good, NEW bad, Half(pc, to, good, bad),
             \/ pc = "triageUpdate" /\ to = "TRIAGING" /\ good = "investigate" /\ bad = "failJob"
             \/ pc = "investigateUpdate" /\ to = "INVESTIGATING" /\ good = "analyse" /\ bad = "failJob"
             \/ pc = "rootCauseUpdate" /\ to = "ROOT_CAUSE_IDENTIFIED" /\ good = "propose" /\ bad = "propose"
      PROVE  WorkerTurn(w)
  <2>0. {good, bad} \subseteq Worker!RunStages
    BY <1>4 DEF Worker!RunStages
  <2>1. \A q \in {good, bad} : /\ m(q) \in Worker!Local /\ m(q).pc = q /\ m(q).inc = l.inc
                               /\ m(q).rca = l.rca
    BY <1>2, <2>0 DEF Worker!Local
  <2>2. PICK q \in {good, bad} : wk' = [wk EXCEPT ![w] = m(q)]
    BY <1>4 DEF Updated
  <2> HIDE DEF m
  <2>3. wk'[w] = m(q) /\ wk' = [wk EXCEPT ![w] = wk'[w]]
    BY <1>2, <2>2
  <2>4. WorkerOK(wk'[w])
    BY <1>2, <1>3, <1>4, <2>1, <2>3 DEF WorkerOK
  <2>5. CASE UNCHANGED <<status, timeline>> /\ wk' = [wk EXCEPT ![w] = m(bad)]
    <3>1. wk'[w] = m(bad)
      BY <1>2, <2>5
    <3>2. GoesOnWorking(l, wk'[w], w \in cancelled)
      BY <1>1, <1>4, <2>1, <2>5, <3>1 DEF GoesOnWorking, Worker!LoopStages, Worker!RunStages, Worker!MarkStages,
                                    CopyStages, Tables
    <3>3. QED
      BY <1>1, <2>3, <2>4, <3>2 DEF WorkerTurn
  <2>6. CASE /\ status[l.inc] = l.seen
             /\ status' = [status EXCEPT ![l.inc] = to]
             /\ timeline' = [timeline EXCEPT ![l.inc] = Append(@, [from |-> l.seen, to |-> to])]
             /\ wk' = [wk EXCEPT ![w] = m(good)]
    <3>1. wk'[w] = m(good)
      BY <1>2, <2>6
    <3>2. status'[l.inc] = to /\ Worker!CanTransition(l.seen, to)
      BY <1>2, <1>3, <1>4, <2>6 DEF WorkerTypes, WorkerOK
    <3>3. Transitions(l, wk'[w])
      BY <1>1, <1>4, <2>1, <2>6, <3>1, <3>2 DEF Transitions
    <3>4. QED
      BY <1>1, <2>3, <2>4, <3>3 DEF WorkerTurn
  <2>7. QED
    BY <1>4, <2>5, <2>6 DEF Updated, m
<1> HIDE DEF Half
<1>5. QED
  BY <1>1, <1>4

\* A stage that failed without effect: the job is about to be reported failed.
LEMMA FailedTurn ==
  ASSUME WorkerTypes, NEW w \in Workers, Worker!Goto(w, "failJob"),
         wk[w].pc \in Worker!RunStages \ {"propose", "failJob"}, wk[w].pc = "finish" => w \in cancelled,
         UNCHANGED Tables, UNCHANGED <<cancelled, faults, crashes, stops, stalls>>
  PROVE  WorkerTurn(w)
<1>1. "failJob" \in Stages
  BY DEF Stages, Worker!RunStages
<1>2. /\ wk' = [wk EXCEPT ![w] = wk'[w]] /\ wk'[w] \in Worker!Local /\ wk'[w].pc = "failJob"
      /\ wk'[w].inc = wk[w].inc
  BY <1>1, StageIs
<1>3. wk[w].inc \in Incidents
  BY DEF WorkerTypes, WorkerOK, Worker!LoopStages, Worker!RunStages
<1>4. WorkerOK(wk'[w])
  BY <1>2, <1>3 DEF WorkerOK
<1>5. GoesOnWorking(wk[w], wk'[w], w \in cancelled)
  BY <1>2 DEF GoesOnWorking, Worker!LoopStages, Worker!RunStages, Worker!MarkStages, CopyStages
<1>6. QED
  BY <1>2, <1>4, <1>5 DEF WorkerTurn

\* After a call that may be refused, and after the others, a worker between two jobs
\* or about to send the second hint has let go of its job.
LEMMA LeavesTurn ==
  ASSUME WorkerTypes, NEW w \in Workers,
         \/ \E pc \in Worker!LoopStages : Worker!Return(w, pc)
         \/ Worker!Goto(w, "renotify") /\ wk[w].pc \in Worker!MarkStages,
         wk[w].pc \notin Worker!RunStages \ {"complete", "failJob"},
         UNCHANGED Tables, UNCHANGED <<cancelled, faults, crashes, stops, stalls>>
  PROVE  WorkerTurn(w)
<1>1. CASE \E pc \in Worker!LoopStages : Worker!Return(w, pc)
  BY <1>1, LoopIs DEF WorkerTurn, Leaves
<1>2. CASE Worker!Goto(w, "renotify") /\ wk[w].pc \in Worker!MarkStages
  <2>1. "renotify" \in Stages
    BY DEF Stages
  <2>2. /\ wk' = [wk EXCEPT ![w] = wk'[w]] /\ wk'[w] \in Worker!Local /\ wk'[w].pc = "renotify"
        /\ wk'[w].inc = wk[w].inc
    BY <1>2, <2>1, StageIs
  <2>3. wk[w].inc \in Incidents
    BY <1>2 DEF WorkerTypes, WorkerOK, Worker!LoopStages, Worker!MarkStages
  <2>4. QED
    BY <2>2, <2>3 DEF WorkerTurn, WorkerOK, Leaves
<1>3. QED
  BY <1>1, <1>2

\* The whole row of the investigation is written from the worker's copy.
Writing(w, pc, next, newStatus) ==
    /\ wk[w].pc = pc
    /\ UNCHANGED <<cancelled, faults, crashes, stops, stalls, status, timeline, job>>
    /\ inv' = [inv EXCEPT ![wk[w].inc] = [status |-> newStatus, rca |-> wk[w].rca]]
    /\ Worker!Goto(w, next)

LEMMA WritingTurn ==
  ASSUME WorkerTypes, NEW w \in Workers, NEW pc, NEW next, NEW newStatus, Writing(w, pc, next, newStatus),
         \/ pc = "start" /\ next = "triage" /\ newStatus = "running"
         \/ pc = "park" /\ next = "complete" /\ newStatus = "waiting_for_ai"
         \/ pc = "finish" /\ next = "complete" /\ newStatus = "completed"
  PROVE  WorkerTurn(w)
<1> DEFINE l == wk[w]
           row == [status |-> newStatus, rca |-> l.rca]
<1>1. next \in Stages
  BY DEF Stages, Worker!RunStages
<1>2. /\ wk' = [wk EXCEPT ![w] = wk'[w]] /\ wk'[w] \in Worker!Local /\ wk'[w].pc = next
      /\ wk'[w].inc = l.inc /\ wk'[w].rca = l.rca
  BY <1>1, StageIs DEF Writing
<1>3. l \in Worker!Local /\ l.inc \in Incidents /\ l.rca \in BOOLEAN /\ inv \in [Incidents -> Worker!InvestigationRow]
  BY DEF WorkerTypes, WorkerOK, Worker!LoopStages, Worker!Local, Writing
<1>4. WorkerOK(wk'[w])
  BY <1>2, <1>3 DEF WorkerOK
<1>5. row \in Worker!InvestigationRow /\ row.rca = l.rca
  BY <1>3 DEF Worker!InvestigationRow
<1>6. inv' = [inv EXCEPT ![l.inc] = row]
  BY DEF Writing
<1> HIDE DEF row
<1>7. inv'[l.inc] = row /\ inv' = [inv EXCEPT ![l.inc] = inv'[l.inc]]
  BY <1>3, <1>6
<1>8. Writes(l, wk'[w])
  BY <1>2, <1>5, <1>7 DEF Writes, Writing, Worker!RunStages, Worker!MarkStages, CopyStages
<1>9. QED
  BY <1>2, <1>4, <1>8 DEF WorkerTurn, Writing

\* The writes of runInvestigation.
LEMMA WriteTurn ==
  ASSUME WorkerTypes, NEW w \in Workers, Worker!Start(w) \/ Worker!Park(w) \/ Worker!Finish(w)
  PROVE  WorkerTurn(w)
<1>1. \/ Writing(w, "start", "triage", "running")
      \/ Writing(w, "park", "complete", "waiting_for_ai")
      \/ Writing(w, "finish", "complete", "completed")
      \/ /\ Worker!Goto(w, "failJob") /\ wk[w].pc \in {"start", "park", "finish"} /\ w \in cancelled
         /\ UNCHANGED Tables /\ UNCHANGED <<cancelled, faults, crashes, stops, stalls>>
  BY DEF Worker!Start, Worker!Park, Worker!Finish, Worker!At, Worker!OnJobs, Worker!UpdateInvestigation,
         Writing, WorkerTypes, Worker!Call, Worker!Fault, Worker!Refused, Worker!NoFault, Worker!Live,
         Worker!envVars, Worker!storeVars, Worker!jobVars, Tables
<1>2. QED
  BY <1>1, WritingTurn, FailedTurn DEF Worker!RunStages

\* The write of markInvestigationFailed.
LEMMA MarkWriteTurn ==
  ASSUME WorkerTypes, NEW w \in Workers, Worker!MarkWrite(w)
  PROVE  WorkerTurn(w)
<1> DEFINE l == wk[w]
<1>1. /\ l.pc = "markWrite" /\ UNCHANGED <<cancelled, faults, crashes, stops, stalls, status, timeline, job>>
      /\ \/ Worker!Goto(w, "renotify") \/ Worker!Return(w, "backoff")
      /\ \/ UNCHANGED inv
         \/ \E s \in {"pending", "failed"} : inv' = [inv EXCEPT ![l.inc] = [status |-> s, rca |-> l.rca]]
  <2> DEFINE s == IF Worker!Retry(w) THEN "pending" ELSE "failed"
  <2>1. ~Worker!Fault /\ l.pc = "markWrite"
    BY DEF WorkerTypes, Worker!Fault, Worker!MarkWrite, Worker!At
  <2>2. s \in {"pending", "failed"}
    OBVIOUS
  <2>3. Worker!Call(w, Worker!OnJobs(Worker!UpdateInvestigation(l.inc, s, l.rca)), Worker!Marked(w), Worker!Marked(w))
    BY DEF Worker!MarkWrite
  <2> HIDE DEF s
  <2>4. /\ Worker!Marked(w) /\ UNCHANGED <<cancelled, faults, crashes, stops, stalls, status, timeline, job>>
        /\ UNCHANGED inv \/ inv' = [inv EXCEPT ![l.inc] = [status |-> s, rca |-> l.rca]]
    BY <2>1, <2>3 DEF Worker!OnJobs, Worker!UpdateInvestigation, Worker!Call, Worker!Refused,
         Worker!NoFault, Worker!envVars, Worker!storeVars, Worker!jobVars
  <2>5. QED
    BY <2>1, <2>2, <2>4 DEF Worker!Marked
<1>2. CASE UNCHANGED inv
  BY <1>1, <1>2, LeavesTurn DEF Tables, Worker!LoopStages, Worker!MarkStages, Worker!RunStages
<1>3. ASSUME NEW s \in {"pending", "failed"}, inv' = [inv EXCEPT ![l.inc] = [status |-> s, rca |-> l.rca]]
      PROVE  WorkerTurn(w)
  <2> DEFINE row == [status |-> s, rca |-> l.rca]
  <2>1. l \in Worker!Local /\ l.inc \in Incidents /\ l.rca \in BOOLEAN /\ inv \in [Incidents -> Worker!InvestigationRow]
    BY <1>1 DEF WorkerTypes, WorkerOK, Worker!LoopStages, Worker!Local
  <2>2. row \in Worker!InvestigationRow /\ row.rca = l.rca
    BY <2>1 DEF Worker!InvestigationRow
  <2>3. inv' = [inv EXCEPT ![l.inc] = row]
    BY <1>3
  <2> HIDE DEF row
  <2>4. inv'[l.inc] = row /\ inv' = [inv EXCEPT ![l.inc] = inv'[l.inc]]
    BY <2>1, <2>3
  <2>5. "renotify" \in Stages /\ "backoff" \in Worker!LoopStages
    BY DEF Stages, Worker!LoopStages
  <2>6. /\ wk' = [wk EXCEPT ![w] = wk'[w]] /\ WorkerOK(wk'[w])
        /\ wk'[w].pc \in {"renotify", "backoff"}
    <3>1. CASE Worker!Goto(w, "renotify")
      BY <2>1, <2>5, <3>1, StageIs DEF WorkerOK
    <3>2. CASE Worker!Return(w, "backoff")
      BY <2>5, <3>2, LoopIs
    <3>3. QED
      BY <1>1, <3>1, <3>2
  <2>7. Writes(l, wk'[w])
    BY <1>1, <2>2, <2>4, <2>6 DEF Writes, Worker!RunStages, Worker!MarkStages, CopyStages
  <2>8. QED
    BY <1>1, <2>6, <2>7 DEF WorkerTurn
<1>4. QED
  BY <1>1, <1>2, <1>3

\* The agent's run; a root cause it found is kept in the copy.
LEMMA AnalyseTurn ==
  ASSUME WorkerTypes, NEW w \in Workers, Worker!Analyse(w)
  PROVE  WorkerTurn(w)
<1> DEFINE l == wk[w]
           m(pc, o) == [l EXCEPT !.pc = pc, !.outcome = o, !.rca = @ \/ o = "rca"]
<1>1. /\ l.pc = "analyse" /\ UNCHANGED <<cancelled, faults, crashes, stops, stalls>> /\ UNCHANGED Tables
      /\ \/ Worker!Goto(w, "failJob")
         \/ wk' = [wk EXCEPT ![w] = m("failJob", "invalid")]
         \/ \E o \in {"rca", "waiting"} : wk' = [wk EXCEPT ![w] = m("saveRun", o)]
  <2>1. ~Worker!Fault /\ l \in Worker!Local /\ wk \in [Workers -> Worker!Local] /\ l.pc = "analyse"
    BY DEF WorkerTypes, Worker!Fault, Worker!Analyse, Worker!At
  <2>2. PICK o \in {"rca", "waiting", "invalid"} :
           Worker!Call(w, Worker!Reads,
               wk' = [wk EXCEPT ![w].pc = IF o = "invalid" THEN "failJob" ELSE "saveRun",
                                ![w].outcome = o, ![w].rca = @ \/ o = "rca"],
               Worker!Goto(w, "failJob"))
    BY DEF Worker!Analyse
  <2>3. /\ UNCHANGED <<cancelled, faults, crashes, stops, stalls>> /\ UNCHANGED Tables
        /\ \/ Worker!Goto(w, "failJob")
           \/ wk' = [wk EXCEPT ![w].pc = IF o = "invalid" THEN "failJob" ELSE "saveRun",
                               ![w].outcome = o, ![w].rca = @ \/ o = "rca"]
    BY <2>1, <2>2 DEF Worker!Call, Worker!Reads, Worker!Refused, Worker!NoFault, Worker!envVars,
                      Worker!storeVars, Worker!jobVars, Tables
  <2>4. CASE o = "invalid"
    BY <2>1, <2>3, <2>4
  <2>5. CASE o # "invalid"
    BY <2>1, <2>3, <2>5
  <2>6. QED
    BY <2>4, <2>5
<1>2. l \in Worker!Local /\ wk \in [Workers -> Worker!Local] /\ l.inc \in Incidents /\ l.rca \in BOOLEAN
  BY <1>1 DEF WorkerTypes, WorkerOK, Worker!LoopStages, Worker!Local
<1>3. CASE Worker!Goto(w, "failJob")
  BY <1>1, <1>3, FailedTurn DEF Worker!RunStages
<1>4. ASSUME NEW pc \in {"failJob", "saveRun"}, NEW o \in {"rca", "waiting", "invalid"},
             wk' = [wk EXCEPT ![w] = m(pc, o)], pc = "saveRun" => o \in {"rca", "waiting"}
      PROVE  WorkerTurn(w)
  <2>1. /\ m(pc, o) \in Worker!Local /\ m(pc, o).pc = pc /\ m(pc, o).inc = l.inc
        /\ m(pc, o).outcome = o /\ m(pc, o).rca = (l.rca \/ o = "rca")
    BY <1>2 DEF Worker!Local, Worker!RunStages
  <2> HIDE DEF m
  <2>2. wk'[w] = m(pc, o) /\ wk' = [wk EXCEPT ![w] = wk'[w]]
    BY <1>2, <1>4
  <2>3. WorkerOK(wk'[w])
    BY <1>2, <1>4, <2>1, <2>2 DEF WorkerOK
  <2>4. GoesOnWorking(l, wk'[w], w \in cancelled)
    BY <1>1, <1>2, <1>4, <2>1, <2>2 DEF GoesOnWorking, Worker!LoopStages, Worker!RunStages, Worker!MarkStages, CopyStages
  <2>5. QED
    BY <1>1, <2>2, <2>3, <2>4 DEF WorkerTurn
<1> HIDE DEF m
<1>5. QED
  BY <1>1, <1>3, <1>4

\* CreateAgentRun.
LEMMA SaveRunTurn ==
  ASSUME WorkerTypes, NEW w \in Workers, Worker!SaveRun(w)
  PROVE  WorkerTurn(w)
<1> DEFINE l == wk[w]
           next == IF l.outcome = "waiting" THEN "park" ELSE "rootCause"
<1>1. /\ l.pc = "saveRun" /\ UNCHANGED <<cancelled, faults, crashes, stops, stalls>> /\ UNCHANGED Tables
      /\ Worker!Goto(w, next)
  BY DEF Worker!SaveRun, Worker!At, Worker!OnJobs, Worker!CreateAgentRun,
         WorkerTypes, Worker!Call, Worker!Fault, Worker!Refused, Worker!NoFault, Worker!Live,
         Worker!envVars, Worker!storeVars, Worker!jobVars, Tables
<1>2. l \in Worker!Local /\ l.inc \in Incidents /\ WorkerOK(l)
  BY <1>1 DEF WorkerTypes, WorkerOK, Worker!LoopStages
<1>3. next \in Stages /\ next \in {"park", "rootCause"} /\ (next = "rootCause" => l.rca)
  BY <1>1, <1>2 DEF Stages, Worker!RunStages, WorkerOK
<1> HIDE DEF next
<1>4. /\ wk' = [wk EXCEPT ![w] = wk'[w]] /\ wk'[w] \in Worker!Local /\ wk'[w].pc = next
      /\ wk'[w].inc = l.inc /\ wk'[w].rca = l.rca
  BY <1>1, <1>3, StageIs
<1>5. WorkerOK(wk'[w])
  BY <1>2, <1>3, <1>4 DEF WorkerOK
<1>6. GoesOnWorking(l, wk'[w], w \in cancelled)
  BY <1>1, <1>3, <1>4 DEF GoesOnWorking, Worker!LoopStages, Worker!RunStages, Worker!MarkStages, CopyStages
<1>7. QED
  BY <1>1, <1>4, <1>5, <1>6 DEF WorkerTurn

\* CompleteJob.
LEMMA CompleteTurn ==
  ASSUME WorkerTypes, NEW w \in Workers, Worker!Complete(w)
  PROVE  WorkerTurn(w)
<1> DEFINE l == wk[w]
           j == [job[l.inc] EXCEPT !.status = "completed"]
<1>1. /\ l.pc = "complete" /\ UNCHANGED <<cancelled, faults, crashes, stops, stalls, status, timeline, inv>>
      /\ Worker!Return(w, "wait") \/ Worker!Return(w, "backoff")
      /\ UNCHANGED job \/ job' = [job EXCEPT ![l.inc].status = "completed"]
  BY DEF Worker!Complete, Worker!CompleteJob, Worker!At, Worker!OnJobs,
         WorkerTypes, Worker!Call, Worker!Fault, Worker!Refused, Worker!NoFault, Worker!Live,
         Worker!envVars, Worker!storeVars, Worker!jobVars
<1>2. CASE UNCHANGED job
  BY <1>1, <1>2, LeavesTurn DEF Tables, Worker!LoopStages
<1>3. CASE job' = [job EXCEPT ![l.inc].status = "completed"]
  <2>1. l.inc \in Incidents /\ job \in [Incidents -> Worker!JobRow]
    BY <1>1 DEF WorkerTypes, WorkerOK, Worker!LoopStages
  <2>2. j \in Worker!JobRow /\ j.status = "completed"
    BY <2>1 DEF Worker!JobRow
  <2>3. job' = [job EXCEPT ![l.inc] = j]
    BY <1>3, <2>1
  <2> HIDE DEF j
  <2>4. job'[l.inc] = j /\ job' = [job EXCEPT ![l.inc] = job'[l.inc]]
    BY <2>1, <2>3
  <2>5. wk' = [wk EXCEPT ![w] = wk'[w]] /\ WorkerOK(wk'[w]) /\ wk'[w].pc \in Worker!LoopStages
    BY <1>1, LoopIs DEF Worker!LoopStages
  <2>6. Completes(l, wk'[w])
    BY <1>1, <2>2, <2>4, <2>5 DEF Completes
  <2>7. QED
    BY <1>1, <2>5, <2>6 DEF WorkerTurn
<1>4. QED
  BY <1>1, <1>2, <1>3

\* FailJob.
LEMMA FailTurn ==
  ASSUME WorkerTypes, NEW w \in Workers, Worker!Fail(w)
  PROVE  WorkerTurn(w)
<1> DEFINE l == wk[w]
           dead == [job[l.inc] EXCEPT !.status = "dead_letter"]
           again == [job[l.inc] EXCEPT !.status = "pending", !.due = FALSE]
<1>1. l.pc = "failJob" /\ l.inc \in Incidents /\ job \in [Incidents -> Worker!JobRow] /\ ~Worker!Fault
  BY DEF WorkerTypes, WorkerOK, Worker!LoopStages, Worker!Fault, Worker!Fail, Worker!At
<1>2. /\ UNCHANGED <<cancelled, faults, crashes, stops, stalls, status, timeline, inv>>
      /\ \/ UNCHANGED job /\ Worker!Return(w, "backoff")
         \/ /\ w \notin cancelled /\ Worker!Goto(w, "markRead")
            /\ job' = [job EXCEPT ![l.inc] = dead] \/ job' = [job EXCEPT ![l.inc] = again]
  BY <1>1 DEF Worker!Fail, Worker!FailJob, Worker!OnJobs, Worker!Call, Worker!Refused, Worker!NoFault,
         Worker!Live, Worker!envVars, Worker!storeVars, Worker!jobVars
<1>3. CASE UNCHANGED job /\ Worker!Return(w, "backoff")
  BY <1>1, <1>2, <1>3, LeavesTurn DEF Tables, Worker!LoopStages
<1>4. ASSUME w \notin cancelled, Worker!Goto(w, "markRead"), NEW j \in {dead, again},
             job' = [job EXCEPT ![l.inc] = j]
      PROVE  WorkerTurn(w)
  <2>1. j \in Worker!JobRow /\ (j.status = "dead_letter" \/ (j.status = "pending" /\ ~j.due))
    BY <1>1 DEF Worker!JobRow
  <2> HIDE DEF dead, again
  <2>2. job'[l.inc] = j /\ job' = [job EXCEPT ![l.inc] = job'[l.inc]]
    BY <1>1, <1>4
  <2>3. "markRead" \in Stages
    BY DEF Stages, Worker!MarkStages
  <2>4. /\ wk' = [wk EXCEPT ![w] = wk'[w]] /\ wk'[w] \in Worker!Local /\ wk'[w].pc = "markRead"
        /\ wk'[w].inc = l.inc
    BY <1>4, <2>3, StageIs
  <2>5. WorkerOK(wk'[w])
    BY <1>1, <2>4 DEF WorkerOK
  <2>6. Fails(l, wk'[w], w \in cancelled)
    BY <1>1, <1>2, <1>4, <2>1, <2>2, <2>4 DEF Fails
  <2>7. QED
    BY <1>2, <2>4, <2>5, <2>6 DEF WorkerTurn
<1> HIDE DEF dead, again
<1>5. QED
  BY <1>2, <1>3, <1>4

\* Run: the loop around processOne.
LEMMA LoopTurn ==
  ASSUME WorkerTypes, NEW w \in Workers, Worker!Renotify(w) \/ Worker!Backoff(w) \/ Worker!WaitForJob(w)
  PROVE  WorkerTurn(w)
<1>1. /\ wk[w].pc \in {"renotify", "backoff", "wait"} /\ UNCHANGED Tables
      /\ UNCHANGED <<cancelled, faults, crashes, stops, stalls>>
      /\ Worker!Return(w, "backoff") \/ Worker!Return(w, "idle") \/ Worker!Return(w, "exited")
  BY DEF Worker!Renotify, Worker!Backoff, Worker!WaitForJob, Worker!At, Worker!envVars,
         Worker!storeVars, Worker!jobVars, Tables
<1>2. QED
  BY <1>1, LeavesTurn DEF Worker!LoopStages, Worker!RunStages

\* So a step of a worker outside its propose stage is always a WorkerTurn.
LEMMA StepTurn ==
  ASSUME WorkerTypes, NEW w \in Workers, WorkerStep(w)
  PROVE  WorkerTurn(w) /\ wk[w].pc # "propose" /\ UNCHANGED <<proposal, req>>
<1>1. wk[w].pc # "propose" /\ UNCHANGED <<proposal, req>> /\ Worker!Step(w)
  BY DEF WorkerStep, remediationVars
<1>2. ~Worker!Propose(w)
  BY <1>1 DEF Worker!Propose, Worker!At
<1>3. QED
  BY <1>1, <1>2, ClaimTurn, LoadTurn, WriteTurn, WorkerReadTurn, WorkerUpdateTurn, AnalyseTurn, SaveRunTurn,
     CompleteTurn, FailTurn, MarkWriteTurn, LoopTurn DEF Worker!Step

-----------------------------------------------------------------------------
(***************************************************************************)
(* Types, of every step                                                    *)
(***************************************************************************)

\* A worker calls the service in its propose stage only.
Types ==
    /\ ServiceTypes /\ WorkerTypes
    /\ \A w \in Workers : req[w].pc # "idle" => wk[w].pc = "propose"

\* The call of ProposeFromRCA is over, and its worker goes on.
ToFinish(w) ==
    /\ wk' = [wk EXCEPT ![w] = wk'[w]] /\ wk[w].pc = "propose"
    /\ wk'[w].pc = "finish" /\ wk'[w].inc = wk[w].inc /\ wk'[w].rca = wk[w].rca
    /\ WorkerOK(wk'[w])

\* A step of the call in slot r leaves the workers alone, or ends it and lets its worker go on.
LEMMA GoesOnIs ==
  ASSUME Types, NEW r \in Slots, GoesOn(r), r \in Workers => wk[r].pc = "propose"
  PROVE  /\ UNCHANGED <<job, inv, cancelled, crashes, stops, stalls>>
         /\ \/ UNCHANGED wk /\ (r \in Workers => req'[r].pc # "idle")
            \/ r \in Workers /\ ToFinish(r) /\ req'[r].pc = "idle"
<1>1. UNCHANGED <<job, inv, cancelled, crashes, stops, stalls>>
  BY DEF GoesOn
<1>2. CASE ~(r \in Workers /\ req'[r].pc = "idle")
  BY <1>1, <1>2 DEF GoesOn
<1>3. CASE r \in Workers /\ req'[r].pc = "idle"
  <2> DEFINE m == [wk[r] EXCEPT !.pc = "finish"]
  <2>1. wk \in [Workers -> Worker!Local] /\ wk[r] \in Worker!Local /\ WorkerOK(wk[r])
    BY <1>3 DEF Types, WorkerTypes
  <2>2. m \in Worker!Local /\ m.pc = "finish" /\ m.inc = wk[r].inc /\ m.rca = wk[r].rca
    BY <2>1 DEF Worker!Local, Worker!RunStages
  <2>3. WorkerOK(m)
    BY <1>3, <2>1, <2>2 DEF WorkerOK, Worker!LoopStages
  <2>4. wk' = [wk EXCEPT ![r] = m]
    BY <1>3, <2>1 DEF GoesOn
  <2> HIDE DEF m
  <2>5. wk'[r] = m /\ wk' = [wk EXCEPT ![r] = wk'[r]]
    BY <1>3, <2>1, <2>4
  <2>6. QED
    BY <1>1, <1>3, <2>2, <2>3, <2>5 DEF ToFinish
<1>4. QED
  BY <1>2, <1>3

\* Each step of the system, as one of ten kinds.
Serves(r) ==
    /\ Turn(r) \/ Opens(r)
    /\ \/ UNCHANGED wk /\ (r \in Workers => wk[r].pc = "propose" /\ req'[r].pc # "idle")
       \/ r \in Workers /\ ToFinish(r) /\ req'[r].pc = "idle"
    /\ UNCHANGED <<job, inv, cancelled, crashes, stops, stalls>>

Decided(o) ==
    /\ \E p \in Proposals : Decides(o, p)
    /\ UNCHANGED <<wk, job, inv, cancelled, crashes, stops, stalls>>

Works(w) == WorkerTurn(w) /\ wk[w].pc # "propose" /\ UNCHANGED <<proposal, req>>

CutShort(w) ==
    /\ Drops(w) /\ ToFinish(w)
    /\ UNCHANGED <<job, inv, cancelled, crashes, stops, stalls>>

Dies(w) ==
    /\ Drops(w)
    /\ wk' = [wk EXCEPT ![w] = Worker!Loop("idle")] /\ crashes' = crashes + 1
    /\ cancelled' = cancelled \ {w}
    /\ UNCHANGED <<job, inv, stops, stalls>>

Stops(w) ==
    /\ stops' = stops + 1 /\ cancelled' = cancelled \cup {w}
    /\ UNCHANGED <<Tables, proposal, req, wk, faults, crashes, stalls>>

Restarts(w) ==
    /\ wk[w].pc = "exited" /\ wk' = [wk EXCEPT ![w] = Worker!Loop("idle")]
    /\ cancelled' = cancelled \ {w}
    /\ UNCHANGED <<Tables, proposal, req, faults, crashes, stops, stalls>>

Arrives(i) ==
    /\ Lifecycle!Create(i)
    /\ inv' = [inv EXCEPT ![i] = [status |-> "pending", rca |-> FALSE]]
    /\ job' = [job EXCEPT ![i] = [status |-> "pending", attempts |-> 0, due |-> TRUE]]
    /\ UNCHANGED <<proposal, req, wk, cancelled, faults, crashes, stops, stalls>>

Due(i) ==
    /\ job[i].status = "pending" /\ ~job[i].due
    /\ job' = [job EXCEPT ![i].due = TRUE]
    /\ \A w \in Workers : ~(wk[w].pc \in Worker!MarkStages /\ wk[w].inc = i)
    /\ UNCHANGED <<status, timeline, inv, proposal, req, wk, cancelled, faults, crashes, stops, stalls>>

Still == UNCHANGED <<Tables, proposal, req, wk, cancelled, faults, crashes, stops, stalls>>

\* There are no other steps.
LEMMA Kinds ==
  ASSUME Types, [Next]_vars
  PROVE  \/ \E r \in Slots : Serves(r)
         \/ \E o \in Operators : Decided(o)
         \/ \E w \in Workers : \/ Works(w) \/ CutShort(w) \/ Dies(w) \/ Stops(w) \/ Restarts(w)
         \/ \E i \in Incidents : Arrives(i) \/ Due(i)
         \/ Still
<1>0. /\ ServiceTypes /\ WorkerTypes /\ Workers \subseteq Slots /\ Operators \subseteq Slots
      /\ \A o \in Operators : o \notin Workers
  BY DEF Types, Slots
<1>1. ASSUME NEW w \in Workers, WorkerStep(w) PROVE Works(w)
  BY <1>0, <1>1, StepTurn DEF Works
<1>2. ASSUME NEW w \in Workers, ProposeFromRCA(w) PROVE Serves(w)
  <2>1. wk[w].inc \in Incidents /\ RcaActions \in Seq(Tools) /\ wk[w].pc = "propose"
    BY <1>0, <1>2 DEF WorkerTypes, WorkerOK, Worker!LoopStages, ProposeFromRCA, RcaActions
  <2>2. Opens(w)
    BY <1>0, <1>2, <2>1, ProposeOpens DEF ProposeFromRCA
  <2>3. QED
    BY <1>0, <1>2, <2>1, <2>2, GoesOnIs DEF Serves, ProposeFromRCA
<1>3. ASSUME NEW r \in Slots, CallStep(r) PROVE Serves(r)
  <2>1. Turn(r) /\ GoesOn(r)
    BY <1>0, <1>3, CallTurn DEF CallStep
  <2>2. r \in Workers => wk[r].pc = "propose"
    BY <2>1 DEF Turn, Types
  <2>3. QED
    BY <2>1, <2>2, GoesOnIs DEF Serves
<1>4. ASSUME NEW w \in Workers, ProposeCutShort(w) PROVE CutShort(w)
  <2>1. /\ wk[w].pc = "propose" /\ req' = [req EXCEPT ![w] = Service!Idle] /\ GoesOn(w)
        /\ UNCHANGED <<status, timeline, faults, proposal>>
    BY <1>4 DEF ProposeCutShort
  <2>2. req'[w].pc = "idle"
    BY <1>0, <2>1, IdleOK DEF ServiceTypes
  <2>3. QED
    BY <1>0, <2>1, <2>2, GoesOnIs DEF CutShort, Drops
<1>5. ASSUME NEW o \in Operators, NEW i \in Incidents, OperatorPropose(o, i) PROVE Serves(o)
  <2>1. Opens(o)
    BY <1>0, <1>5, ProposeOpens DEF OperatorPropose
  <2>2. QED
    BY <1>0, <1>5, <2>1 DEF Serves, OperatorPropose, investigationVars
<1>6. ASSUME NEW o \in Operators, NEW p \in Proposals, NEW d \in Service!Decision, OperatorDecide(o, p, d)
      PROVE  Decided(o)
  BY <1>0, <1>6, DecideDecides DEF Decided, OperatorDecide, investigationVars
<1>7. ASSUME NEW w \in Workers, Crash(w) PROVE Dies(w)
  BY <1>7 DEF Crash, Worker!Crash, Dies, Drops, Worker!storeVars, Worker!jobVars
<1>8. ASSUME NEW w \in Workers, Stop(w) PROVE Stops(w)
  BY <1>8 DEF Stop, Worker!Stop, Stops, Tables, remediationVars, Worker!storeVars, Worker!jobVars
<1>9. ASSUME NEW w \in Workers, Restart(w) PROVE Restarts(w)
  BY <1>9 DEF Restart, Worker!Restart, Worker!Return, Worker!At, Restarts, Tables, remediationVars,
              Worker!storeVars, Worker!jobVars
<1>10. ASSUME NEW i \in Incidents, Intake(i) PROVE Arrives(i)
  BY <1>10 DEF Intake, Worker!Intake, Worker!Persist, Worker!CreateWithEvent, Worker!SetStatus, Worker!NoStatus,
               Lifecycle!NoStatus, Lifecycle!Create, Lifecycle!Record, Arrives, remediationVars, Worker!envVars
<1>11. ASSUME NEW i \in Incidents, FallDue(i) PROVE Due(i)
  BY <1>0, <1>11 DEF FallDue, Worker!FallDue, Worker!OnJobs, Worker!Elapse, Worker!Stalled, Due, remediationVars,
               Worker!storeVars, WorkerTypes
<1>12. ASSUME NEW i \in Incidents, Notify(i) PROVE Still
  BY <1>12 DEF Notify, Worker!Notify, Still, Tables, remediationVars, Worker!storeVars, Worker!jobVars,
               Worker!envVars
<1>13. CASE UNCHANGED vars
  BY <1>13 DEF vars, investigationVars, remediationVars, Still, Tables
<1>14. QED
  BY <1>1, <1>2, <1>3, <1>4, <1>5, <1>6, <1>7, <1>8, <1>9, <1>10, <1>11, <1>12, <1>13 DEF Next, Slots

\* A call has types after its step, and so have the tables it changes.
LEMMA ServesTypes ==
  ASSUME Types, NEW r \in Slots, Serves(r)
  PROVE  ServiceTypes'
<1>1. ServiceTypes
  BY DEF Types
<1>2. /\ req' = [req EXCEPT ![r] = req'[r]] /\ CallOK(r, req'[r]) /\ UNCHANGED faults
      /\ req[r] \in Service!Local
  BY <1>1 DEF Serves, Turn, Opens, Opening, ServiceTypes
<1>3. /\ req' \in [Slots -> Service!Local]
      /\ \A q \in Slots : CallOK(q, req'[q])
  BY <1>1, <1>2 DEF ServiceTypes, CallOK
<1>4. status' \in [Incidents -> Lifecycle!Status \cup {Lifecycle!NoStatus}]
  <2>1. CASE Moves(req[r])
    BY <1>1, <1>2, <2>1, SameStatus DEF Moves, ServiceTypes, Service!Local
  <2>2. CASE UNCHANGED status
    BY <1>1, <2>2 DEF ServiceTypes
  <2>3. QED
    BY <2>1, <2>2 DEF Serves, Turn, Opens, Opening, Marks
<1>5. proposal' \in [Proposals -> Service!ProposalRow]
  <2>1. CASE Opens(r)
    <3>1. PICK p \in Proposals, i \in Incidents, a \in Seq(Tools) : Opening(r, p, i, a)
      BY <2>1 DEF Opens
    <3>2. [status |-> "proposed", inc |-> i, actions |-> a] \in Service!ProposalRow
      BY DEF Service!ProposalRow
    <3>3. QED
      BY <1>1, <3>1, <3>2 DEF ServiceTypes, Opening
  <2>2. ASSUME NEW m, Marks(req[r], m) PROVE proposal' \in [Proposals -> Service!ProposalRow]
    <3>1. PICK s \in {"approved", "rejected", "executed", "failed"} :
             proposal' = [proposal EXCEPT ![req[r].pid].status = s]
      BY <2>2 DEF Marks
    <3>2. req[r].pid \in Proposals
      BY <1>2 DEF Service!Local
    <3>3. [proposal[req[r].pid] EXCEPT !.status = s] \in Service!ProposalRow
      BY <1>1, <3>2 DEF ServiceTypes, Service!ProposalRow
    <3>4. QED
      BY <1>1, <3>1, <3>2, <3>3 DEF ServiceTypes
  <2>3. CASE UNCHANGED proposal
    BY <1>1, <2>3 DEF ServiceTypes
  <2>4. QED
    BY <2>1, <2>2, <2>3 DEF Serves, Turn, Moves
<1>6. QED
  BY <1>1, <1>2, <1>3, <1>4, <1>5 DEF ServiceTypes

\* So has a worker.
LEMMA WorksTypes ==
  ASSUME Types, NEW w \in Workers, Works(w)
  PROVE  Types'
<1> DEFINE l == wk[w]
           m == wk'[w]
<1>1. ServiceTypes /\ WorkerTypes /\ l \in Worker!Local /\ WorkerOK(l)
  BY DEF Types, WorkerTypes
<1>2. /\ wk' = [wk EXCEPT ![w] = m] /\ WorkerOK(m) /\ UNCHANGED <<cancelled, faults, crashes, stops, stalls>>
      /\ UNCHANGED <<proposal, req>> /\ l.pc # "propose"
      /\ \/ Claims(l, m) \/ GoesOnWorking(l, m, w \in cancelled) \/ Writes(l, m) \/ Transitions(l, m)
         \/ Completes(l, m) \/ Fails(l, m, w \in cancelled) \/ Leaves(l, m)
  BY DEF Works, WorkerTurn
<1>3. l.pc \notin Worker!LoopStages => l.inc \in Incidents
  BY <1>1 DEF WorkerOK
<1> HIDE DEF l, m
<1>4. wk' \in [Workers -> Worker!Local] /\ \A v \in Workers : WorkerOK(wk'[v])
  BY <1>1, <1>2 DEF WorkerTypes, WorkerOK
<1>5. status' \in [Incidents -> Lifecycle!Status \cup {Lifecycle!NoStatus}]
  <2>1. CASE Transitions(l, m)
    <3>1. PICK to \in {"TRIAGING", "INVESTIGATING", "ROOT_CAUSE_IDENTIFIED"} : status' = [status EXCEPT ![l.inc] = to]
      BY <2>1 DEF Transitions
    <3>2. to \in Lifecycle!Status
      BY DEF Lifecycle!Status
    <3>3. QED
      BY <1>1, <3>1, <3>2 DEF WorkerTypes
  <2>2. CASE UNCHANGED status
    BY <1>1, <2>2 DEF WorkerTypes
  <2>3. QED
    BY <1>2, <2>1, <2>2 DEF Claims, GoesOnWorking, Writes, Completes, Fails, Leaves, Tables
<1>6. job' \in [Incidents -> Worker!JobRow]
  <2>1. \/ UNCHANGED job
        \/ \E i \in Incidents : job' = [job EXCEPT ![i] = job'[i]] /\ job'[i] \in Worker!JobRow
    BY <1>2, <1>3 DEF Claims, GoesOnWorking, Writes, Completes, Fails, Leaves, Tables, Transitions, Worker!LoopStages
  <2>2. QED
    BY <1>1, <2>1 DEF WorkerTypes
<1>7. inv' \in [Incidents -> Worker!InvestigationRow]
  <2>1. \/ UNCHANGED inv
        \/ \E i \in Incidents : inv' = [inv EXCEPT ![i] = inv'[i]] /\ inv'[i] \in Worker!InvestigationRow
    BY <1>2, <1>3 DEF Claims, GoesOnWorking, Writes, Completes, Fails, Leaves, Tables, Transitions, Worker!LoopStages
  <2>2. QED
    BY <1>1, <2>1 DEF WorkerTypes
<1>8. WorkerTypes' /\ ServiceTypes'
  BY <1>1, <1>2, <1>4, <1>5, <1>6, <1>7 DEF WorkerTypes, ServiceTypes
<1>9. \A v \in Workers : req'[v].pc # "idle" => wk'[v].pc = "propose"
  BY <1>1, <1>2 DEF Types, WorkerTypes, l
<1>10. QED
  BY <1>8, <1>9 DEF Types

\* Each kind of step keeps the types.
LEMMA TypesNext == Types /\ [Next]_vars => Types'
<1> SUFFICES ASSUME Types, [Next]_vars PROVE Types'
  OBVIOUS
<1>0. ServiceTypes /\ WorkerTypes /\ \A w \in Workers : req[w].pc # "idle" => wk[w].pc = "propose"
  BY DEF Types
<1>1. ASSUME NEW r \in Slots, Serves(r) PROVE Types'
  <2>1. ServiceTypes'
    BY <1>1, ServesTypes
  <2>2. WorkerTypes'
    <3>1. /\ wk' \in [Workers -> Worker!Local] /\ \A v \in Workers : WorkerOK(wk'[v])
      BY <1>0, <1>1 DEF Serves, ToFinish, WorkerTypes, WorkerOK
    <3>2. QED
      BY <1>0, <1>1, <2>1, <3>1 DEF Serves, WorkerTypes, ServiceTypes
  <2>3. \A w \in Workers : req'[w].pc # "idle" => wk'[w].pc = "propose"
    <3>1. req' = [req EXCEPT ![r] = req'[r]]
      BY <1>1 DEF Serves, Turn, Opens, Opening
    <3>2. QED
      BY <1>0, <1>1, <3>1 DEF Serves, ToFinish, WorkerTypes, ServiceTypes, Slots
  <2>4. QED
    BY <2>1, <2>2, <2>3 DEF Types
<1>2. ASSUME NEW o \in Operators, Decided(o) PROVE Types'
  <2>1. /\ req' = [req EXCEPT ![o] = req'[o]] /\ CallOK(o, req'[o])
        /\ UNCHANGED <<status, proposal, faults, wk, job, inv, cancelled, crashes, stops, stalls>>
    BY <1>2 DEF Decided, Decides
  <2>2. req' \in [Slots -> Service!Local] /\ \A q \in Slots : CallOK(q, req'[q])
    BY <1>0, <2>1 DEF ServiceTypes, CallOK
  <2>3. \A w \in Workers : req'[w] = req[w]
    BY <1>0, <2>1 DEF ServiceTypes, Slots
  <2>4. QED
    BY <1>0, <2>1, <2>2, <2>3 DEF Types, ServiceTypes, WorkerTypes
<1>3. ASSUME NEW w \in Workers, Works(w) PROVE Types'
  BY <1>3, WorksTypes
<1>4. ASSUME NEW w \in Workers, Drops(w) PROVE ServiceTypes' /\ req'[w].pc = "idle" /\ \A v \in Workers : v # w => req'[v] = req[v]
  <2>1. req' \in [Slots -> Service!Local] /\ \A q \in Slots : CallOK(q, req'[q])
    BY <1>0, <1>4, IdleOK DEF Drops, ServiceTypes, CallOK, Slots
  <2>2. QED
    BY <1>0, <1>4, <2>1, IdleOK DEF Drops, ServiceTypes, Slots
<1>5. Worker!Loop("idle") \in Worker!Local /\ WorkerOK(Worker!Loop("idle"))
  <2>1. Worker!Loop("idle") \in Worker!Local /\ Worker!Loop("idle").pc = "idle"
    BY DEF Worker!Loop, Worker!Local, Worker!LoopStages, Worker!NoIncident, Worker!NoStatus
  <2>2. QED
    BY <2>1 DEF WorkerOK, Worker!LoopStages
<1>6. ASSUME NEW w \in Workers, CutShort(w) PROVE Types'
  <2>1. wk' \in [Workers -> Worker!Local] /\ \A v \in Workers : WorkerOK(wk'[v])
    BY <1>0, <1>6 DEF CutShort, ToFinish, WorkerTypes, WorkerOK
  <2>2. WorkerTypes'
    BY <1>0, <1>6, <2>1 DEF CutShort, Drops, WorkerTypes
  <2>3. \A v \in Workers : req'[v].pc # "idle" => wk'[v].pc = "propose"
    BY <1>0, <1>4, <1>6 DEF CutShort, ToFinish, WorkerTypes
  <2>4. QED
    BY <1>4, <1>6, <2>2, <2>3 DEF Types, CutShort
<1>7. ASSUME NEW w \in Workers, Dies(w) PROVE Types'
  <2>1. wk' \in [Workers -> Worker!Local] /\ \A v \in Workers : WorkerOK(wk'[v])
    BY <1>0, <1>5, <1>7 DEF Dies, WorkerTypes
  <2>2. crashes' \in Nat
    BY <1>0, <1>7 DEF Dies, WorkerTypes
  <2>3. WorkerTypes'
    BY <1>0, <1>7, <2>1, <2>2 DEF Dies, Drops, WorkerTypes
  <2>4. \A v \in Workers : req'[v].pc # "idle" => wk'[v].pc = "propose"
    BY <1>0, <1>4, <1>7 DEF Dies, WorkerTypes
  <2>5. QED
    BY <1>4, <1>7, <2>3, <2>4 DEF Types, Dies
<1>8. ASSUME NEW w \in Workers, Stops(w) PROVE Types'
  <2>1. stops' \in Nat
    BY <1>0, <1>8 DEF Stops, WorkerTypes
  <2>2. QED
    BY <1>0, <1>8, <2>1 DEF Stops, Tables, Types, WorkerTypes, ServiceTypes
<1>9. ASSUME NEW w \in Workers, Restarts(w) PROVE Types'
  <2>1. wk' \in [Workers -> Worker!Local] /\ \A v \in Workers : WorkerOK(wk'[v])
    BY <1>0, <1>5, <1>9 DEF Restarts, WorkerTypes
  <2>2. \A v \in Workers : req'[v].pc # "idle" => wk'[v].pc = "propose"
    BY <1>0, <1>9 DEF Restarts, WorkerTypes
  <2>3. QED
    BY <1>0, <1>9, <2>1, <2>2 DEF Restarts, Tables, Types, WorkerTypes, ServiceTypes
<1>10. ASSUME NEW i \in Incidents, Arrives(i) PROVE Types'
  <2>1. status' \in [Incidents -> Lifecycle!Status \cup {Lifecycle!NoStatus}]
    BY <1>0, <1>10 DEF Arrives, Lifecycle!Create, Lifecycle!Record, Lifecycle!Status, ServiceTypes
  <2>2. job' \in [Incidents -> Worker!JobRow] /\ inv' \in [Incidents -> Worker!InvestigationRow]
    BY <1>0, <1>10 DEF Arrives, WorkerTypes, Worker!JobRow, Worker!InvestigationRow
  <2>3. QED
    BY <1>0, <1>10, <2>1, <2>2 DEF Arrives, Types, WorkerTypes, ServiceTypes
<1>11. ASSUME NEW i \in Incidents, Due(i) PROVE Types'
  <2>1. [job[i] EXCEPT !.due = TRUE] \in Worker!JobRow /\ job \in [Incidents -> Worker!JobRow]
    BY <1>0 DEF WorkerTypes, Worker!JobRow
  <2>2. job' \in [Incidents -> Worker!JobRow]
    BY <1>11, <2>1 DEF Due
  <2>3. QED
    BY <1>0, <1>11, <2>2 DEF Due, Types, WorkerTypes, ServiceTypes
<1>12. ASSUME Still PROVE Types'
  BY <1>0, <1>12 DEF Still, Tables, Types, WorkerTypes, ServiceTypes
<1>13. QED
  BY <1>1, <1>2, <1>3, <1>6, <1>7, <1>8, <1>9, <1>10, <1>11, <1>12, Kinds

LEMMA TypesInit == Init => Types
<1> SUFFICES ASSUME Init PROVE Types
  OBVIOUS
<1>1. /\ status = [i \in Incidents |-> "none"]
      /\ job = [i \in Incidents |-> [status |-> "none", attempts |-> 0, due |-> FALSE]]
      /\ inv = [i \in Incidents |-> [status |-> "none", rca |-> FALSE]]
      /\ wk = [w \in Workers |-> Worker!Loop("idle")]
      /\ cancelled = {} /\ faults = 0 /\ crashes = 0 /\ stops = 0 /\ stalls = 0
      /\ proposal = [p \in Proposals |-> Service!NoProposal] /\ req = [r \in Slots |-> Service!Idle]
  BY DEF Init, Worker!Init, Worker!StoreInit, Worker!JobStoreInit, Worker!NoStatus, Service!Init, Slots
<1>2. Service!NoProposal \in Service!ProposalRow
  <2>1. (CHOOSE i \in Incidents : TRUE) \in Incidents
    OBVIOUS
  <2>2. <<>> \in Seq(Tools)
    OBVIOUS
  <2>3. QED
    BY <2>1, <2>2 DEF Service!NoProposal, Service!ProposalRow
<1>3. req \in [Slots -> Service!Local] /\ \A r \in Slots : CallOK(r, req[r]) /\ req[r].pc = "idle"
  BY <1>1, IdleOK DEF CallOK
<1>4. ServiceTypes
  BY <1>1, <1>2, <1>3, SameStatus DEF ServiceTypes
<1>5. wk \in [Workers -> Worker!Local] /\ \A w \in Workers : WorkerOK(wk[w])
  <2>1. Worker!Loop("idle") \in Worker!Local /\ Worker!Loop("idle").pc = "idle"
    BY DEF Worker!Loop, Worker!Local, Worker!LoopStages, Worker!NoIncident, Worker!NoStatus
  <2>2. WorkerOK(Worker!Loop("idle"))
    BY <2>1 DEF WorkerOK, Worker!LoopStages
  <2>3. QED
    BY <1>1, <2>1, <2>2
<1>6. job \in [Incidents -> Worker!JobRow] /\ inv \in [Incidents -> Worker!InvestigationRow]
  BY <1>1 DEF Worker!JobRow, Worker!InvestigationRow
<1>7. WorkerTypes
  BY <1>1, <1>4, <1>5, <1>6 DEF WorkerTypes, ServiceTypes
<1>8. QED
  BY <1>3, <1>4, <1>7 DEF Types, Slots

\* The types hold in every reachable state.
LEMMA TypesAlways == Spec => []Types
BY TypesInit, TypesNext, PTL DEF Spec

\* Readers of the database see the abstract lifecycle, whatever mixture of workers,
\* operators, retries, crashes and shutdowns acts on it (Service.Transition,
\* IntakeRepository.Persist).
THEOREM OpsPilotImplementsLifecycle == Spec => ImplementsLifecycle
<1>1. Init => Lifecycle!Init
  BY DEF Init, Worker!Init, Worker!StoreInit, Worker!NoStatus, Lifecycle!Init, Lifecycle!NoStatus
<1>2. Types /\ [Next]_vars => [Lifecycle!Next]_(Lifecycle!vars)
  <2> SUFFICES ASSUME Types, [Next]_vars PROVE [Lifecycle!Next]_(Lifecycle!vars)
    OBVIOUS
  <2>0. \A from, to : Service!CanTransition(from, to) \/ Worker!CanTransition(from, to) => Lifecycle!CanTransition(from, to)
    BY DEF Service!CanTransition, Worker!CanTransition, Lifecycle!CanTransition, Service!Status, Worker!Status,
           Lifecycle!Status, Service!validTransitions, Worker!validTransitions, Lifecycle!validTransitions
  <2>1. ASSUME NEW i \in Incidents, NEW to \in Lifecycle!Status, Lifecycle!CanTransition(status[i], to),
               status' = [status EXCEPT ![i] = to],
               timeline' = [timeline EXCEPT ![i] = Append(@, [from |-> status[i], to |-> to])]
        PROVE  Lifecycle!Next
    BY <2>1 DEF Lifecycle!Next, Lifecycle!Move, Lifecycle!Record
  <2>2. ASSUME NEW r \in Slots, Moves(req[r]) PROVE Lifecycle!Next
    <3>1. /\ req[r].inc \in Incidents /\ req[r].to \in Lifecycle!Status
          /\ Service!CanTransition(req[r].seen, req[r].to)
      BY <2>2, SameStatus DEF Moves, Types, ServiceTypes, CallOK, Service!Local
    <3>2. QED
      BY <2>0, <2>1, <2>2, <3>1 DEF Moves
  <2>3. ASSUME NEW w \in Workers, Transitions(wk[w], wk'[w]) PROVE Lifecycle!Next
    <3>1. wk[w].inc \in Incidents
      BY <2>3 DEF Transitions, Types, WorkerTypes, WorkerOK, Worker!LoopStages
    <3>2. PICK to \in {"TRIAGING", "INVESTIGATING", "ROOT_CAUSE_IDENTIFIED"} : status' = [status EXCEPT ![wk[w].inc] = to]
      BY <2>3 DEF Transitions
    <3>3. status'[wk[w].inc] = to /\ to \in Lifecycle!Status
      BY <3>1, <3>2 DEF Types, WorkerTypes, Lifecycle!Status
    <3>4. QED
      BY <2>0, <2>1, <2>3, <3>1, <3>2, <3>3 DEF Transitions
  <2>4. ASSUME NEW i \in Incidents, Arrives(i) PROVE Lifecycle!Next
    BY <2>4 DEF Arrives, Lifecycle!Next
  <2>5. \/ UNCHANGED <<status, timeline>>
        \/ \E r \in Slots : Moves(req[r])
        \/ \E w \in Workers : Transitions(wk[w], wk'[w])
        \/ \E i \in Incidents : Arrives(i)
    BY Kinds DEF Serves, Turn, Opens, Opening, Marks, Decided, Decides, Works, WorkerTurn, Claims, GoesOnWorking, Writes,
                 Completes, Fails, Leaves, Tables, CutShort, Dies, Drops, Stops, Restarts, Due, Still
  <2>6. QED
    BY <2>2, <2>3, <2>4, <2>5 DEF Lifecycle!vars
<1>3. QED
  BY <1>1, <1>2, TypesAlways, PTL DEF Spec, ImplementsLifecycle, Lifecycle!Spec

-----------------------------------------------------------------------------
(***************************************************************************)
(* What waits for a human is listed                                        *)
(***************************************************************************)

\* The proposal of a call of Propose is still open, unless its incident is hasty.
ProposingOpen ==
    \A r \in Slots : Proposing(req[r]) =>
        /\ proposal[req[r].pid].status # "none" /\ proposal[req[r].pid].inc = req[r].inc
        /\ proposal[req[r].pid].status = "proposed" \/ req[r].inc \in hasty

DecidingKnown ==
    \A r \in Slots : Deciding(req[r]) => /\ proposal[req[r].pid].status # "none"
                                         /\ proposal[req[r].pid].inc = req[r].inc

\* An incident that waits for approval is in the list of open proposals, or is about
\* to leave the status, or is hasty.
ListedOr(i) ==
    \/ \E p \in Proposals : proposal[p].status = "proposed" /\ proposal[p].inc = i
    \/ \E r \in Slots : req[r].inc = i /\ Settling(req[r])
    \/ i \in hasty

Listed == \A i \in Incidents : status[i] = "WAITING_FOR_APPROVAL" => ListedOr(i)

ListInv == ProposingOpen /\ DecidingKnown /\ Listed

\* An incident becomes hasty when a proposal is decided under its call, and stays so.
Hastes ==
    /\ hasty \subseteq hasty'
    /\ \A s \in Slots : Overtaken(s) => req[s].inc \in hasty'

\* No call proposes and decides at once, and an idle slot does neither.
LEMMA CallKinds ==
  /\ \A l \in Service!Local : Proposing(l) => ~Deciding(l) /\ l.pc # "idle"
  /\ \A l \in Service!Local : Settling(l) => Deciding(l) /\ l.pc # "idle"
  /\ \A l \in Service!Local : Deciding(l) => l.pc # "idle"
BY DEF Proposing, Deciding, Settling, Moving, Settled

\* A round trip of a call.
LEMMA TurnListed ==
  ASSUME Types, ListInv, NEW r \in Slots, Turn(r), Hastes
  PROVE  ListInv'
<1> DEFINE l == req[r]
           m == req'[r]
<1>1. /\ req \in [Slots -> Service!Local] /\ l \in Service!Local /\ m \in Service!Local
      /\ CallOK(r, l) /\ CallOK(r, m) /\ proposal \in [Proposals -> Service!ProposalRow]
      /\ l.inc \in Incidents /\ l.pid \in Proposals
  BY DEF Types, ServiceTypes, Turn, CallOK, Service!Local
<1>2. /\ req' = [req EXCEPT ![r] = m] /\ l.pc # "idle"
      /\ m.pc = "idle" \/ (m.inc = l.inc /\ m.pid = l.pid /\ (Proposing(l) <=> Proposing(m)))
      /\ UNCHANGED <<status, proposal>> \/ Moves(l) \/ Marks(l, m)
      /\ status[l.inc] = "WAITING_FOR_APPROVAL" /\ Settling(l)
            => Settling(m) \/ status'[l.inc] # "WAITING_FOR_APPROVAL"
  BY DEF Turn
<1> HIDE DEF l, m
<1>3. /\ \A s \in Slots : s # r => req'[s] = req[s]
      /\ req'[r] = m /\ req[r] = l
  BY <1>1, <1>2 DEF l, m
\* What the call was doing it goes on doing, or it is over.
<1>4. /\ Proposing(m) => Proposing(l) /\ m.inc = l.inc /\ m.pid = l.pid
      /\ Deciding(m) => Deciding(l) /\ m.inc = l.inc /\ m.pid = l.pid
  <2>1. Proposing(l) \/ Deciding(l)
    BY <1>1, <1>2 DEF CallOK
  <2>2. QED
    BY <1>1, <1>2, <2>1, CallKinds
\* Its own mark is the only change it makes to a proposal.
<1>5. /\ \A p \in Proposals : (proposal'[p] = proposal[p])
                              \/ (p = l.pid /\ Deciding(l) /\ Settling(m)
                                 /\ proposal'[p].inc = proposal[p].inc /\ proposal'[p].status # "none")
  <2>1. CASE Marks(l, m)
    <3>1. PICK s \in {"approved", "rejected", "executed", "failed"} :
             proposal' = [proposal EXCEPT ![l.pid].status = s]
      BY <2>1 DEF Marks
    <3>2. \A p \in Proposals : p # l.pid => proposal'[p] = proposal[p]
      BY <1>1, <3>1
    <3>3. proposal'[l.pid].inc = proposal[l.pid].inc /\ proposal'[l.pid].status = s
      BY <1>1, <3>1 DEF Service!ProposalRow
    <3>4. QED
      BY <2>1, <3>2, <3>3 DEF Marks
  <2>2. CASE UNCHANGED proposal
    BY <2>2
  <2>3. QED
    BY <1>2, <2>1, <2>2 DEF Moves
<1>6. DecidingKnown'
  <2>1. ASSUME NEW s \in Slots, Deciding(req'[s])
        PROVE  proposal'[req'[s].pid].status # "none" /\ proposal'[req'[s].pid].inc = req'[s].inc
    <3>1. /\ Deciding(req[s]) /\ req'[s].inc = req[s].inc /\ req'[s].pid = req[s].pid
          /\ req[s].pid \in Proposals
      BY <1>1, <1>3, <1>4, <2>1 DEF Service!Local
    <3>2. QED
      BY <1>5, <3>1 DEF ListInv, DecidingKnown
  <2>2. QED
    BY <2>1 DEF DecidingKnown
<1>7. ProposingOpen'
  <2>1. ASSUME NEW s \in Slots, Proposing(req'[s])
        PROVE  /\ proposal'[req'[s].pid].status # "none" /\ proposal'[req'[s].pid].inc = req'[s].inc
               /\ proposal'[req'[s].pid].status = "proposed" \/ req'[s].inc \in hasty'
    <3>1. /\ Proposing(req[s]) /\ req'[s].inc = req[s].inc /\ req'[s].pid = req[s].pid
          /\ req[s].pid \in Proposals
      BY <1>1, <1>3, <1>4, <2>1 DEF Service!Local
    <3>2. /\ proposal[req[s].pid].status # "none" /\ proposal[req[s].pid].inc = req[s].inc
          /\ proposal[req[s].pid].status = "proposed" \/ req[s].inc \in hasty
      BY <3>1 DEF ListInv, ProposingOpen
    <3>3. proposal'[req[s].pid].status # "none" /\ proposal'[req[s].pid].inc = req[s].inc
      BY <1>5, <3>1, <3>2
    <3>4. proposal'[req[s].pid].status = "proposed" \/ req[s].inc \in hasty'
      BY <3>1, <3>2 DEF Hastes, Overtaken
    <3>5. QED
      BY <3>1, <3>3, <3>4
  <2>2. QED
    BY <2>1 DEF ProposingOpen
<1>8. Listed'
  <2>1. ASSUME NEW i \in Incidents, status'[i] = "WAITING_FOR_APPROVAL"
        PROVE  ListedOr(i)'
    <3>1. CASE status[i] # "WAITING_FOR_APPROVAL"
      <4>1. Moves(l) /\ l.inc = i /\ l.to = "WAITING_FOR_APPROVAL"
        BY <1>1, <1>2, <2>1, <3>1 DEF Moves, Marks, Types, ServiceTypes
      <4>2. Proposing(l)
        BY <4>1 DEF Moves, Proposing, Moving
      <4>3. /\ proposal[l.pid].status = "proposed" \/ i \in hasty
            /\ proposal[l.pid].inc = i /\ UNCHANGED proposal
        BY <1>3, <4>1, <4>2 DEF ListInv, ProposingOpen, Moves
      <4>4. QED
        BY <1>1, <4>3 DEF ListedOr, Hastes
    <3>2. CASE status[i] = "WAITING_FOR_APPROVAL"
      <4>1. ASSUME NEW s \in Slots, req[s].inc = i, Settling(req[s]) PROVE ListedOr(i)'
        <5>1. CASE s # r
          BY <1>3, <4>1, <5>1 DEF ListedOr
        <5>2. CASE s = r
          <6>1. Settling(m) /\ m.pc # "idle"
            BY <1>1, <1>2, <1>3, <2>1, <3>2, <4>1, <5>2, CallKinds
          <6>2. m.inc = i
            BY <1>2, <1>3, <4>1, <5>2, <6>1
          <6>3. QED
            BY <1>3, <6>1, <6>2 DEF ListedOr
        <5>3. QED
          BY <5>1, <5>2
      <4>2. ASSUME NEW p \in Proposals, proposal[p].status = "proposed", proposal[p].inc = i PROVE ListedOr(i)'
        <5>1. CASE proposal'[p] = proposal[p]
          BY <4>2, <5>1 DEF ListedOr
        <5>2. CASE p = l.pid /\ Deciding(l) /\ Settling(m)
          <6>1. m.inc = l.inc /\ l.inc = i
            BY <1>1, <1>2, <1>3, <4>2, <5>2, CallKinds DEF ListInv, DecidingKnown
          <6>2. QED
            BY <1>3, <5>2, <6>1 DEF ListedOr
        <5>3. QED
          BY <1>5, <5>1, <5>2
      <4>3. ASSUME i \in hasty PROVE ListedOr(i)'
        BY <4>3 DEF ListedOr, Hastes
      <4>4. QED
        BY <3>2, <4>1, <4>2, <4>3 DEF ListInv, Listed, ListedOr
    <3>3. QED
      BY <3>1, <3>2
  <2>2. QED
    BY <2>1 DEF Listed
<1>9. QED
  BY <1>6, <1>7, <1>8 DEF ListInv

\* A call begins, of Propose or of Approve and Reject.
LEMMA OpeningListed ==
  ASSUME Types, ListInv, NEW r \in Slots, Opens(r), Hastes
  PROVE  ListInv'
<1> PICK p \in Proposals, i \in Incidents, a \in Seq(Tools) : Opening(r, p, i, a)
  BY DEF Opens
<1> DEFINE m == req'[r]
<1>1. /\ req \in [Slots -> Service!Local] /\ m \in Service!Local /\ proposal \in [Proposals -> Service!ProposalRow]
      /\ \A s \in Slots : req[s] \in Service!Local /\ req[s].pid \in Proposals
      /\ \A s \in Slots : s # r => req'[s] = req[s]
  BY DEF Types, ServiceTypes, Opening, CallOK, Service!Local
<1>2. /\ Proposing(m) /\ ~Deciding(m) /\ m.pid = p /\ m.inc = i /\ ~Settling(req[r])
      /\ ~Proposing(req[r]) /\ ~Deciding(req[r])
  BY <1>1, CallKinds DEF Opening
<1>3. /\ \A q \in Proposals : q # p => proposal'[q] = proposal[q]
      /\ proposal[p].status = "none" /\ proposal'[p].status = "proposed" /\ proposal'[p].inc = i
      /\ UNCHANGED status
  BY <1>1 DEF Opening
<1>4. \A s \in Slots : s # r /\ (Proposing(req[s]) \/ Deciding(req[s])) => req[s].pid # p
  BY <1>3 DEF ListInv, ProposingOpen, DecidingKnown
<1>5. ProposingOpen'
  <2>1. ASSUME NEW s \in Slots, Proposing(req'[s])
        PROVE  /\ proposal'[req'[s].pid].status # "none" /\ proposal'[req'[s].pid].inc = req'[s].inc
               /\ proposal'[req'[s].pid].status = "proposed" \/ req'[s].inc \in hasty'
    <3>1. CASE s = r
      BY <1>2, <1>3, <3>1
    <3>2. CASE s # r
      <4>1. req'[s] = req[s] /\ proposal'[req[s].pid] = proposal[req[s].pid]
        BY <1>1, <1>3, <1>4, <2>1, <3>2
      <4>2. QED
        BY <2>1, <4>1 DEF ListInv, ProposingOpen, Hastes
    <3>3. QED
      BY <3>1, <3>2
  <2>2. QED
    BY <2>1 DEF ProposingOpen
<1>6. DecidingKnown'
  <2>1. ASSUME NEW s \in Slots, Deciding(req'[s])
        PROVE  proposal'[req'[s].pid].status # "none" /\ proposal'[req'[s].pid].inc = req'[s].inc
    <3>1. s # r /\ req'[s] = req[s]
      BY <1>1, <1>2, <2>1
    <3>2. proposal'[req[s].pid] = proposal[req[s].pid]
      BY <1>1, <1>3, <1>4, <2>1, <3>1
    <3>3. QED
      BY <2>1, <3>1, <3>2 DEF ListInv, DecidingKnown
  <2>2. QED
    BY <2>1 DEF DecidingKnown
<1>7. Listed'
  <2>1. ASSUME NEW j \in Incidents, status'[j] = "WAITING_FOR_APPROVAL" PROVE ListedOr(j)'
    <3>1. ListedOr(j)
      BY <1>3, <2>1 DEF ListInv, Listed
    <3>2. CASE \E q \in Proposals : proposal[q].status = "proposed" /\ proposal[q].inc = j
      BY <1>3, <3>2 DEF ListedOr
    <3>3. CASE \E s \in Slots : req[s].inc = j /\ Settling(req[s])
      BY <1>1, <1>2, <3>3 DEF ListedOr
    <3>4. CASE j \in hasty
      BY <3>4 DEF ListedOr, Hastes
    <3>5. QED
      BY <3>1, <3>2, <3>3, <3>4 DEF ListedOr
  <2>2. QED
    BY <2>1 DEF Listed
<1>8. QED
  BY <1>5, <1>6, <1>7 DEF ListInv

\* It decides on a proposal, which changes nothing yet.
LEMMA DecidingListed ==
  ASSUME Types, ListInv, NEW o \in Operators, Decided(o), Hastes
  PROVE  ListInv'
<1> PICK p \in Proposals : Decides(o, p)
  BY DEF Decided
<1> DEFINE m == req'[o]
<1>1. /\ req \in [Slots -> Service!Local] /\ m \in Service!Local /\ o \in Slots
      /\ \A s \in Slots : req[s] \in Service!Local
      /\ \A s \in Slots : s # o => req'[s] = req[s]
  BY DEF Types, ServiceTypes, Decides, CallOK, Slots
<1>2. /\ Deciding(m) /\ ~Proposing(m) /\ m.pid = p /\ m.inc = proposal[p].inc /\ ~Settling(req[o])
      /\ ~Proposing(req[o]) /\ ~Deciding(req[o]) /\ proposal[p].status = "proposed"
      /\ UNCHANGED <<status, proposal>>
  BY <1>1, CallKinds DEF Decides
<1>3. ProposingOpen'
  BY <1>1, <1>2 DEF ListInv, ProposingOpen, Hastes
<1>4. DecidingKnown'
  BY <1>1, <1>2 DEF ListInv, DecidingKnown
<1>5. Listed'
  <2>1. ASSUME NEW j \in Incidents, status'[j] = "WAITING_FOR_APPROVAL" PROVE ListedOr(j)'
    <3>1. ListedOr(j)
      BY <1>2, <2>1 DEF ListInv, Listed
    <3>2. \A s \in Slots : Settling(req[s]) => req'[s] = req[s]
      BY <1>1, <1>2
    <3>3. QED
      BY <1>2, <3>1, <3>2 DEF ListedOr, Hastes
  <2>2. QED
    BY <2>1 DEF Listed
<1>6. QED
  BY <1>3, <1>4, <1>5 DEF ListInv

\* Whatever else happens leaves the proposals alone and makes no incident wait; at
\* most the call of a worker, which never decides, is cut off.
LEMMA OthersListed ==
  ASSUME Types, ListInv, Hastes, UNCHANGED proposal,
         \A s \in Slots : req'[s] = req[s] \/ (req'[s].pc = "idle" /\ ~Settling(req[s])),
         \A i \in Incidents : status'[i] = "WAITING_FOR_APPROVAL" => status[i] = "WAITING_FOR_APPROVAL"
  PROVE  ListInv'
<1>1. /\ \A s \in Slots : Proposing(req'[s]) \/ Deciding(req'[s]) => req'[s] = req[s]
  BY DEF Proposing, Deciding, Moving
<1>2. ProposingOpen' /\ DecidingKnown'
  BY <1>1 DEF ListInv, ProposingOpen, DecidingKnown, Hastes
<1>3. Listed'
  <2>1. ASSUME NEW j \in Incidents, status'[j] = "WAITING_FOR_APPROVAL" PROVE ListedOr(j)'
    BY <2>1 DEF ListInv, Listed, ListedOr, Hastes
  <2>2. QED
    BY <2>1 DEF Listed
<1>4. QED
  BY <1>2, <1>3 DEF ListInv

\* A proposal changes by the mark of a call, and CallStep looks who is overtaken; or
\* by an insert, and that is no proposal of a call under way.
LEMMA HastyNext == Types /\ ListInv /\ [Next]_vars => Hastes
<1> SUFFICES ASSUME Types, ListInv, [Next]_vars PROVE Hastes
  OBVIOUS
<1>1. ASSUME UNCHANGED hasty, UNCHANGED proposal PROVE Hastes
  BY <1>1 DEF Hastes, Overtaken
<1>2. ASSUME NEW r \in Slots, Opens(r), UNCHANGED hasty PROVE Hastes
  <2>1. PICK p \in Proposals, i \in Incidents, a \in Seq(Tools) : Opening(r, p, i, a)
    BY <1>2 DEF Opens
  <2>2. \A s \in Slots : Proposing(req[s]) => req[s].pid # p
    BY <2>1 DEF Opening, ListInv, ProposingOpen
  <2>3. \A q \in Proposals : q # p => proposal'[q] = proposal[q]
    BY <2>1 DEF Opening, Types, ServiceTypes
  <2>4. \A s \in Slots : req[s].pid \in Proposals
    BY DEF Types, ServiceTypes, Service!Local
  <2>5. QED
    BY <1>2, <2>2, <2>3, <2>4 DEF Hastes, Overtaken
<1>3. ASSUME NEW r \in Slots, CallStep(r) PROVE Hastes
  BY <1>3 DEF CallStep, Hastes, Slots
<1>4. ASSUME NEW w \in Workers, ProposeFromRCA(w) PROVE Hastes
  <2>1. wk[w].inc \in Incidents /\ RcaActions \in Seq(Tools) /\ w \in Slots
    BY <1>4 DEF Types, WorkerTypes, WorkerOK, Worker!LoopStages, ProposeFromRCA, RcaActions, Slots
  <2>2. QED
    BY <1>2, <1>4, <2>1, ProposeOpens DEF ProposeFromRCA, Types
<1>5. ASSUME NEW o \in Operators, NEW i \in Incidents, OperatorPropose(o, i) PROVE Hastes
  BY <1>2, <1>5, ProposeOpens DEF OperatorPropose, Types, Slots
<1>6. ASSUME NEW o \in Operators, NEW p \in Proposals, NEW d \in Service!Decision, OperatorDecide(o, p, d)
      PROVE  Hastes
  BY <1>1, <1>6 DEF OperatorDecide, Service!Decide, Service!propVars
<1>7. ASSUME NEW w \in Workers,
             WorkerStep(w) \/ ProposeCutShort(w) \/ Crash(w) \/ Stop(w) \/ Restart(w)
      PROVE  Hastes
  BY <1>1, <1>7 DEF WorkerStep, ProposeCutShort, Crash, Stop, Restart, remediationVars
<1>8. ASSUME NEW i \in Incidents, Intake(i) \/ Notify(i) \/ FallDue(i) PROVE Hastes
  BY <1>1, <1>8 DEF Intake, Notify, FallDue, remediationVars
<1>9. CASE UNCHANGED vars
  BY <1>1, <1>9 DEF vars, remediationVars
<1>10. QED
  BY <1>3, <1>4, <1>5, <1>6, <1>7, <1>8, <1>9 DEF Next, Slots

\* Each kind of step keeps it.
LEMMA ListNext == Types /\ ListInv /\ [Next]_vars => ListInv'
<1> SUFFICES ASSUME Types, ListInv, [Next]_vars PROVE ListInv'
  OBVIOUS
<1>0. Hastes
  BY HastyNext
<1>1. ASSUME NEW r \in Slots, Serves(r) PROVE ListInv'
  BY <1>0, <1>1, TurnListed, OpeningListed DEF Serves
<1>2. ASSUME NEW o \in Operators, Decided(o) PROVE ListInv'
  BY <1>0, <1>2, DecidingListed
<1>3. ASSUME NEW w \in Workers, Works(w) PROVE ListInv'
  <2>1. \A i \in Incidents : status'[i] = "WAITING_FOR_APPROVAL" => status[i] = "WAITING_FOR_APPROVAL"
    <3>1. CASE Transitions(wk[w], wk'[w])
      BY <3>1 DEF Transitions, Types, ServiceTypes
    <3>2. CASE UNCHANGED status
      BY <3>2
    <3>3. QED
      BY <1>3, <3>1, <3>2 DEF Works, WorkerTurn, Claims, GoesOnWorking, Writes, Completes, Fails, Leaves, Tables
  <2>2. UNCHANGED <<proposal, req>>
    BY <1>3 DEF Works
  <2>3. QED
    BY <1>0, <2>1, <2>2, OthersListed
<1>4. ASSUME NEW w \in Workers, Drops(w) PROVE ListInv'
  <2>1. w \in Slots /\ w \notin Operators /\ req \in [Slots -> Service!Local] /\ req[w] \in Service!Local /\ CallOK(w, req[w])
    BY DEF Slots, Types, ServiceTypes
  <2>2. ~Settling(req[w])
    BY <2>1, CallKinds DEF CallOK
  <2>3. \A s \in Slots : req'[s] = req[s] \/ (req'[s].pc = "idle" /\ ~Settling(req[s]))
    BY <1>4, <2>1, <2>2, IdleOK DEF Drops
  <2>4. QED
    BY <1>0, <1>4, <2>3, OthersListed DEF Drops
<1>5. ASSUME NEW i \in Incidents, Arrives(i) PROVE ListInv'
  <2>1. \A j \in Incidents : status'[j] = "WAITING_FOR_APPROVAL" => status[j] = "WAITING_FOR_APPROVAL"
    BY <1>5 DEF Arrives, Lifecycle!Create, Lifecycle!Record, Types, ServiceTypes
  <2>2. QED
    BY <1>0, <1>5, <2>1, OthersListed DEF Arrives
<1>6. ASSUME UNCHANGED <<status, proposal, req>> PROVE ListInv'
  BY <1>0, <1>6, OthersListed
<1>7. QED
  BY <1>1, <1>2, <1>3, <1>4, <1>5, <1>6, Kinds DEF CutShort, Dies, Stops, Restarts, Due, Still, Tables

LEMMA ListInit == Init => ListInv
<1> SUFFICES ASSUME Init PROVE ListInv
  OBVIOUS
<1>1. Types
  BY TypesInit
<1>2. /\ status = [i \in Incidents |-> "none"] /\ req = [r \in Slots |-> Service!Idle]
  BY DEF Init, Service!Init, Service!StoreInit, Service!NoStatus, Slots
<1>3. \A r \in Slots : req[r] \in Service!Local /\ req[r].pc = "idle"
  BY <1>2, IdleOK DEF CallOK
<1>4. \A r \in Slots : ~Proposing(req[r]) /\ ~Deciding(req[r])
  BY <1>3, CallKinds
<1>5. QED
  BY <1>2, <1>4 DEF ListInv, ProposingOpen, DecidingKnown, Listed

\* "What is waiting on humans?": while no call on it is under way, an incident that
\* waits for approval has an open proposal, unless one of its proposals was decided
\* before the call of Propose that made it had moved the incident on and returned; no
\* other order of calls, crash or shutdown leaves it unlisted (Propose, Approve, Reject).
THEOREM OpsPilotWaitingAccounted == Spec => []WaitingAccounted
<1>1. Types /\ ListInv => WaitingAccounted
  <2> SUFFICES ASSUME Types, ListInv, NEW i \in Incidents, status[i] = "WAITING_FOR_APPROVAL", Quiet(i)
               PROVE  OpenFor(i) \/ i \in hasty
    BY DEF WaitingAccounted
  <2>1. \A r \in Slots : req[r].inc = i => ~Settling(req[r])
    BY CallKinds DEF Quiet, Idle, Slots, Types, ServiceTypes
  <2>2. QED
    BY <2>1 DEF ListInv, Listed, ListedOr, OpenFor
<1>2. QED
  BY <1>1, TypesAlways, ListInit, ListNext, PTL DEF Spec

-----------------------------------------------------------------------------
(***************************************************************************)
(* What a worker holds                                                     *)
(***************************************************************************)

Busy(w) == wk[w].pc \in Worker!RunStages \cup Worker!MarkStages

\* From the claim to the report the job is processing ...
RunHeld == \A w \in Workers : wk[w].pc \in Worker!RunStages => job[wk[w].inc].status = "processing"

\* ... and from a report of failure to its last write the job is not claimable.
MarkRest ==
    \A w \in Workers : wk[w].pc \in Worker!MarkStages =>
        \/ job[wk[w].inc].status = "dead_letter"
        \/ job[wk[w].inc].status = "pending" /\ ~job[wk[w].inc].due

\* So until then no one else works on its incident, ...
Alone == \A v, w \in Workers : v # w /\ Busy(v) /\ Busy(w) => wk[v].inc # wk[w].inc

\* ... and its copy is not behind the row: a root cause that is stored is in the copy.
CopyFresh == \A w \in Workers : wk[w].pc \in CopyStages /\ inv[wk[w].inc].rca => wk[w].rca

NoJobYet == \A i \in Incidents : status[i] = "none" => job[i].status = "none"

HeldInv == RunHeld /\ MarkRest /\ Alone /\ CopyFresh /\ NoJobYet

\* Which stages belong to a run, which to the report of its failure.
LEMMA StagesApart ==
  /\ \A pc \in Worker!LoopStages \cup {"renotify"} : pc \notin Worker!RunStages \cup Worker!MarkStages
  /\ \A pc \in Worker!RunStages : pc \notin Worker!MarkStages
  /\ CopyStages \subseteq Worker!RunStages \cup Worker!MarkStages
  /\ {"propose", "finish", "complete", "failJob", "start", "park"} \subseteq Worker!RunStages
  /\ {"triageUpdate", "investigateUpdate", "rootCauseUpdate"} \subseteq Worker!RunStages \cap CopyStages
  /\ {"load", "investigate", "analyse"} \subseteq Worker!RunStages
  /\ {"markRead", "markWrite"} = Worker!MarkStages
  /\ "load" \notin CopyStages /\ "markRead" \notin CopyStages
BY DEF Worker!LoopStages, Worker!RunStages, Worker!MarkStages, CopyStages

\* Who is busy after a step of worker w, and with what; and what the step leaves alone
\* of the rows that another busy worker holds.
LEMMA WorksAlone ==
  ASSUME Types, HeldInv, NEW w \in Workers, Works(w)
  PROVE  /\ Alone'
         /\ \A v \in Workers : v # w => wk'[v] = wk[v]
         /\ \A v \in Workers : v # w /\ Busy(v) => job'[wk[v].inc] = job[wk[v].inc] /\ inv'[wk[v].inc] = inv[wk[v].inc]
<1> DEFINE l == wk[w]
           m == wk'[w]
<1>1. /\ wk \in [Workers -> Worker!Local] /\ job \in [Incidents -> Worker!JobRow]
      /\ inv \in [Incidents -> Worker!InvestigationRow]
  BY DEF Types, WorkerTypes
<1>2. \A v \in Workers : v # w => wk'[v] = wk[v]
  BY <1>1 DEF Works, WorkerTurn
<1>3. \/ Claims(l, m) \/ GoesOnWorking(l, m, w \in cancelled) \/ Writes(l, m) \/ Transitions(l, m)
      \/ Completes(l, m) \/ Fails(l, m, w \in cancelled) \/ Leaves(l, m)
  BY DEF Works, WorkerTurn
<1>4. l.pc \notin Worker!LoopStages => l.inc \in Incidents
  BY DEF Types, WorkerTypes, WorkerOK
<1>5. \A v \in Workers : Busy(v) => wk[v].inc \in Incidents
  BY StagesApart DEF Busy, Types, WorkerTypes, WorkerOK
<1>6. Claims(l, m) => \A v \in Workers : Busy(v) => wk[v].inc # m.inc
  BY DEF Claims, HeldInv, RunHeld, MarkRest, Busy
<1>7. Busy(w) => \A v \in Workers : v # w /\ Busy(v) => wk[v].inc # l.inc
  BY DEF HeldInv, Alone
<1> HIDE DEF l, m
<1>8. Claims(l, m) \/ (m.pc \in Worker!RunStages \cup Worker!MarkStages
                         => l.pc \in Worker!RunStages \cup Worker!MarkStages /\ m.inc = l.inc)
  <2>1. ASSUME Leaves(l, m) \/ Completes(l, m) PROVE m.pc \notin Worker!RunStages \cup Worker!MarkStages
    BY <2>1, StagesApart DEF Leaves, Completes
  <2>2. ASSUME GoesOnWorking(l, m, w \in cancelled), m.pc \in Worker!RunStages \cup Worker!MarkStages
        PROVE  l.pc \in Worker!RunStages \cup Worker!MarkStages /\ m.inc = l.inc
    BY <2>2 DEF GoesOnWorking
  <2>3. ASSUME Writes(l, m), m.pc \in Worker!RunStages \cup Worker!MarkStages
        PROVE  l.pc \in Worker!RunStages \cup Worker!MarkStages /\ m.inc = l.inc
    BY <2>3 DEF Writes
  <2>4. ASSUME Transitions(l, m) \/ Fails(l, m, w \in cancelled)
        PROVE  l.pc \in Worker!RunStages \cup Worker!MarkStages /\ m.inc = l.inc
    BY <2>4, StagesApart DEF Transitions, Fails
  <2>5. QED
    BY <1>3, <2>1, <2>2, <2>3, <2>4
<1>9. Alone'
  <2>1. ASSUME NEW v \in Workers, v # w, Busy(v), m.pc \in Worker!RunStages \cup Worker!MarkStages
        PROVE  wk[v].inc # m.inc
    BY <1>6, <1>7, <1>8, <2>1 DEF Busy, l
  <2>2. \A v \in Workers : v # w => (Busy(v)' <=> Busy(v))
    BY <1>2 DEF Busy
  <2>3. QED
    BY <1>2, <2>1, <2>2 DEF HeldInv, Alone, Busy, m
<1>10. ASSUME NEW v \in Workers, v # w, Busy(v)
       PROVE  job'[wk[v].inc] = job[wk[v].inc] /\ inv'[wk[v].inc] = inv[wk[v].inc]
  <2>1. CASE Claims(l, m)
    BY <1>1, <1>5, <1>6, <1>10, <2>1 DEF Claims
  <2>2. CASE Writes(l, m) \/ Completes(l, m) \/ Fails(l, m, w \in cancelled)
    <3>1. l.pc \in Worker!RunStages \cup Worker!MarkStages
      BY <2>2, StagesApart DEF Writes, Completes, Fails
    <3>2. wk[v].inc # l.inc
      BY <1>7, <1>10, <3>1 DEF Busy, l
    <3>3. QED
      BY <1>1, <1>5, <1>10, <2>2, <3>2 DEF Writes, Completes, Fails
  <2>3. CASE GoesOnWorking(l, m, w \in cancelled) \/ Transitions(l, m) \/ Leaves(l, m)
    BY <2>3 DEF GoesOnWorking, Transitions, Leaves, Tables
  <2>4. QED
    BY <1>3, <2>1, <2>2, <2>3
<1>11. QED
  BY <1>2, <1>9, <1>10

\* A step of a worker keeps what every worker holds.
LEMMA WorksHeld ==
  ASSUME Types, HeldInv, NEW w \in Workers, Works(w)
  PROVE  HeldInv'
<1> DEFINE l == wk[w]
           m == wk'[w]
<1>1. /\ wk \in [Workers -> Worker!Local] /\ job \in [Incidents -> Worker!JobRow]
      /\ inv \in [Incidents -> Worker!InvestigationRow]
      /\ status \in [Incidents -> Lifecycle!Status \cup {Lifecycle!NoStatus}]
  BY DEF Types, WorkerTypes
<1>2. /\ Alone' /\ \A v \in Workers : v # w => wk'[v] = wk[v]
      /\ \A v \in Workers : v # w /\ Busy(v) => job'[wk[v].inc] = job[wk[v].inc] /\ inv'[wk[v].inc] = inv[wk[v].inc]
  BY WorksAlone
<1>3. \/ Claims(l, m) \/ GoesOnWorking(l, m, w \in cancelled) \/ Writes(l, m) \/ Transitions(l, m)
      \/ Completes(l, m) \/ Fails(l, m, w \in cancelled) \/ Leaves(l, m)
  BY DEF Works, WorkerTurn
<1>4. /\ l.pc \notin Worker!LoopStages => l.inc \in Incidents
      /\ l.pc \in Worker!RunStages => job[l.inc].status = "processing"
      /\ l.pc \in Worker!MarkStages => job[l.inc].status = "dead_letter" \/ (job[l.inc].status = "pending" /\ ~job[l.inc].due)
      /\ l.pc \in CopyStages /\ inv[l.inc].rca => l.rca
  BY DEF Types, WorkerTypes, WorkerOK, HeldInv, RunHeld, MarkRest, CopyFresh
<1> HIDE DEF l, m
<1>5. m.pc \in Worker!RunStages => job'[m.inc].status = "processing"
  <2>1. CASE Claims(l, m)
    BY <2>1 DEF Claims
  <2>2. CASE GoesOnWorking(l, m, w \in cancelled)
    BY <1>4, <2>2 DEF GoesOnWorking, Tables
  <2>3. CASE Writes(l, m)
    BY <1>4, <2>3 DEF Writes
  <2>4. CASE Transitions(l, m)
    BY <1>4, <2>4, StagesApart DEF Transitions
  <2>5. CASE Completes(l, m) \/ Fails(l, m, w \in cancelled) \/ Leaves(l, m)
    BY <2>5, StagesApart DEF Completes, Fails, Leaves
  <2>6. QED
    BY <1>3, <2>1, <2>2, <2>3, <2>4, <2>5
<1>6. m.pc \in Worker!MarkStages =>
        job'[m.inc].status = "dead_letter" \/ (job'[m.inc].status = "pending" /\ ~job'[m.inc].due)
  <2>1. CASE GoesOnWorking(l, m, w \in cancelled)
    BY <1>4, <2>1 DEF GoesOnWorking, Tables
  <2>2. CASE Fails(l, m, w \in cancelled)
    BY <2>2 DEF Fails
  <2>3. CASE Claims(l, m) \/ Transitions(l, m) \/ Completes(l, m) \/ Leaves(l, m) \/ Writes(l, m)
    BY <2>3, StagesApart DEF Claims, Transitions, Completes, Leaves, Writes
  <2>4. QED
    BY <1>3, <2>1, <2>2, <2>3
<1>7. m.pc \in CopyStages /\ inv'[m.inc].rca => m.rca
  <2>1. CASE GoesOnWorking(l, m, w \in cancelled)
    BY <1>4, <2>1 DEF GoesOnWorking, Tables
  <2>2. CASE Writes(l, m)
    BY <1>4, <2>2, StagesApart DEF Writes
  <2>3. CASE Transitions(l, m)
    BY <1>4, <2>3, StagesApart DEF Transitions
  <2>4. CASE Claims(l, m) \/ Completes(l, m) \/ Leaves(l, m) \/ Fails(l, m, w \in cancelled)
    BY <2>4, StagesApart DEF Claims, Completes, Leaves, Fails
  <2>5. QED
    BY <1>3, <2>1, <2>2, <2>3, <2>4
<1>8. RunHeld' /\ MarkRest'
  BY <1>2, <1>5, <1>6 DEF RunHeld, MarkRest, HeldInv, Busy, m
<1>9. CopyFresh'
  BY <1>2, <1>7, StagesApart DEF CopyFresh, HeldInv, Busy, m
<1>10. NoJobYet'
  <2>1. ASSUME NEW i \in Incidents, status'[i] = "none" PROVE job'[i].status = "none"
    <3>1. status[i] = "none"
      <4>1. CASE Transitions(l, m)
        BY <1>1, <2>1, <4>1 DEF Transitions
      <4>2. CASE UNCHANGED status
        BY <2>1, <4>2
      <4>3. QED
        BY <1>3, <4>1, <4>2 DEF Claims, GoesOnWorking, Writes, Completes, Fails, Leaves, Tables
    <3>2. job[i].status = "none"
      BY <3>1 DEF HeldInv, NoJobYet
    <3>3. CASE Claims(l, m)
      BY <1>1, <3>2, <3>3 DEF Claims
    <3>4. CASE Completes(l, m) \/ Fails(l, m, w \in cancelled)
      <4>1. i # l.inc
        BY <1>4, <3>2, <3>4, StagesApart DEF Completes, Fails
      <4>2. QED
        BY <1>1, <3>2, <3>4, <4>1 DEF Completes, Fails
    <3>5. CASE UNCHANGED job
      BY <3>2, <3>5
    <3>6. QED
      BY <1>3, <3>3, <3>4, <3>5 DEF GoesOnWorking, Writes, Transitions, Leaves, Tables
  <2>2. QED
    BY <2>1 DEF NoJobYet
<1>11. QED
  BY <1>2, <1>8, <1>9, <1>10 DEF HeldInv

\* The other steps at most end the call of a worker, or its process.
LEMMA OthersHeld ==
  ASSUME HeldInv, UNCHANGED <<job, inv>>,
         \A v \in Workers : \/ wk'[v] = wk[v]
                            \/ /\ wk[v].pc = "propose" /\ wk'[v].pc = "finish"
                               /\ wk'[v].inc = wk[v].inc /\ wk'[v].rca = wk[v].rca
                            \/ wk'[v].pc = "idle",
         \A i \in Incidents : status'[i] = "none" => status[i] = "none"
  PROVE  HeldInv'
<1>1. "idle" \notin Worker!RunStages \cup Worker!MarkStages /\ "finish" \notin Worker!MarkStages
  BY DEF Worker!RunStages, Worker!MarkStages
<1>2. "propose" \in CopyStages
  BY DEF CopyStages
<1>3. RunHeld' /\ MarkRest'
  BY <1>1, StagesApart DEF HeldInv, RunHeld, MarkRest
<1>4. \A v \in Workers : Busy(v)' => Busy(v) /\ wk'[v].inc = wk[v].inc
  BY <1>1, StagesApart DEF Busy
<1>5. Alone'
  BY <1>4 DEF HeldInv, Alone
<1>6. CopyFresh'
  BY <1>1, <1>2, StagesApart DEF HeldInv, CopyFresh
<1>7. NoJobYet'
  BY DEF HeldInv, NoJobYet
<1>8. QED
  BY <1>3, <1>5, <1>6, <1>7 DEF HeldInv

\* No step but the intake's and the worker's own makes an incident what it was not:
\* a call of the service moves it to one of its own targets.
LEMMA ServesStatus ==
  ASSUME Types, NEW r \in Slots, Serves(r), NEW i \in Incidents, status'[i] # status[i]
  PROVE  /\ status'[i] \in {"REMEDIATION_PROPOSED", "WAITING_FOR_APPROVAL", "RESOLVED"} \cup Settled
         /\ Lifecycle!CanTransition(status[i], status'[i])
<1>1. Moves(req[r])
  BY DEF Serves, Turn, Opens, Opening, Marks
<1>2. /\ CallOK(r, req[r]) /\ req[r].pc = "update" /\ req[r].inc \in Incidents
      /\ status \in [Incidents -> Lifecycle!Status \cup {Lifecycle!NoStatus}]
  BY <1>1 DEF Moves, Types, ServiceTypes, Service!Local
<1>3. i = req[r].inc /\ status'[i] = req[r].to /\ status[i] = req[r].seen
  BY <1>1, <1>2 DEF Moves
<1>4. req[r].to \in {"REMEDIATION_PROPOSED", "WAITING_FOR_APPROVAL", "RESOLVED"} \cup Settled
  BY <1>2 DEF CallOK, Proposing, Deciding, Moving
<1>5. Lifecycle!CanTransition(req[r].seen, req[r].to)
  BY <1>2 DEF CallOK, Service!CanTransition, Lifecycle!CanTransition, Service!Status, Lifecycle!Status,
              Service!validTransitions, Lifecycle!validTransitions
<1>6. QED
  BY <1>3, <1>4, <1>5

\* Each kind of step keeps it: intake finds no one busy with a new incident, and the
\* clock leaves a job alone whose failure is still being reported.
LEMMA HeldNext == Types /\ HeldInv /\ [Next]_vars => HeldInv'
<1> SUFFICES ASSUME Types, HeldInv, [Next]_vars PROVE HeldInv'
  OBVIOUS
<1>0. /\ wk \in [Workers -> Worker!Local] /\ job \in [Incidents -> Worker!JobRow]
      /\ inv \in [Incidents -> Worker!InvestigationRow]
      /\ status \in [Incidents -> Lifecycle!Status \cup {Lifecycle!NoStatus}]
      /\ \A w \in Workers : Busy(w) => wk[w].inc \in Incidents
  BY StagesApart DEF Types, WorkerTypes, WorkerOK, Busy
<1>1. ASSUME NEW r \in Slots, Serves(r) PROVE HeldInv'
  <2>1. \A i \in Incidents : status'[i] = "none" => status[i] = "none"
    BY <1>1, ServesStatus DEF Settled
  <2>2. \A v \in Workers : \/ wk'[v] = wk[v]
                           \/ /\ wk[v].pc = "propose" /\ wk'[v].pc = "finish"
                              /\ wk'[v].inc = wk[v].inc /\ wk'[v].rca = wk[v].rca
    BY <1>0, <1>1 DEF Serves, ToFinish
  <2>3. QED
    BY <1>1, <2>1, <2>2, OthersHeld DEF Serves
<1>2. ASSUME NEW w \in Workers, Works(w) PROVE HeldInv'
  BY <1>2, WorksHeld
<1>3. ASSUME NEW w \in Workers, CutShort(w) PROVE HeldInv'
  BY <1>0, <1>3, OthersHeld DEF CutShort, Drops, ToFinish
<1>4. Worker!Loop("idle").pc = "idle"
  BY DEF Worker!Loop
<1>5. ASSUME NEW w \in Workers, Dies(w) \/ Restarts(w) PROVE HeldInv'
  <2>1. \A v \in Workers : wk'[v] = wk[v] \/ wk'[v].pc = "idle"
    BY <1>0, <1>4, <1>5 DEF Dies, Restarts
  <2>2. QED
    BY <1>5, <2>1, OthersHeld DEF Dies, Drops, Restarts, Tables
<1>6. ASSUME UNCHANGED <<status, job, inv, wk>> PROVE HeldInv'
  BY <1>6, OthersHeld
<1>7. ASSUME NEW i \in Incidents, Arrives(i) PROVE HeldInv'
  <2>1. status[i] = "none" /\ job[i].status = "none" /\ UNCHANGED wk
    BY <1>7, SameStatus DEF Arrives, Lifecycle!Create, HeldInv, NoJobYet
  <2>2. \A w \in Workers : Busy(w) => wk[w].inc # i
    BY <2>1 DEF HeldInv, RunHeld, MarkRest, Busy
  <2>3. \A j \in Incidents : j # i => job'[j] = job[j] /\ inv'[j] = inv[j] /\ status'[j] = status[j]
    BY <1>0, <1>7 DEF Arrives, Lifecycle!Create, Lifecycle!Record
  <2>4. status'[i] # "none"
    BY <1>0, <1>7 DEF Arrives, Lifecycle!Create, Lifecycle!Record
  <2>5. RunHeld' /\ MarkRest'
    BY <1>0, <2>1, <2>2, <2>3 DEF HeldInv, RunHeld, MarkRest, Busy
  <2>6. CopyFresh'
    BY <1>0, <2>1, <2>2, <2>3, StagesApart DEF HeldInv, CopyFresh, Busy
  <2>7. Alone' /\ NoJobYet'
    BY <2>1, <2>3, <2>4 DEF HeldInv, Alone, NoJobYet, Busy
  <2>8. QED
    BY <2>5, <2>6, <2>7 DEF HeldInv
<1>8. ASSUME NEW i \in Incidents, Due(i) PROVE HeldInv'
  <2>1. /\ \A j \in Incidents : job'[j].status = job[j].status
        /\ \A j \in Incidents : j # i => job'[j] = job[j]
        /\ \A w \in Workers : wk[w].pc \in Worker!MarkStages => wk[w].inc # i
        /\ UNCHANGED <<status, inv, wk>>
    BY <1>0, <1>8 DEF Due, Worker!JobRow
  <2>2. RunHeld' /\ MarkRest'
    BY <1>0, <2>1 DEF HeldInv, RunHeld, MarkRest, Busy
  <2>3. Alone' /\ CopyFresh' /\ NoJobYet'
    BY <2>1 DEF HeldInv, Alone, CopyFresh, NoJobYet, Busy
  <2>4. QED
    BY <2>2, <2>3 DEF HeldInv
<1>9. QED
  BY <1>1, <1>2, <1>3, <1>5, <1>6, <1>7, <1>8, Kinds DEF Decided, Decides, Stops, Still, Tables

LEMMA HeldInit == Init => HeldInv
<1> SUFFICES ASSUME Init PROVE HeldInv
  OBVIOUS
<1>1. /\ status = [i \in Incidents |-> "none"]
      /\ job = [i \in Incidents |-> [status |-> "none", attempts |-> 0, due |-> FALSE]]
      /\ \A w \in Workers : wk[w].pc = "idle"
  BY DEF Init, Worker!Init, Worker!StoreInit, Worker!JobStoreInit, Worker!NoStatus, Worker!Loop
<1>2. "idle" \notin Worker!RunStages \cup Worker!MarkStages
  BY DEF Worker!RunStages, Worker!MarkStages
<1>3. QED
  BY <1>1, <1>2, StagesApart DEF HeldInv, RunHeld, MarkRest, Alone, CopyFresh, NoJobYet, Busy

-----------------------------------------------------------------------------
(***************************************************************************)
(* A root cause that is announced is stored                                *)
(***************************************************************************)

\* Until the root cause of an announced incident is stored its job is processing, and
\* whoever holds the job either is about to store it or, cut off, to report a failure
\* that cannot be recorded.
Unstored(i) == status[i] \in Announced /\ ~inv[i].rca

AboutTo(w, i) == wk[w].inc = i /\ wk[w].pc \in {"propose", "finish"}

Announcing ==
    \A i \in Incidents : Unstored(i) =>
        /\ job[i].status = "processing"
        /\ \A w \in Workers : wk[w].inc = i /\ wk[w].pc \in Worker!RunStages =>
              wk[w].pc \in {"propose", "finish"} \/ (wk[w].pc = "failJob" /\ w \in cancelled)
        /\ Mishaps > 0 \/ \E w \in Workers : AboutTo(w, i)

\* Neither the workers nor the remediation service escalates.
NeverEscalated == \A i \in Incidents : status[i] # "ESCALATED"

CutOff == cancelled # {} => stops > 0

RcaInv == Announcing /\ NeverEscalated /\ CutOff

\* A call of the service announces only what was announced.
LEMMA ServesAnnounced ==
  ASSUME Types, RcaInv, NEW r \in Slots, Serves(r), NEW i \in Incidents
  PROVE  status'[i] # "ESCALATED" /\ (status'[i] \in Announced => status[i] \in Announced)
<1>1. CASE status'[i] = status[i]
  BY <1>1 DEF RcaInv, NeverEscalated
<1>2. CASE status'[i] # status[i]
  <2>1. /\ status'[i] \in {"REMEDIATION_PROPOSED", "WAITING_FOR_APPROVAL", "RESOLVED"} \cup Settled
        /\ Lifecycle!CanTransition(status[i], status'[i]) /\ status[i] # "ESCALATED"
    BY <1>2, ServesStatus DEF RcaInv, NeverEscalated
  <2>2. QED
    BY <2>1 DEF Settled, Announced, Lifecycle!CanTransition, Lifecycle!Status, Lifecycle!validTransitions
<1>3. QED
  BY <1>1, <1>2

\* A call of the service neither hides a root cause nor ends a worker's obligation.
LEMMA ServesRca ==
  ASSUME Types, HeldInv, RcaInv, NEW r \in Slots, Serves(r)
  PROVE  RcaInv'
<1>1. UNCHANGED <<job, inv, cancelled, crashes, stops, stalls>>
  BY DEF Serves
<1>2. \A v \in Workers : \/ wk'[v] = wk[v]
                         \/ /\ wk[v].pc = "propose" /\ wk'[v].pc = "finish" /\ wk'[v].inc = wk[v].inc
  BY DEF Serves, ToFinish, Types, WorkerTypes
<1>3. \A v \in Workers, i \in Incidents : AboutTo(v, i) => AboutTo(v, i)'
  BY <1>2 DEF AboutTo
<1>4. Announcing'
  <2>1. ASSUME NEW i \in Incidents, Unstored(i)'
        PROVE  /\ job[i].status = "processing"
               /\ \A w \in Workers : wk[w].inc = i /\ wk[w].pc \in Worker!RunStages =>
                     wk[w].pc \in {"propose", "finish"} \/ (wk[w].pc = "failJob" /\ w \in cancelled)
               /\ Mishaps > 0 \/ \E w \in Workers : AboutTo(w, i)
    BY <1>1, <2>1, ServesAnnounced DEF RcaInv, Announcing, Unstored
  <2>2. Mishaps' = Mishaps
    BY <1>1 DEF Mishaps
  <2>3. {"propose", "finish"} \subseteq Worker!RunStages
    BY DEF Worker!RunStages
  <2>4. ASSUME NEW i \in Incidents, Unstored(i)', NEW w \in Workers, wk'[w].inc = i, wk'[w].pc \in Worker!RunStages
        PROVE  wk'[w].pc \in {"propose", "finish"} \/ (wk'[w].pc = "failJob" /\ w \in cancelled')
    BY <1>1, <1>2, <2>1, <2>3, <2>4
  <2>5. ASSUME NEW i \in Incidents, Unstored(i)' PROVE Mishaps' > 0 \/ \E w \in Workers : AboutTo(w, i)'
    BY <1>3, <2>1, <2>2, <2>5
  <2>6. QED
    BY <1>1, <2>1, <2>4, <2>5 DEF Announcing
<1>5. QED
  BY <1>1, <1>4, ServesAnnounced DEF RcaInv, NeverEscalated, CutOff

LEMMA MishapsCount == (Types => Mishaps \in Nat) /\ (Types' => Mishaps' \in Nat)
<1>1. /\ Types => crashes \in Nat /\ stops \in Nat
      /\ Types' => crashes' \in Nat /\ stops' \in Nat
  BY DEF Types, WorkerTypes
<1>2. \A c, s \in Nat : c + s \in Nat
  OBVIOUS
<1>3. QED
  BY <1>1, <1>2 DEF Mishaps

\* Steps that end a call or a process, or stop one, on rows they leave alone.
LEMMA OthersRca ==
  ASSUME Types, Types', RcaInv, UNCHANGED <<status, job, inv>>, Mishaps' >= Mishaps, CutOff',
         \A v \in Workers : \/ wk'[v] = wk[v] /\ (v \in cancelled => v \in cancelled')
                            \/ wk[v].pc = "propose" /\ wk'[v].pc = "finish" /\ wk'[v].inc = wk[v].inc
                            \/ wk'[v].pc = "idle" /\ (wk[v].pc = "exited" \/ Mishaps' > 0)
  PROVE  RcaInv'
<1>1. Mishaps \in Nat /\ Mishaps' \in Nat
  BY MishapsCount
<1>2. {"propose", "finish"} \subseteq Worker!RunStages /\ "idle" \notin Worker!RunStages
  BY DEF Worker!RunStages
<1>3. ASSUME NEW i \in Incidents, Unstored(i)'
      PROVE  /\ job'[i].status = "processing"
             /\ \A w \in Workers : wk'[w].inc = i /\ wk'[w].pc \in Worker!RunStages =>
                   wk'[w].pc \in {"propose", "finish"} \/ (wk'[w].pc = "failJob" /\ w \in cancelled')
             /\ Mishaps' > 0 \/ \E w \in Workers : AboutTo(w, i)'
  <2>1. /\ Unstored(i) /\ job[i].status = "processing"
        /\ \A w \in Workers : wk[w].inc = i /\ wk[w].pc \in Worker!RunStages =>
              wk[w].pc \in {"propose", "finish"} \/ (wk[w].pc = "failJob" /\ w \in cancelled)
        /\ Mishaps > 0 \/ \E w \in Workers : AboutTo(w, i)
    BY <1>3 DEF Unstored, RcaInv, Announcing
  <2>2. ASSUME NEW w \in Workers, wk'[w].inc = i, wk'[w].pc \in Worker!RunStages
        PROVE  wk'[w].pc \in {"propose", "finish"} \/ (wk'[w].pc = "failJob" /\ w \in cancelled')
    BY <1>2, <2>1, <2>2
  <2>3. Mishaps' > 0 \/ \E w \in Workers : AboutTo(w, i)'
    <3>1. CASE Mishaps > 0
      BY <1>1, <3>1
    <3>2. ASSUME NEW w \in Workers, AboutTo(w, i), ~(Mishaps' > 0) PROVE AboutTo(w, i)'
      BY <3>2 DEF AboutTo
    <3>3. QED
      BY <2>1, <3>1, <3>2
  <2>4. QED
    BY <2>1, <2>2, <2>3
<1>4. Announcing'
  BY <1>3 DEF Announcing
<1>5. QED
  BY <1>4 DEF RcaInv, NeverEscalated

\* A worker announces a root cause it is about to store; when it cannot store it, it
\* was cut off; and nobody else takes its job meanwhile.
LEMMA WorksRca ==
  ASSUME Types, HeldInv, RcaInv, NEW w \in Workers, Works(w)
  PROVE  RcaInv'
<1> DEFINE l == wk[w]
           m == wk'[w]
           gone == w \in cancelled
<1>1. /\ wk \in [Workers -> Worker!Local] /\ job \in [Incidents -> Worker!JobRow]
      /\ inv \in [Incidents -> Worker!InvestigationRow]
      /\ status \in [Incidents -> Lifecycle!Status \cup {Lifecycle!NoStatus}]
  BY DEF Types, WorkerTypes
<1>2. /\ \A v \in Workers : v # w => wk'[v] = wk[v]
      /\ UNCHANGED <<cancelled, crashes, stops>> /\ l.pc # "propose"
  BY <1>1 DEF Works, WorkerTurn
<1>3. \/ Claims(l, m) \/ GoesOnWorking(l, m, gone) \/ Writes(l, m) \/ Transitions(l, m)
      \/ Completes(l, m) \/ Fails(l, m, gone) \/ Leaves(l, m)
  BY DEF Works, WorkerTurn
<1>4. /\ l.pc \notin Worker!LoopStages => l.inc \in Incidents
      /\ l.pc \in Worker!RunStages => job[l.inc].status = "processing"
      /\ l.pc \in CopyStages /\ inv[l.inc].rca => l.rca
      /\ l.pc = "finish" => l.rca
      /\ gone => Mishaps > 0
  BY DEF Types, WorkerTypes, WorkerOK, HeldInv, RunHeld, CopyFresh, RcaInv, CutOff, Mishaps
<1>5. l.pc \in Worker!RunStages => \A v \in Workers : v # w /\ wk[v].pc \in Worker!RunStages => wk[v].inc # l.inc
  BY DEF HeldInv, Alone, Busy
<1>6. Mishaps' = Mishaps
  BY <1>2 DEF Mishaps
<1> HIDE DEF l, m, gone
<1>7. m.pc \in Worker!RunStages => Claims(l, m) \/ (l.pc \in Worker!RunStages /\ m.inc = l.inc)
  BY <1>3, StagesApart DEF GoesOnWorking, Writes, Transitions, Completes, Fails, Leaves
<1> DEFINE Safe(i) ==
              /\ job'[i].status = "processing"
              /\ \A v \in Workers : wk'[v].inc = i /\ wk'[v].pc \in Worker!RunStages =>
                    wk'[v].pc \in {"propose", "finish"} \/ (wk'[v].pc = "failJob" /\ v \in cancelled')
              /\ Mishaps' > 0 \/ \E v \in Workers : AboutTo(v, i)'
\* The step that announces: no one else holds the job, and w is about to store.
<1>8. ASSUME NEW i \in Incidents, Unstored(i)', status'[i] # status[i] PROVE Safe(i)
  <2>1. /\ Transitions(l, m) /\ l.pc = "rootCauseUpdate" /\ m.pc = "propose" /\ l.inc = i /\ m.inc = i
        /\ UNCHANGED job
    <3>1. Transitions(l, m)
      BY <1>3, <1>8 DEF Claims, GoesOnWorking, Writes, Completes, Fails, Leaves, Tables
    <3>2. l.inc \in Incidents
      BY <1>4, <3>1, StagesApart DEF Transitions, Worker!LoopStages
    <3>3. status'[i] \in Announced
      BY <1>8 DEF Unstored
    <3>4. QED
      BY <1>1, <1>8, <3>1, <3>2, <3>3 DEF Transitions, Announced
  <2>2. l.pc \in Worker!RunStages
    BY <2>1, StagesApart
  <2>3. job'[i].status = "processing"
    BY <1>4, <2>1, <2>2
  <2>4. AboutTo(w, i)'
    BY <2>1 DEF AboutTo, m
  <2>5. \A v \in Workers : wk'[v].inc = i /\ wk'[v].pc \in Worker!RunStages => v = w
    BY <1>2, <1>5, <2>1, <2>2
  <2>6. QED
    BY <2>1, <2>3, <2>4, <2>5 DEF m
<1>9. ASSUME NEW i \in Incidents, Unstored(i)', status'[i] = status[i] PROVE Safe(i)
  <2>1. ~inv[i].rca
    <3>1. ~inv'[i].rca
      BY <1>9 DEF Unstored
    <3>2. CASE Writes(l, m)
      <4>1. l.pc \in CopyStages /\ l.pc \notin Worker!LoopStages
        BY <3>2 DEF Writes, CopyStages, Worker!LoopStages
      <4>2. QED
        BY <1>1, <1>4, <3>1, <3>2, <4>1 DEF Writes
    <3>3. CASE UNCHANGED inv
      BY <3>1, <3>3
    <3>4. QED
      BY <1>3, <3>2, <3>3 DEF Claims, GoesOnWorking, Transitions, Completes, Fails, Leaves, Tables
  <2>2. /\ job[i].status = "processing"
        /\ \A v \in Workers : wk[v].inc = i /\ wk[v].pc \in Worker!RunStages =>
              wk[v].pc \in {"propose", "finish"} \/ (wk[v].pc = "failJob" /\ v \in cancelled)
        /\ Mishaps > 0 \/ \E v \in Workers : AboutTo(v, i)
    BY <1>9, <2>1 DEF Unstored, RcaInv, Announcing
  <2>3. CASE l.inc = i /\ l.pc \in Worker!RunStages
    <3>1. l.pc = "finish" \/ (l.pc = "failJob" /\ gone)
      BY <1>2, <2>2, <2>3 DEF l, gone
    \* It could not store, because its context is cancelled.
    <3>2. /\ gone /\ UNCHANGED job
          /\ m.pc \in Worker!RunStages => m.pc = "failJob"
      <4>1. CASE l.pc = "finish"
        <5>1. ~Writes(l, m)
          <6>1. ~inv'[i].rca
            BY <1>9 DEF Unstored
          <6>2. QED
            BY <1>4, <2>3, <4>1, <6>1 DEF Writes
        <5>2. GoesOnWorking(l, m, gone)
          BY <1>3, <4>1, <5>1 DEF Claims, Transitions, Completes, Fails, Leaves, Worker!LoopStages, Worker!RunStages
        <5>3. QED
          BY <4>1, <5>2 DEF GoesOnWorking, Tables
      <4>2. CASE l.pc = "failJob" /\ gone
        <5>1. Leaves(l, m)
          BY <1>3, <4>2 DEF Claims, Transitions, Completes, Fails, GoesOnWorking, Writes, Worker!LoopStages
        <5>2. QED
          BY <4>2, <5>1, StagesApart DEF Leaves, Tables
      <4>3. QED
        BY <3>1, <4>1, <4>2
    <3>3. \A v \in Workers : wk'[v].inc = i /\ wk'[v].pc \in Worker!RunStages => v = w
      BY <1>2, <1>5, <2>3
    <3>4. QED
      BY <1>2, <1>4, <1>6, <2>2, <3>2, <3>3 DEF m, gone
  <2>4. CASE ~(l.inc = i /\ l.pc \in Worker!RunStages)
    <3>1. job'[i] = job[i] /\ ~(Claims(l, m) /\ m.inc = i)
      <4>1. CASE Claims(l, m)
        BY <1>1, <2>2, <4>1 DEF Claims
      <4>2. CASE Completes(l, m) \/ Fails(l, m, gone)
        BY <1>1, <1>4, <2>2, <2>4, <4>2, StagesApart DEF Completes, Fails, Claims
      <4>3. CASE UNCHANGED job
        <5>1. ~(Claims(l, m) /\ m.inc = i)
          BY <2>2 DEF Claims
        <5>2. QED
          BY <4>3, <5>1
      <4>4. QED
        BY <1>3, <4>1, <4>2, <4>3 DEF GoesOnWorking, Writes, Transitions, Leaves, Tables
    <3>2. ~(m.inc = i /\ m.pc \in Worker!RunStages)
      BY <1>7, <2>4, <3>1
    <3>3. \A v \in Workers : AboutTo(v, i) => AboutTo(v, i)'
      <4>1. ~AboutTo(w, i)
        BY <2>4, StagesApart DEF AboutTo, l
      <4>2. QED
        BY <1>2, <4>1 DEF AboutTo
    <3>4. QED
      BY <1>2, <1>6, <2>2, <3>1, <3>2, <3>3 DEF m
  <2>5. QED
    BY <2>3, <2>4
<1>10. Announcing'
  BY <1>8, <1>9 DEF Announcing
<1>11. NeverEscalated'
  <2>1. CASE Transitions(l, m)
    BY <1>1, <2>1 DEF Transitions, RcaInv, NeverEscalated
  <2>2. CASE UNCHANGED status
    BY <2>2 DEF RcaInv, NeverEscalated
  <2>3. QED
    BY <1>3, <2>1, <2>2 DEF Claims, GoesOnWorking, Writes, Completes, Fails, Leaves, Tables
<1>12. CutOff'
  BY <1>2 DEF RcaInv, CutOff
<1>13. QED
  BY <1>10, <1>11, <1>12 DEF RcaInv

\* Each kind of step keeps it.
LEMMA RcaNext == Types /\ HeldInv /\ RcaInv /\ [Next]_vars => RcaInv'
<1> SUFFICES ASSUME Types, HeldInv, RcaInv, [Next]_vars PROVE RcaInv'
  OBVIOUS
<1>0. /\ wk \in [Workers -> Worker!Local] /\ crashes \in Nat /\ stops \in Nat /\ cancelled \subseteq Workers
      /\ job \in [Incidents -> Worker!JobRow] /\ inv \in [Incidents -> Worker!InvestigationRow]
      /\ status \in [Incidents -> Lifecycle!Status \cup {Lifecycle!NoStatus}]
  BY DEF Types, WorkerTypes
<1>1. Types' /\ Worker!Loop("idle").pc = "idle" /\ (cancelled # {} => stops > 0)
  BY TypesNext DEF Worker!Loop, RcaInv, CutOff
<1>2. ASSUME NEW r \in Slots, Serves(r) PROVE RcaInv'
  BY <1>2, ServesRca
<1>3. ASSUME NEW w \in Workers, Works(w) PROVE RcaInv'
  BY <1>3, WorksRca
<1>4. ASSUME NEW w \in Workers, CutShort(w) PROVE RcaInv'
  <2>1. Mishaps' >= Mishaps /\ CutOff'
    BY <1>0, <1>1, <1>4 DEF CutShort, Mishaps, CutOff
  <2>2. QED
    BY <1>0, <1>1, <1>4, <2>1, OthersRca DEF CutShort, Drops, ToFinish
<1>5. ASSUME NEW w \in Workers, Dies(w) PROVE RcaInv'
  <2>1. Mishaps' >= Mishaps /\ CutOff' /\ Mishaps' > 0
    BY <1>0, <1>1, <1>5 DEF Dies, Mishaps, CutOff
  <2>2. \A v \in Workers : \/ wk'[v] = wk[v] /\ (v \in cancelled => v \in cancelled')
                           \/ wk'[v].pc = "idle"
    BY <1>0, <1>1, <1>5 DEF Dies
  <2>3. QED
    BY <1>1, <1>5, <2>1, <2>2, OthersRca DEF Dies, Drops
<1>6. ASSUME NEW w \in Workers, Stops(w) PROVE RcaInv'
  <2>1. Mishaps' >= Mishaps /\ CutOff'
    BY <1>0, <1>1, <1>6 DEF Stops, Mishaps, CutOff
  <2>2. QED
    BY <1>0, <1>1, <1>6, <2>1, OthersRca DEF Stops, Tables
<1>7. ASSUME NEW w \in Workers, Restarts(w) PROVE RcaInv'
  <2>1. Mishaps' >= Mishaps /\ CutOff'
    BY <1>0, <1>1, <1>7 DEF Restarts, Mishaps, CutOff
  <2>2. \A v \in Workers : \/ wk'[v] = wk[v] /\ (v \in cancelled => v \in cancelled')
                           \/ wk'[v].pc = "idle" /\ wk[v].pc = "exited"
    BY <1>0, <1>1, <1>7 DEF Restarts
  <2>3. QED
    BY <1>1, <1>7, <2>1, <2>2, OthersRca DEF Restarts, Tables
<1>8. ASSUME UNCHANGED <<status, job, inv, wk, cancelled, crashes, stops>> PROVE RcaInv'
  <2>1. Mishaps' >= Mishaps /\ CutOff'
    BY <1>0, <1>1, <1>8 DEF Mishaps, CutOff
  <2>2. QED
    BY <1>1, <1>8, <2>1, OthersRca
<1>9. ASSUME NEW i \in Incidents, Arrives(i) PROVE RcaInv'
  <2>1. /\ status'[i] = "RECEIVED" /\ "RECEIVED" \notin Announced
        /\ \A j \in Incidents : j # i => job'[j] = job[j] /\ inv'[j] = inv[j] /\ status'[j] = status[j]
        /\ UNCHANGED <<wk, cancelled, crashes, stops>>
    BY <1>0, <1>9 DEF Arrives, Lifecycle!Create, Lifecycle!Record, Announced
  <2>2. Announcing'
    <3>1. \A j \in Incidents : Unstored(j)' => j # i /\ Unstored(j)
      BY <2>1 DEF Unstored
    <3>2. Mishaps' = Mishaps /\ \A j \in Incidents, v \in Workers : AboutTo(v, j)' <=> AboutTo(v, j)
      BY <2>1 DEF Mishaps, AboutTo
    <3>3. QED
      BY <2>1, <3>1, <3>2 DEF RcaInv, Announcing
  <2>3. QED
    BY <2>1, <2>2 DEF RcaInv, NeverEscalated, CutOff
<1>10. ASSUME NEW i \in Incidents, Due(i) PROVE RcaInv'
  <2>1. /\ \A j \in Incidents : job'[j].status = job[j].status
        /\ UNCHANGED <<status, inv, wk, cancelled, crashes, stops>>
    BY <1>0, <1>10 DEF Due, Worker!JobRow
  <2>2. Mishaps' = Mishaps /\ \A j \in Incidents, v \in Workers : AboutTo(v, j)' <=> AboutTo(v, j)
    BY <2>1 DEF Mishaps, AboutTo
  <2>3. Announcing'
    BY <2>1, <2>2 DEF RcaInv, Announcing, Unstored
  <2>4. QED
    BY <2>1, <2>3 DEF RcaInv, NeverEscalated, CutOff
<1>11. QED
  BY <1>2, <1>3, <1>4, <1>5, <1>6, <1>7, <1>8, <1>9, <1>10, Kinds DEF Decided, Decides, Still, Tables

LEMMA RcaInit == Init => RcaInv
<1> SUFFICES ASSUME Init PROVE RcaInv
  OBVIOUS
<1>1. status = [i \in Incidents |-> "none"] /\ cancelled = {}
  BY DEF Init, Worker!Init, Worker!StoreInit, Worker!NoStatus
<1>2. QED
  BY <1>1 DEF RcaInv, Announcing, Unstored, Announced, NeverEscalated, CutOff

\* "Persist structured RCA on the investigation; status -> ROOT_CAUSE_IDENTIFIED": what
\* is announced is stored, or its worker is about to, or a crash or a shutdown has
\* left the job unfinished (runInvestigation, ProposeFromRCA, Service.Transition).
THEOREM OpsPilotRcaFollows == Spec => []RcaFollows
<1>1. Types /\ RcaInv => RcaFollows
  <2> SUFFICES ASSUME Types, RcaInv, NEW i \in Incidents, Unstored(i)
               PROVE  \/ \E w \in Workers : wk[w].inc = i /\ wk[w].rca /\ wk[w].pc \in {"propose", "finish"}
                      \/ job[i].status # "completed" /\ Mishaps > 0
    BY DEF RcaFollows, Unstored
  <2>1. job[i].status = "processing" /\ (Mishaps > 0 \/ \E w \in Workers : AboutTo(w, i))
    BY DEF RcaInv, Announcing
  <2>2. \A w \in Workers : AboutTo(w, i) => wk[w].rca
    BY DEF AboutTo, Types, WorkerTypes, WorkerOK
  <2>3. QED
    BY <2>1, <2>2 DEF AboutTo
<1>2. QED
  BY <1>1, TypesAlways, HeldInit, HeldNext, RcaInit, RcaNext, PTL DEF Spec

=============================================================================
