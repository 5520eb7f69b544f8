---------------------------- MODULE IncidentStore ----------------------------
(***************************************************************************)
(* The incidents and incident_events tables and the statements that change *)
(* them.  Every other module of the project that touches an incident       *)
(* EXTENDS this one and shares its two variables.                          *)
(*                                                                         *)
(*   status[i]    the status column of incident i, NoStatus without a row  *)
(*   timeline[i]  the incident_events rows of i in commit order            *)
(***************************************************************************)
EXTENDS IncidentStatus, Naturals, Sequences

CONSTANT Incidents

VARIABLES status, timeline

storeVars == <<status, timeline>>

IncidentEvent == [from : Status \cup {NoStatus}, to : Status]

StoreTypeOK == /\ status \in [Incidents -> Status \cup {NoStatus}]
               /\ timeline \in [Incidents -> Seq(IncidentEvent)]

StoreInit == /\ status = [i \in Incidents |-> NoStatus]
             /\ timeline = [i \in Incidents |-> <<>>]

\* insertEvent: both statements of a transaction take effect or neither does,
\* so the row and its event change in one step.
SetStatus(i, from, to) ==
    /\ status' = [status EXCEPT ![i] = to]
    /\ timeline' = [timeline EXCEPT ![i] = Append(@, [from |-> from, to |-> to])]

\* PrepareCreate builds a RECEIVED incident with a fresh id and an
\* incident.created event without a from_status; CreateWithEvent inserts both.
CreateWithEvent(i) ==
    /\ status[i] = NoStatus
    /\ SetStatus(i, NoStatus, "RECEIVED")

\* Mutant: UPDATE incidents without AND status = expected.
TransitionWithEventUnguarded(i, expected, new) == SetStatus(i, expected, new)

\* UPDATE incidents ... WHERE id = i AND status = expected, plus the event.  It
\* does not consult the transition table: the caller did, on what it read.
TransitionWithEvent(i, expected, new) ==
    /\ status[i] = expected
    /\ SetStatus(i, expected, new)

-----------------------------------------------------------------------------

\* What those who read the two tables see, whichever component changes them.
Lifecycle == INSTANCE IncidentLifecycle

=============================================================================
