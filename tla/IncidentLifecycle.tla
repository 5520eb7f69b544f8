-------------------------- MODULE IncidentLifecycle --------------------------
(***************************************************************************)
(* What the incident service promises its readers, whoever calls it and    *)
(* however the calls interleave: an incident is created once, RECEIVED,    *)
(* and from then on moves only along the transition table, one recorded    *)
(* event per move.  IncidentClients and InvestigationWorker implement it.  *)
(***************************************************************************)
EXTENDS IncidentStatus, Naturals, Sequences

CONSTANT Incidents

VARIABLES status, timeline

vars == <<status, timeline>>

TypeOK == /\ status \in [Incidents -> Status \cup {NoStatus}]
          /\ timeline \in [Incidents -> Seq([from : Status \cup {NoStatus}, to : Status])]

Init == /\ status = [i \in Incidents |-> NoStatus]
        /\ timeline = [i \in Incidents |-> <<>>]

Record(i, to) ==
    /\ status' = [status EXCEPT ![i] = to]
    /\ timeline' = [timeline EXCEPT ![i] = Append(@, [from |-> status[i], to |-> to])]

Create(i) == status[i] = NoStatus /\ Record(i, "RECEIVED")

Move(i, to) == CanTransition(status[i], to) /\ Record(i, to)

Next == \E i \in Incidents : Create(i) \/ \E to \in Status : Move(i, to)

Spec == Init /\ [][Next]_vars

-----------------------------------------------------------------------------

\* The rows of incident_events tell the whole story of an incident: the first is
\* its creation, each one starts where the one before it ended, each step is one
\* the transition table allows, and the last one ends at the status the incident
\* row shows (Service.Transition and TransitionWithEvent together).
ChainOf(s, t) ==
    /\ t = <<>> <=> s = NoStatus
    /\ t # <<>> => /\ t[1] = [from |-> NoStatus, to |-> "RECEIVED"]
                   /\ t[Len(t)].to = s
    /\ \A k \in 2..Len(t) : /\ t[k].from = t[k-1].to
                            /\ CanTransition(t[k].from, t[k].to)

TimelineChain == \A i \in Incidents : ChainOf(status[i], timeline[i])

=============================================================================
