--------------------------- MODULE IncidentClients ---------------------------
(***************************************************************************)
(* Callers of the incident service running at the same time: request       *)
(* handlers of the API and the worker, each inside its own call of         *)
(* Service.Transition.  A call is two database round trips, the read and   *)
(* the conditional update, and anything may happen in between.             *)
(*                                                                         *)
(*   client[c]     the locals of c's call                                  *)
(*   createdAt[i]  the created_at column of the events of i, beside        *)
(*                 timeline[i].  An instant is represented by the number   *)
(*                 of events of i already committed at that instant.       *)
(***************************************************************************)
EXTENDS IncidentStore

CONSTANTS Clients,    \* callers in flight at the same time
          Targets,    \* the statuses callers ask for
          MaxEvents   \* bound: no call starts a move of an incident with this many events

ASSUME IncidentsAssumption == Incidents # {}
ASSUME TargetsAssumption == Targets \subseteq Status
ASSUME MaxEventsAssumption == MaxEvents \in Nat

VARIABLES client, createdAt

vars == <<status, timeline, client, createdAt>>

Outcome == {"none", "ok", "not_found", "invalid_transition",
            "concurrent_modification", "error"}

\* pc: "idle" outside a call, "update" between the read and the update.
\* from and seen are the status and the number of events at the read.
Local == [pc : {"idle", "update"}, inc : Incidents, to : Status,
          from : Status \cup {NoStatus}, seen : Nat, outcome : Outcome]

TypeOK == /\ StoreTypeOK
          /\ client \in [Clients -> Local]
          /\ createdAt \in [Incidents -> Seq(Nat)]

NoCall == [pc |-> "idle", inc |-> CHOOSE i \in Incidents : TRUE, to |-> "RECEIVED",
           from |-> NoStatus, seen |-> 0, outcome |-> "none"]

Init == /\ StoreInit
        /\ client = [c \in Clients |-> NoCall]
        /\ createdAt = [i \in Incidents |-> <<>>]

-----------------------------------------------------------------------------

Return(c, outcome) == client' = [client EXCEPT ![c].pc = "idle", ![c].outcome = outcome]

\* CreateIncident / Create: the id is new, so no two calls create the same incident.
Create(c, i) ==
    /\ client[c].pc = "idle"
    /\ CreateWithEvent(i)
    /\ createdAt' = [createdAt EXCEPT ![i] = <<0>>]
    /\ UNCHANGED client

\* Mutant: the target is valid, but the table is not consulted.
ReadUnchecked(c, i, to) ==
    /\ client[c].pc = "idle" /\ status[i] # NoStatus /\ Len(timeline[i]) < MaxEvents
    /\ client' = [client EXCEPT ![c] =
           [inc |-> i, to |-> to, from |-> status[i], seen |-> Len(timeline[i]),
            pc |-> "update", outcome |-> "none"]]
    /\ UNCHANGED <<storeVars, createdAt>>

\* The first half of Transition: GetByID, then CanTransition on what was read.
Read(c, i, to) ==
    /\ client[c].pc = "idle"
    /\ client' = [client EXCEPT ![c] =
           [inc |-> i, to |-> to, from |-> status[i], seen |-> Len(timeline[i]),
            pc |-> IF CanTransition(status[i], to) THEN "update" ELSE "idle",
            outcome |-> IF status[i] = NoStatus THEN "not_found"
                        ELSE IF CanTransition(status[i], to) THEN "none"
                        ELSE "invalid_transition"]]
    /\ CanTransition(status[i], to) => Len(timeline[i]) < MaxEvents
    /\ UNCHANGED <<storeVars, createdAt>>

\* Mutant: created_at taken at any earlier time, before the read as well.
ApplyEarlyClock(c) ==
    LET l == client[c] IN
    /\ TransitionWithEvent(l.inc, l.from, l.to)
    /\ \E now \in 0..Len(timeline[l.inc]) :
          createdAt' = [createdAt EXCEPT ![l.inc] = Append(@, now)]

\* TransitionWithEvent took effect.  The event's created_at was taken by the
\* caller's clock some time after the read.
Apply(c) ==
    LET l == client[c] IN
    /\ TransitionWithEvent(l.inc, l.from, l.to)
    /\ \E now \in l.seen..Len(timeline[l.inc]) :
          createdAt' = [createdAt EXCEPT ![l.inc] = Append(@, now)]

Update(c) ==
    /\ client[c].pc = "update"
    /\ Apply(c)
    /\ Return(c, "ok")

\* Mutant: RowsAffected() is not looked at.
ConflictIgnored(c) ==
    /\ client[c].pc = "update"
    /\ status[client[c].inc] # client[c].from
    /\ Return(c, "ok")
    /\ UNCHANGED <<storeVars, createdAt>>

\* RowsAffected() == 0: someone else moved the incident since the read.
Conflict(c) ==
    /\ client[c].pc = "update"
    /\ status[client[c].inc] # client[c].from
    /\ Return(c, "concurrent_modification")
    /\ UNCHANGED <<storeVars, createdAt>>

\* The database call fails, or the caller dies: nothing was committed, or the
\* commit went through and its acknowledgement was lost.
Fail(c) ==
    /\ client[c].pc = "update"
    /\ Apply(c) \/ UNCHANGED <<storeVars, createdAt>>
    /\ Return(c, "error")

Next == \E c \in Clients :
           \/ \E i \in Incidents : Create(c, i) \/ \E to \in Targets : Read(c, i, to)
           \/ Update(c) \/ Conflict(c) \/ Fail(c)

Spec == Init /\ [][Next]_vars

-----------------------------------------------------------------------------

\* The concurrent callers implement the abstract lifecycle, with the two tables
\* as they are: no interleaving of reads and conditional updates, and no lost
\* acknowledgement, shows a reader anything else.
ImplementsLifecycle == Lifecycle!Spec

TimelineChain == Lifecycle!TimelineChain

\* The incident was in no status twice, so a status identifies a version of it.
NoRevisit(i) ==
    \A j, k \in 1..Len(timeline[i]) : timeline[i][j].to = timeline[i][k].to => j = k

\* Of the callers that read the same version of an incident, at most one is told
\* that its transition succeeded; the others get ErrConcurrentModification
\* (unless the incident came back to the status they read).
OneWinner ==
    \A c, d \in Clients :
        /\ c # d /\ client[c].inc = client[d].inc /\ NoRevisit(client[c].inc)
        /\ client[c].outcome = "ok" /\ client[d].outcome = "ok"
        => client[c].seen # client[d].seen

\* ListEvents sorts by created_at, a time each caller took before its update was
\* committed.  As long as the incident revisits no status the sorted list is the
\* commit order: no two events share an instant and none precedes its predecessor.
ListedInCommitOrder ==
    \A i \in Incidents : NoRevisit(i) =>
        \A j, k \in 1..Len(createdAt[i]) : j < k => createdAt[i][j] < createdAt[i][k]

=============================================================================
