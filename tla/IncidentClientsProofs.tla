------------------------ MODULE IncidentClientsProofs ------------------------
(***************************************************************************)
(* What the abstract lifecycle guarantees, and that concurrent callers     *)
(* implement it: type correctness, the invariant that ties a pending       *)
(* update to the table, the refinement, and with it the timeline chain of  *)
(* the concrete system.                                                    *)
(***************************************************************************)
EXTENDS IncidentClients, TLAPS

-----------------------------------------------------------------------------
(***************************************************************************)
(* The two incident tables.  The workers' and the remediation service's    *)
(* proofs need the same facts of their own instance of the tables.         *)
(***************************************************************************)

LEMMA StatusFacts ==
    /\ {"RECEIVED", "TRIAGING", "INVESTIGATING", "ROOT_CAUSE_IDENTIFIED"} \subseteq Status
    /\ NoStatus \notin Status
BY DEF Status, NoStatus

\* A statement on the two tables keeps them well typed.
LEMMA SetStatusType ==
  ASSUME NEW i \in Incidents, NEW from \in Status \cup {NoStatus}, NEW to \in Status,
         StoreTypeOK, SetStatus(i, from, to)
  PROVE  StoreTypeOK'
<1> DEFINE e == [from |-> from, to |-> to]
<1>1. e \in IncidentEvent /\ timeline[i] \in Seq(IncidentEvent)
  BY DEF StoreTypeOK, IncidentEvent
<1>2. status' \in [Incidents -> Status \cup {NoStatus}]
  BY DEF StoreTypeOK, SetStatus
<1> HIDE DEF e
<1>3. Append(timeline[i], e) \in Seq(IncidentEvent)
  BY <1>1
<1>4. timeline' \in [Incidents -> Seq(IncidentEvent)]
  BY <1>3 DEF StoreTypeOK, SetStatus, e
<1>5. QED
  BY <1>2, <1>4 DEF StoreTypeOK

\* It appends one event to one timeline and changes nothing else.
LEMMA SetStatusAppends ==
  ASSUME NEW i \in Incidents, NEW from, NEW to, StoreTypeOK, SetStatus(i, from, to)
  PROVE  /\ Len(timeline'[i]) = Len(timeline[i]) + 1
         /\ timeline'[i][Len(timeline[i]) + 1] = [from |-> from, to |-> to]
         /\ \A j \in Incidents : /\ Len(timeline'[j]) >= Len(timeline[j])
                                 /\ \A k \in 1..Len(timeline[j]) : timeline'[j][k] = timeline[j][k]
                                 /\ j # i => timeline'[j] = timeline[j]
<1> DEFINE e == [from |-> from, to |-> to]
<1>1. /\ timeline'[i] = Append(timeline[i], e)
      /\ \A j \in Incidents : j # i => timeline'[j] = timeline[j]
  BY DEF StoreTypeOK, SetStatus
<1>2. \A j \in Incidents : Len(timeline[j]) \in Nat /\ timeline[j] \in Seq(IncidentEvent)
  BY DEF StoreTypeOK
<1> HIDE DEF e
<1>3. /\ Len(timeline'[i]) = Len(timeline[i]) + 1
      /\ timeline'[i][Len(timeline[i]) + 1] = e
      /\ \A k \in 1..Len(timeline[i]) : timeline'[i][k] = timeline[i][k]
  <2> DEFINE t == timeline[i]
  <2>1. t \in Seq(IncidentEvent) /\ timeline'[i] = Append(t, e)
    BY <1>1, <1>2
  <2> HIDE DEF t
  <2>2. Len(Append(t, e)) = Len(t) + 1 /\ Len(t) \in Nat
    BY <2>1
  <2>3. \A k \in 1..Len(t) : Append(t, e)[k] = t[k]
    BY <2>1
  <2>4. Append(t, e)[Len(t) + 1] = e
    BY <2>1
  <2>5. QED
    BY <2>1, <2>2, <2>3, <2>4 DEF t
<1>4. QED
  BY <1>1, <1>2, <1>3 DEF e

\* Leaving the tables alone keeps them well typed.
LEMMA StoreUnchangedType == StoreTypeOK /\ UNCHANGED storeVars => StoreTypeOK'
BY DEF StoreTypeOK, storeVars

-----------------------------------------------------------------------------
(***************************************************************************)
(* What the abstract lifecycle guarantees for any set of incidents.  The   *)
(* chain invariant is inductive once the types are known.                  *)
(***************************************************************************)

\* The tables hold known statuses only, whatever moves are made.
THEOREM LifecycleTypeOK == Lifecycle!Spec => []Lifecycle!TypeOK
<1>1. Lifecycle!Init => Lifecycle!TypeOK
  BY DEF Lifecycle!Init, Lifecycle!TypeOK
<1>2. ASSUME Lifecycle!TypeOK, [Lifecycle!Next]_(Lifecycle!vars) PROVE Lifecycle!TypeOK'
  <2>1. ASSUME NEW i \in Incidents, NEW to \in Lifecycle!Status, Lifecycle!Record(i, to)
        PROVE  Lifecycle!TypeOK'
    <3> DEFINE Event == [from : Lifecycle!Status \cup {Lifecycle!NoStatus}, to : Lifecycle!Status]
               e == [from |-> status[i], to |-> to]
    <3>1. e \in Event /\ timeline[i] \in Seq(Event)
      BY <1>2 DEF Lifecycle!TypeOK
    <3> HIDE DEF Event, e
    <3>2. Append(timeline[i], e) \in Seq(Event)
      BY <3>1
    <3>3. timeline' \in [Incidents -> Seq(Event)]
      BY <1>2, <2>1, <3>2 DEF Lifecycle!TypeOK, Lifecycle!Record, e, Event
    <3>4. status' \in [Incidents -> Lifecycle!Status \cup {Lifecycle!NoStatus}]
      BY <1>2, <2>1 DEF Lifecycle!TypeOK, Lifecycle!Record
    <3>5. QED
      BY <3>3, <3>4 DEF Lifecycle!TypeOK, Event
  <2>2. "RECEIVED" \in Lifecycle!Status
    BY DEF Lifecycle!Status
  <2>3. CASE Lifecycle!Next
    BY <2>1, <2>2, <2>3 DEF Lifecycle!Next, Lifecycle!Create, Lifecycle!Move
  <2>4. CASE UNCHANGED Lifecycle!vars
    BY <1>2, <2>4 DEF Lifecycle!TypeOK, Lifecycle!vars
  <2>5. QED
    BY <1>2, <2>3, <2>4
<1>3. QED
  BY <1>1, <1>2, PTL DEF Lifecycle!Spec

\* Appending the event of an allowed move to a chain gives a chain that ends at
\* the new status.
LEMMA ChainGrows ==
  ASSUME NEW s \in Lifecycle!Status \cup {Lifecycle!NoStatus}, NEW to \in Lifecycle!Status,
         NEW t \in Seq([from : Lifecycle!Status \cup {Lifecycle!NoStatus},
                        to : Lifecycle!Status]),
         Lifecycle!ChainOf(s, t),
         (s = Lifecycle!NoStatus /\ to = "RECEIVED") \/ Lifecycle!CanTransition(s, to)
  PROVE  Lifecycle!ChainOf(to, Append(t, [from |-> s, to |-> to]))
<1> DEFINE e == [from |-> s, to |-> to]
           u == Append(t, e)
<1>1. /\ Len(u) = Len(t) + 1 /\ Len(t) \in Nat /\ u # <<>>
      /\ u[Len(u)] = e
      /\ \A k \in 1..Len(t) : u[k] = t[k]
  OBVIOUS
<1>2. to # Lifecycle!NoStatus /\ Lifecycle!NoStatus \notin Lifecycle!Status
  BY DEF Lifecycle!Status, Lifecycle!NoStatus
<1>3. CASE t = <<>>
  <2>1. s = Lifecycle!NoStatus /\ to = "RECEIVED"
    BY <1>2, <1>3 DEF Lifecycle!ChainOf, Lifecycle!CanTransition
  <2>2. Len(u) = 1 /\ u[1] = e
    BY <1>1, <1>3
  <2>3. QED
    BY <1>1, <1>2, <2>1, <2>2 DEF Lifecycle!ChainOf
<1>4. CASE t # <<>>
  <2>1. Lifecycle!CanTransition(s, to) /\ Len(t) >= 1 /\ t[Len(t)].to = s
    BY <1>2, <1>4 DEF Lifecycle!ChainOf
  <2>2. u[1] = [from |-> Lifecycle!NoStatus, to |-> "RECEIVED"]
    BY <1>1, <1>4, <2>1 DEF Lifecycle!ChainOf
  <2>3. ASSUME NEW k \in 2..Len(u)
        PROVE  u[k].from = u[k-1].to /\ Lifecycle!CanTransition(u[k].from, u[k].to)
    <3>1. CASE k \in 2..Len(t)
      BY <1>1, <3>1 DEF Lifecycle!ChainOf
    <3>2. CASE k = Len(u)
      <4>1. u[k] = e /\ u[k-1] = t[Len(t)]
        BY <1>1, <2>1, <3>2
      <4>2. QED
        BY <2>1, <4>1
    <3>3. QED
      BY <1>1, <3>1, <3>2
  <2>4. QED
    BY <1>1, <1>2, <2>2, <2>3 DEF Lifecycle!ChainOf
<1>5. QED
  BY <1>3, <1>4

\* The timeline of every incident is a chain of allowed moves from its creation
\* to the status its row shows.
THEOREM LifecycleTimelineChain == Lifecycle!Spec => []Lifecycle!TimelineChain
<1>1. Lifecycle!Init => Lifecycle!TimelineChain
  BY DEF Lifecycle!Init, Lifecycle!TimelineChain, Lifecycle!ChainOf
<1>2. ASSUME Lifecycle!TypeOK, Lifecycle!TimelineChain, [Lifecycle!Next]_(Lifecycle!vars) PROVE Lifecycle!TimelineChain'
  <2>1. ASSUME NEW i \in Incidents, NEW to \in Lifecycle!Status, Lifecycle!Record(i, to),
               (status[i] = Lifecycle!NoStatus /\ to = "RECEIVED") \/ Lifecycle!CanTransition(status[i], to)
        PROVE  Lifecycle!TimelineChain'
    <3>1. Lifecycle!ChainOf(status'[i], timeline'[i])
      BY <1>2, <2>1, ChainGrows DEF Lifecycle!TypeOK, Lifecycle!TimelineChain, Lifecycle!Record
    <3>2. ASSUME NEW j \in Incidents, j # i PROVE Lifecycle!ChainOf(status'[j], timeline'[j])
      <4>1. status'[j] = status[j] /\ timeline'[j] = timeline[j]
        BY <1>2, <2>1, <3>2 DEF Lifecycle!TypeOK, Lifecycle!Record
      <4>2. QED
        BY <1>2, <4>1 DEF Lifecycle!TimelineChain
    <3>3. QED
      BY <3>1, <3>2 DEF Lifecycle!TimelineChain
  <2>2. "RECEIVED" \in Lifecycle!Status
    BY DEF Lifecycle!Status
  <2>3. CASE Lifecycle!Next
    BY <2>1, <2>2, <2>3 DEF Lifecycle!Next, Lifecycle!Create, Lifecycle!Move
  <2>4. CASE UNCHANGED Lifecycle!vars
    BY <1>2, <2>4 DEF Lifecycle!TimelineChain, Lifecycle!vars
  <2>5. QED
    BY <1>2, <2>3, <2>4
<1>3. QED
  BY <1>1, <1>2, LifecycleTypeOK, PTL DEF Lifecycle!Spec

\* What a component has to show to implement the lifecycle: the tables begin empty,
\* and each step leaves them alone, creates an incident, or moves one to a status
\* the table allows from the one it has.
LifecycleStep ==
    \/ UNCHANGED storeVars
    \/ \E i \in Incidents : CreateWithEvent(i)
    \/ \E i \in Incidents, to \in Status :
          CanTransition(status[i], to) /\ SetStatus(i, status[i], to)

LEMMA StoreInitIsLifecycle == StoreInit => Lifecycle!Init
BY DEF StoreInit, Lifecycle!Init, NoStatus, Lifecycle!NoStatus

LEMMA StepIsLifecycle == LifecycleStep => [Lifecycle!Next]_(Lifecycle!vars)
<1>1. ASSUME NEW i \in Incidents, CreateWithEvent(i) PROVE Lifecycle!Next
  BY <1>1 DEF CreateWithEvent, SetStatus, Lifecycle!Next, Lifecycle!Create, Lifecycle!Record,
              NoStatus, Lifecycle!NoStatus
<1>2. ASSUME NEW i \in Incidents, NEW to \in Status,
             CanTransition(status[i], to), SetStatus(i, status[i], to)
      PROVE  Lifecycle!Next
  <2>1. Lifecycle!Move(i, to)
    BY <1>2 DEF SetStatus, Lifecycle!Move, Lifecycle!Record, CanTransition,
                Lifecycle!CanTransition, validTransitions, Lifecycle!validTransitions,
                Status, Lifecycle!Status
  <2>2. QED
    BY <2>1 DEF Lifecycle!Next, Status, Lifecycle!Status
<1>3. QED
  BY <1>1, <1>2 DEF LifecycleStep, storeVars, Lifecycle!vars

-----------------------------------------------------------------------------
(***************************************************************************)
(* The callers                                                             *)
(***************************************************************************)

USE IncidentsAssumption, TargetsAssumption, MaxEventsAssumption

LEMMA NoCallLocal == NoCall \in Local
BY StatusFacts DEF NoCall, Local, Outcome

LEMMA ApplyType ==
  ASSUME TypeOK, NEW c \in Clients, Apply(c)
  PROVE  StoreTypeOK' /\ createdAt' \in [Incidents -> Seq(Nat)]
<1> DEFINE l == client[c]
<1>1. l.inc \in Incidents /\ l.from \in Status \cup {NoStatus} /\ l.to \in Status /\ l.seen \in Nat
  BY DEF TypeOK, Local
<1>2. StoreTypeOK'
  BY <1>1, SetStatusType DEF TypeOK, Apply, TransitionWithEvent
<1>3. PICK now \in l.seen..Len(timeline[l.inc]) :
          createdAt' = [createdAt EXCEPT ![l.inc] = Append(@, now)]
  BY DEF Apply
<1>4. now \in Nat
  BY <1>1, <1>3
<1>5. Append(createdAt[l.inc], now) \in Seq(Nat)
  BY <1>1, <1>4 DEF TypeOK
<1>6. QED
  BY <1>1, <1>2, <1>3, <1>5 DEF TypeOK

\* The tables and the locals of the calls stay well typed.
THEOREM ClientsTypeOK == Spec => []TypeOK
<1>1. Init => TypeOK
  BY NoCallLocal DEF Init, StoreInit, TypeOK, StoreTypeOK
<1>2. ASSUME TypeOK, [Next]_vars PROVE TypeOK'
  <2>1. ASSUME NEW c \in Clients, NEW i \in Incidents, Create(c, i) PROVE TypeOK'
    <3>1. StoreTypeOK'
      BY <1>2, <2>1, StatusFacts, SetStatusType DEF TypeOK, Create, CreateWithEvent
    <3>2. <<0>> \in Seq(Nat)
      OBVIOUS
    <3>3. QED
      BY <1>2, <2>1, <3>1, <3>2 DEF TypeOK, Create
  <2>2. ASSUME NEW c \in Clients, NEW i \in Incidents, NEW to \in Targets, Read(c, i, to)
        PROVE  TypeOK'
    <3>1. status[i] \in Status \cup {NoStatus} /\ Len(timeline[i]) \in Nat /\ to \in Status
      BY <1>2 DEF TypeOK, StoreTypeOK
    <3>2. client'[c] \in Local
      BY <1>2, <2>2, <3>1 DEF TypeOK, Read, Local, Outcome
    <3>3. client' \in [Clients -> Local]
      BY <1>2, <2>2, <3>2 DEF TypeOK, Read
    <3>4. QED
      BY <1>2, <2>2, <3>3 DEF TypeOK, Read, StoreTypeOK, storeVars
  <2>3. ASSUME NEW c \in Clients, NEW o \in Outcome, Return(c, o)
        PROVE  client' \in [Clients -> Local]
    BY <1>2, <2>3 DEF TypeOK, Return, Local
  <2>4. ASSUME NEW c \in Clients, Update(c) \/ Conflict(c) \/ Fail(c) PROVE TypeOK'
    <3>1. client' \in [Clients -> Local]
      BY <2>3, <2>4 DEF Update, Conflict, Fail, Outcome
    <3>2. StoreTypeOK' /\ createdAt' \in [Incidents -> Seq(Nat)]
      BY <1>2, <2>4, ApplyType DEF Update, Conflict, Fail, TypeOK, StoreTypeOK, storeVars
    <3>3. QED
      BY <3>1, <3>2 DEF TypeOK
  <2>5. CASE UNCHANGED vars
    BY <1>2, <2>5 DEF TypeOK, StoreTypeOK, vars
  <2>6. QED
    BY <1>2, <2>1, <2>2, <2>4, <2>5 DEF Next
<1>3. QED
  BY <1>1, <1>2, PTL DEF Spec

\* A call that is about to update checked the table against the status it read.
UpdateChecked ==
    \A c \in Clients : client[c].pc = "update" => CanTransition(client[c].from, client[c].to)

LEMMA ClientsUpdateChecked == Spec => []UpdateChecked
<1>1. Init => UpdateChecked
  BY DEF Init, NoCall, UpdateChecked
<1>2. ASSUME TypeOK, UpdateChecked, [Next]_vars PROVE UpdateChecked'
  <2>1. ASSUME NEW c \in Clients, NEW i \in Incidents, NEW to \in Targets, Read(c, i, to)
        PROVE  UpdateChecked'
    BY <1>2, <2>1 DEF TypeOK, UpdateChecked, Read
  <2>2. ASSUME NEW c \in Clients, NEW o \in Outcome, Return(c, o) PROVE UpdateChecked'
    BY <1>2, <2>2 DEF TypeOK, Local, UpdateChecked, Return
  <2>3. ASSUME NEW c \in Clients, Update(c) \/ Conflict(c) \/ Fail(c) PROVE UpdateChecked'
    BY <2>2, <2>3 DEF Update, Conflict, Fail, Outcome
  <2>4. ASSUME NEW c \in Clients, NEW i \in Incidents, Create(c, i) PROVE UpdateChecked'
    BY <1>2, <2>4 DEF UpdateChecked, Create
  <2>5. CASE UNCHANGED vars
    BY <1>2, <2>5 DEF UpdateChecked, vars
  <2>6. QED
    BY <1>2, <2>1, <2>3, <2>4, <2>5 DEF Next
<1>3. QED
  BY <1>1, <1>2, ClientsTypeOK, PTL DEF Spec

\* Every step of the concurrent callers is a step of the lifecycle or leaves the
\* two tables alone.
THEOREM ClientsImplementLifecycle == Spec => ImplementsLifecycle
<1>1. Init => Lifecycle!Init
  BY StoreInitIsLifecycle DEF Init
<1>2. ASSUME TypeOK, UpdateChecked, [Next]_vars PROVE [Lifecycle!Next]_(Lifecycle!vars)
  <2>1. ASSUME NEW c \in Clients, client[c].pc = "update", Apply(c) PROVE LifecycleStep
    <3>1. /\ client[c].inc \in Incidents /\ client[c].to \in Status
          /\ CanTransition(client[c].from, client[c].to)
      BY <1>2, <2>1 DEF TypeOK, Local, UpdateChecked
    <3>2. QED
      BY <2>1, <3>1 DEF Apply, TransitionWithEvent, LifecycleStep
  <2>2. ASSUME Next PROVE LifecycleStep
    BY <2>1, <2>2 DEF Next, Create, Read, Update, Conflict, Fail, LifecycleStep
  <2>3. ASSUME UNCHANGED vars PROVE LifecycleStep
    BY <2>3 DEF vars, storeVars, LifecycleStep
  <2>4. QED
    BY <1>2, <2>2, <2>3, StepIsLifecycle
<1>3. QED
  BY <1>1, <1>2, ClientsTypeOK, ClientsUpdateChecked, PTL
     DEF Spec, ImplementsLifecycle, Lifecycle!Spec

\* Whatever the interleaving, faults included, the timeline of an incident is a
\* chain of allowed moves that ends at the status of its row.
THEOREM ClientsTimelineChain == Spec => []TimelineChain
BY ClientsImplementLifecycle, LifecycleTimelineChain, PTL DEF ImplementsLifecycle, TimelineChain

-----------------------------------------------------------------------------
(***************************************************************************)
(* Who wins a race, and in which order ListEvents shows the winners.       *)
(***************************************************************************)

\* The last event of an incident with a row names the status of the row.
LEMMA StatusIsLast ==
  ASSUME TypeOK, TimelineChain, NEW i \in Incidents
  PROVE  /\ Len(timeline[i]) \in Nat
         /\ status[i] = NoStatus => Len(timeline[i]) = 0
         /\ status[i] # NoStatus => /\ Len(timeline[i]) >= 1
                                  /\ timeline[i][Len(timeline[i])].to = status[i]
<1>1. timeline[i] \in Seq(IncidentEvent)
  BY DEF TypeOK, StoreTypeOK
<1>2. status[i] = NoStatus <=> timeline[i] = <<>>
  BY DEF TimelineChain, Lifecycle!TimelineChain, Lifecycle!ChainOf, NoStatus, Lifecycle!NoStatus
<1>3. timeline[i] # <<>> => timeline[i][Len(timeline[i])].to = status[i]
  BY DEF TimelineChain, Lifecycle!TimelineChain, Lifecycle!ChainOf
<1>4. timeline[i] = <<>> <=> Len(timeline[i]) = 0
  BY <1>1
<1>5. QED
  BY <1>1, <1>2, <1>3, <1>4

\* What a caller still knows when it is about to update, and after it won: the
\* event it read is in the timeline, and its own move came later.
VersionKnown(c) ==
    LET l == client[c] IN
    l.pc = "update" \/ l.outcome = "ok" =>
        /\ l.seen \in 1..Len(timeline[l.inc])
        /\ timeline[l.inc][l.seen].to = l.from
        /\ l.outcome = "ok" => l.seen < Len(timeline[l.inc])

\* Two callers that won on the same version make the incident revisit a status.
Winners(c, d) ==
    /\ c # d /\ client[c].inc = client[d].inc /\ client[c].seen = client[d].seen
    /\ client[c].outcome = "ok" /\ client[d].outcome = "ok"

RaceSettled == /\ \A c \in Clients : VersionKnown(c)
               /\ \A c, d \in Clients : Winners(c, d) => ~NoRevisit(client[c].inc)

\* An incident that revisited a status has still done so after more events.
LEMMA RevisitStays ==
  ASSUME TypeOK, NEW i \in Incidents, Len(timeline'[i]) >= Len(timeline[i]),
         Len(timeline'[i]) \in Nat,
         \A k \in 1..Len(timeline[i]) : timeline'[i][k] = timeline[i][k], ~NoRevisit(i)
  PROVE  ~NoRevisit(i)'
<1>1. PICK j, k \in 1..Len(timeline[i]) : timeline[i][j].to = timeline[i][k].to /\ j # k
  BY DEF NoRevisit
<1>2. Len(timeline[i]) \in Nat
  BY DEF TypeOK, StoreTypeOK
<1>3. j \in 1..Len(timeline'[i]) /\ k \in 1..Len(timeline'[i])
  BY <1>2
<1>4. timeline'[i][j].to = timeline'[i][k].to /\ j # k
  BY <1>1
<1>5. QED
  BY <1>3, <1>4 DEF NoRevisit

LEMMA ClientsRaceSettled == Spec => []RaceSettled
<1>1. Init => RaceSettled
  <2> SUFFICES ASSUME Init PROVE RaceSettled
    OBVIOUS
  <2>1. \A c \in Clients : client[c].pc = "idle" /\ client[c].outcome = "none"
    BY DEF Init, NoCall
  <2>2. QED
    BY <2>1 DEF RaceSettled, VersionKnown, Winners
<1>2. ASSUME TypeOK, TypeOK', TimelineChain, RaceSettled, [Next]_vars PROVE RaceSettled'
  <2> DEFINE Grown == \A i \in Incidents :
                         /\ Len(timeline'[i]) \in Nat
                         /\ Len(timeline'[i]) >= Len(timeline[i])
                         /\ \A k \in 1..Len(timeline[i]) : timeline'[i][k] = timeline[i][k]
             Same(c) == client'[c] = client[c]
  <2>1. \A i \in Incidents : Len(timeline[i]) \in Nat /\ Len(timeline'[i]) \in Nat
    BY <1>2 DEF TypeOK, StoreTypeOK
  <2>2. \A c \in Clients : /\ client[c].inc \in Incidents /\ client[c].seen \in Nat
                           /\ client'[c].inc \in Incidents /\ client'[c].seen \in Nat
    BY <1>2 DEF TypeOK, Local
  <2>3. ASSUME Grown, NEW c \in Clients, Same(c) PROVE VersionKnown(c)'
    <3> DEFINE l == client[c]
    <3>1. SUFFICES ASSUME l.pc = "update" \/ l.outcome = "ok"
                   PROVE  /\ l.seen \in 1..Len(timeline'[l.inc])
                          /\ timeline'[l.inc][l.seen].to = l.from
                          /\ l.outcome = "ok" => l.seen < Len(timeline'[l.inc])
      BY <2>3 DEF VersionKnown
    <3>2. /\ l.seen \in 1..Len(timeline[l.inc])
          /\ timeline[l.inc][l.seen].to = l.from
          /\ l.outcome = "ok" => l.seen < Len(timeline[l.inc])
      BY <1>2, <3>1 DEF RaceSettled, VersionKnown
    <3>3. l.inc \in Incidents
      BY <2>2
    <3>4. QED
      BY <2>1, <2>3, <3>2, <3>3
  <2>4. ASSUME Grown, NEW c \in Clients, NEW d \in Clients, Same(c), Same(d), Winners(c, d)'
        PROVE  ~NoRevisit(client[c].inc)'
    <3>1. Winners(c, d)
      BY <2>4 DEF Winners
    <3>2. ~NoRevisit(client[c].inc) /\ client[c].inc \in Incidents
      BY <1>2, <2>2, <3>1 DEF RaceSettled
    <3> DEFINE i == client[c].inc
    <3>3. ~NoRevisit(i)' /\ client'[c].inc = i
      <4> HIDE DEF i
      <4>1. QED
        BY <1>2, <2>4, <3>2, RevisitStays DEF i
    <3>4. QED
      BY <3>3
  <2>5. CASE Grown /\ UNCHANGED client
    BY <2>3, <2>4, <2>5 DEF RaceSettled, Winners
  <2>6. ASSUME NEW c \in Clients, Grown, \A d \in Clients : d # c => Same(d),
               client'[c].outcome # "ok", VersionKnown(c)'
        PROVE  RaceSettled'
    BY <2>3, <2>4, <2>6 DEF RaceSettled, Winners
  <2>7. ASSUME UNCHANGED timeline PROVE Grown
    BY <2>1, <2>7
  <2>8. ASSUME NEW c \in Clients, Apply(c) PROVE Grown
    <3>1. client[c].inc \in Incidents
      BY <2>2
    <3>2. QED
      BY <1>2, <2>1, <2>8, <3>1, SetStatusAppends DEF Apply, TransitionWithEvent, TypeOK
  <2>9. ASSUME NEW c \in Clients, NEW o \in Outcome, Return(c, o)
        PROVE  /\ \A d \in Clients : d # c => Same(d)
               /\ client'[c].pc = "idle" /\ client'[c].outcome = o
               /\ client'[c].inc = client[c].inc /\ client'[c].seen = client[c].seen
               /\ client'[c].from = client[c].from
    BY <1>2, <2>9 DEF Return, TypeOK, Local
  <2>10. ASSUME NEW c \in Clients, NEW i \in Incidents, NEW to \in Targets, Read(c, i, to)
         PROVE  RaceSettled'
    <3>1. Grown /\ UNCHANGED timeline
      BY <2>7, <2>10 DEF Read, storeVars
    <3>2. \A d \in Clients : d # c => Same(d)
      BY <1>2, <2>10 DEF Read, TypeOK
    <3>3. /\ client'[c].outcome \in {"none", "not_found", "invalid_transition"}
          /\ client'[c].inc = i /\ client'[c].from = status[i] /\ client'[c].seen = Len(timeline[i])
          /\ client'[c].pc = "update" => CanTransition(status[i], to)
      BY <1>2, <2>10 DEF Read, TypeOK
    <3>4. VersionKnown(c)'
      BY <1>2, <2>1, <3>1, <3>3, StatusIsLast, StatusFacts DEF VersionKnown, CanTransition
    <3>5. QED
      BY <2>6, <3>1, <3>2, <3>3, <3>4
  <2>11. ASSUME NEW c \in Clients, Conflict(c) \/ Fail(c) PROVE RaceSettled'
    <3>1. Grown
      BY <2>7, <2>8, <2>11 DEF Conflict, Fail, storeVars
    <3>2. PICK o \in {"concurrent_modification", "error"} : Return(c, o)
      BY <2>11 DEF Conflict, Fail
    <3>3. /\ \A d \in Clients : d # c => Same(d)
          /\ client'[c].pc = "idle" /\ client'[c].outcome = o
      BY <2>9, <3>2 DEF Outcome
    <3>4. VersionKnown(c)'
      BY <3>3 DEF VersionKnown
    <3>5. QED
      BY <2>6, <3>1, <3>3, <3>4
  <2>12. ASSUME NEW c \in Clients, Update(c) PROVE RaceSettled'
    <3>0. PICK i \in Incidents : client[c].inc = i
      BY <2>2
    <3>1. Grown
      BY <2>8, <2>12 DEF Update
    <3>2. Return(c, "ok")
      BY <2>12 DEF Update
    <3>3. /\ \A d \in Clients : d # c => Same(d)
          /\ client'[c].pc = "idle" /\ client'[c].outcome = "ok"
          /\ client'[c].inc = i /\ client'[c].seen = client[c].seen
          /\ client'[c].from = client[c].from
      BY <2>9, <3>0, <3>2 DEF Outcome
    <3>4. /\ client[c].seen \in 1..Len(timeline[i])
          /\ timeline[i][client[c].seen].to = client[c].from
      BY <1>2, <2>12, <3>0 DEF Update, RaceSettled, VersionKnown
    <3>5. status[i] = client[c].from /\ Len(timeline'[i]) = Len(timeline[i]) + 1
      <4>1. TransitionWithEvent(i, client[c].from, client[c].to)
        BY <2>12, <3>0 DEF Update, Apply
      <4>2. QED
        BY <1>2, <4>1, SetStatusAppends DEF TransitionWithEvent, TypeOK
    <3>6. VersionKnown(c)'
      BY <2>1, <3>1, <3>3, <3>4, <3>5 DEF VersionKnown
    <3>7. ASSUME NEW d \in Clients, d # c, client[d].inc = i, client[d].seen = client[c].seen,
                 client[d].outcome = "ok"
          PROVE  ~NoRevisit(i)'
      <4>1. client[d].seen < Len(timeline[i])
        BY <1>2, <3>7 DEF RaceSettled, VersionKnown
      <4>2. timeline[i][Len(timeline[i])].to = timeline[i][client[c].seen].to
        BY <1>2, <2>1, <3>1, <3>4, <3>5, <4>1, StatusIsLast
      <4>3. ~NoRevisit(i)
        BY <2>1, <3>1, <3>4, <3>7, <4>1, <4>2 DEF NoRevisit
      <4>4. QED
        BY <1>2, <3>1, <4>3, RevisitStays
    <3>8. ASSUME NEW d \in Clients, Winners(c, d)' \/ Winners(d, c)'
          PROVE  ~NoRevisit(i)' /\ client'[c].inc = i /\ client'[d].inc = i
      <4>1. /\ d # c /\ client[d].inc = i /\ client[d].seen = client[c].seen
            /\ client[d].outcome = "ok" /\ client'[d].inc = i
        BY <3>3, <3>8 DEF Winners
      <4>2. QED
        BY <3>3, <3>7, <4>1
    <3>9. ASSUME NEW d \in Clients, NEW e \in Clients, Winners(d, e)'
          PROVE  ~NoRevisit(client[d].inc)'
      <4>1. CASE d # c /\ e # c
        BY <2>4, <3>1, <3>3, <3>9, <4>1
      <4>2. CASE d = c \/ e = c
        BY <3>8, <3>9, <4>2
      <4>3. QED
        BY <4>1, <4>2
    <3>10. QED
      BY <2>3, <3>1, <3>3, <3>6, <3>9 DEF RaceSettled
  <2>13. ASSUME NEW c \in Clients, NEW i \in Incidents, Create(c, i) PROVE RaceSettled'
    <3>1. Grown /\ UNCHANGED client
      BY <1>2, <2>1, <2>13, SetStatusAppends DEF Create, CreateWithEvent, TypeOK
    <3>2. QED
      BY <2>5, <3>1
  <2>14. CASE UNCHANGED vars
    BY <2>5, <2>7, <2>14 DEF vars
  <2>15. QED
    BY <1>2, <2>10, <2>11, <2>12, <2>13, <2>14 DEF Next
<1>3. QED
  BY <1>1, <1>2, ClientsTypeOK, ClientsTimelineChain, PTL DEF Spec

\* However many callers race on an incident, at most one of those that read the
\* same version of it is told that its transition succeeded.
THEOREM ClientsOneWinner == Spec => []OneWinner
<1>1. RaceSettled => OneWinner
  BY DEF RaceSettled, Winners, OneWinner
<1>2. QED
  BY <1>1, ClientsRaceSettled, PTL

\* Each event has an instant, none later than its commit; in order, if no status
\* was revisited.
InstantsSound ==
    \A i \in Incidents :
        /\ Len(createdAt[i]) = Len(timeline[i])
        /\ \A k \in 1..Len(createdAt[i]) : createdAt[i][k] < k

LEMMA ClientsInstants == Spec => [](InstantsSound /\ ListedInCommitOrder)
<1>1. Init => InstantsSound /\ ListedInCommitOrder
  BY DEF Init, StoreInit, InstantsSound, ListedInCommitOrder
<1>2. ASSUME TypeOK, TypeOK', TimelineChain, RaceSettled,
             InstantsSound, ListedInCommitOrder, [Next]_vars
      PROVE  InstantsSound' /\ ListedInCommitOrder'
  <2> DEFINE Fine(i) == /\ Len(createdAt[i]) = Len(timeline[i])
                        /\ \A k \in 1..Len(createdAt[i]) : createdAt[i][k] < k
                        /\ NoRevisit(i) => \A j, k \in 1..Len(createdAt[i]) :
                                               j < k => createdAt[i][j] < createdAt[i][k]
  <2>1. \A i \in Incidents : Fine(i)
    BY <1>2 DEF InstantsSound, ListedInCommitOrder
  <2>2. SUFFICES ASSUME NEW i \in Incidents PROVE Fine(i)'
    BY DEF InstantsSound, ListedInCommitOrder
  <2>3. /\ createdAt[i] \in Seq(Nat) /\ Len(createdAt[i]) \in Nat
        /\ Len(timeline[i]) \in Nat /\ Len(timeline'[i]) \in Nat
    BY <1>2 DEF TypeOK, StoreTypeOK
  <2>4. CASE createdAt'[i] = createdAt[i] /\ timeline'[i] = timeline[i]
    BY <2>1, <2>4 DEF NoRevisit
  <2>5. ASSUME NEW c \in Clients, client[c].pc = "update", Apply(c) PROVE Fine(i)'
    <3> DEFINE l == client[c]
               n == Len(timeline[i])
    <3>1. l.inc \in Incidents /\ TransitionWithEvent(l.inc, l.from, l.to)
      BY <1>2, <2>5 DEF TypeOK, Local, Apply
    <3>2. CASE l.inc # i
      <4>1. timeline'[i] = timeline[i]
        BY <1>2, <3>1, <3>2, SetStatusAppends DEF TransitionWithEvent, TypeOK
      <4>2. createdAt'[i] = createdAt[i]
        BY <1>2, <2>5, <3>2 DEF Apply, TypeOK
      <4>3. QED
        BY <2>4, <4>1, <4>2
    <3>3. CASE l.inc = i
      <4>1. /\ Len(timeline'[i]) = n + 1
            /\ \A k \in 1..n : timeline'[i][k] = timeline[i][k]
            /\ status[i] = l.from
        BY <1>2, <3>1, <3>3, SetStatusAppends DEF TransitionWithEvent, TypeOK
      <4>2. PICK now \in l.seen..n : createdAt' = [createdAt EXCEPT ![i] = Append(@, now)]
        BY <2>5, <3>3 DEF Apply
      <4>3. l.seen \in 1..n /\ timeline[i][l.seen].to = status[i] /\ now \in Nat /\ now <= n
        BY <1>2, <2>3, <2>5, <3>3, <4>1 DEF RaceSettled, VersionKnown
      <4>4. createdAt'[i] = Append(createdAt[i], now) /\ Len(createdAt[i]) = n
        BY <1>2, <2>1, <4>2 DEF TypeOK
      <4>5. /\ Len(createdAt'[i]) = n + 1 /\ createdAt'[i][n + 1] = now
            /\ \A k \in 1..n : createdAt'[i][k] = createdAt[i][k]
        BY <2>3, <4>3, <4>4
      <4>6. \A k \in 1..(n + 1) : createdAt'[i][k] < k
        BY <2>1, <2>3, <4>3, <4>4, <4>5
      <4>7. ASSUME NoRevisit(i)' PROVE now = n
        <5>1. NoRevisit(i)
          BY <1>2, <2>3, <4>1, <4>7, RevisitStays
        <5>2. timeline[i][n].to = status[i]
          BY <1>2, <4>3, StatusIsLast
        <5>3. l.seen = n
          BY <2>3, <4>3, <5>1, <5>2 DEF NoRevisit
        <5>4. QED
          BY <2>3, <4>3, <5>3
      <4>8. ASSUME NoRevisit(i)', NEW j \in 1..(n + 1), NEW k \in 1..(n + 1), j < k
            PROVE  createdAt'[i][j] < createdAt'[i][k]
        <5>1. NoRevisit(i)
          BY <1>2, <2>3, <4>1, <4>8, RevisitStays
        <5>2. CASE k \in 1..n
          BY <2>1, <2>3, <4>4, <4>5, <4>8, <5>1, <5>2
        <5>3. CASE k = n + 1
          <6>1. j \in 1..n /\ createdAt'[i][j] < j
            BY <2>3, <4>6, <4>8, <5>3
          <6>2. createdAt'[i][j] = createdAt[i][j] /\ createdAt[i][j] \in Nat
            <7>1. j \in 1..Len(createdAt[i])
              BY <4>4, <6>1
            <7>2. QED
              BY <2>3, <4>5, <6>1, <7>1
          <6>3. QED
            BY <2>3, <4>5, <4>7, <4>8, <5>3, <6>1, <6>2
        <5>4. QED
          BY <2>3, <5>2, <5>3
      <4>9. QED
        BY <4>1, <4>5, <4>6, <4>8
    <3>4. QED
      BY <3>2, <3>3
  <2>6. ASSUME NEW c \in Clients, NEW j \in Incidents, Create(c, j) PROVE Fine(i)'
    <3>1. CASE j # i
      <4>1. timeline'[i] = timeline[i] /\ createdAt'[i] = createdAt[i]
        BY <1>2, <2>6, <3>1, SetStatusAppends DEF Create, CreateWithEvent, TypeOK
      <4>2. QED
        BY <2>4, <4>1
    <3>2. CASE j = i
      <4>1. Len(timeline[i]) = 0
        BY <1>2, <2>6, <3>2, StatusIsLast DEF Create, CreateWithEvent
      <4>2. Len(timeline'[i]) = 1
        <5>1. SetStatus(i, NoStatus, "RECEIVED")
          BY <2>6, <3>2 DEF Create, CreateWithEvent
        <5>2. Len(timeline'[i]) = Len(timeline[i]) + 1
          BY <1>2, <5>1, SetStatusAppends DEF TypeOK
        <5>3. QED
          BY <4>1, <5>2
      <4>3. createdAt'[i] = <<0>>
        BY <1>2, <2>6, <3>2 DEF Create, TypeOK
      <4>4. QED
        BY <4>2, <4>3
    <3>3. QED
      BY <3>1, <3>2
  <2>7. CASE UNCHANGED <<timeline, createdAt>>
    BY <2>4, <2>7
  <2>8. QED
    BY <1>2, <2>5, <2>6, <2>7 DEF Next, Read, Update, Conflict, Fail, vars, storeVars
<1>3. QED
  BY <1>1, <1>2, ClientsTypeOK, ClientsTimelineChain, ClientsRaceSettled, PTL DEF Spec

\* An incident that never comes back to a status is listed in the order its moves
\* were committed, although each event carries the time of an earlier clock.
THEOREM ClientsListedInCommitOrder == Spec => []ListedInCommitOrder
BY ClientsInstants, PTL

=============================================================================
