----------------------------- MODULE FrontDoor -----------------------------
(***************************************************************************)
(* What a request that creates an incident passes on its way through the   *)
(* API (transport/http): the API key, the rate limit of its route, the     *)
(* signature of a webhook, the decoding of its body, and the transaction   *)
(* that stores incident, investigation and job.  Requests are served at    *)
(* the same time; the limiter reads the clock before it takes its lock.    *)
(*                                                                         *)
(* The limiter knows a sender by an address only: the header the request   *)
(* brings, which a proxy or the client itself writes, or else the address  *)
(* and port of its connection.  One client may so be many senders, and     *)
(* several clients one.                                                    *)
(*                                                                         *)
(*   clock         the time                                                *)
(*   hits          the limiter's windows: of a key, the count and the end  *)
(*   at[s]         the request served in slot s, when the limiter read the *)
(*                 clock for it, and where it is                           *)
(*   arrivals      how many requests have come                             *)
(*   incidents[r]  how many incidents were created for request r           *)
(*   accepted[r]   how often it was answered 202, Accepted                 *)
(*   rejected      requests that were answered 400, Bad Request            *)
(*   admitted[k]   what the limiter let through: when, and whether at the  *)
(*                 time it had read                                        *)
(*   faults        transactions that failed or whose outcome was lost      *)
(***************************************************************************)
EXTENDS Integers, Sequences, FiniteSets

CONSTANTS Slots,       \* requests served at the same time
          Addresses,   \* of connections, and what headers name
          Requests,    \* what clients send, any number of times
          Limit,       \* per route and window
          Window,      \* a minute
          MaxClock, MaxArrivals, MaxFaults   \* bounds

Routes == {"webhook", "create_incident"}
Severities == {"critical", "high", "medium", "low"}

\* Texts: empty, spaces, one of Severities, one of them with spaces around it, one that
\* is longer than the field of an incident it may fill (500 bytes for the title, 10000
\* for the description, 200 for the service, 100 for the environment), others.
Text == Severities \cup {"", "blank", "padded", "long", "word"}
Trim(t) == CASE t = "blank" -> "" [] t = "padded" -> "high" [] OTHER -> t

Input == [title : Text, description : Text, severity : Text, service : Text,
          environment : Text, alertSource : Text]
Label == {"alertname", "severity", "service", "job", "container",
          "environment", "env", "namespace"}
Alert == [title : Text, description : Text, message : Text, note : Text, firing : BOOLEAN,
          common : [Label -> Text], first : [Label -> Text]]

\* conn is RemoteAddr, address and port; forwarded what X-Forwarded-For lists, nothing
\* without the header.  The body of a webhook is an alert, that of a request to create an
\* incident is what it is created from; wellFormed: it can be decoded.
ASSUME RequestsAssumption ==
    \A r \in Requests : /\ r.route \in Routes
                        /\ r.conn \in Addresses /\ r.forwarded \in Seq(Addresses)
                        /\ {r.key, r.signed, r.wellFormed} \subseteq BOOLEAN
                        /\ IF r.route = "webhook" THEN r.body \in Alert ELSE r.body \in Input
ASSUME LimitsAssumption == Limit \in [Routes -> Int] /\ Window \in Nat \ {0}
ASSUME BoundsAssumption == MaxClock \in Nat /\ MaxArrivals \in Nat /\ MaxFaults \in Nat

VARIABLES clock, hits, at, arrivals, incidents, accepted, rejected, admitted, faults

answers == <<accepted, rejected>>
vars == <<clock, hits, at, arrivals, incidents, answers, admitted, faults>>

\* The first address of the header, if there is one.
Address(r) == IF r.forwarded = <<>> THEN r.conn ELSE Head(r.forwarded)

Senders == Routes \X Addresses
Sender(r) == <<r.route, Address(r)>>

Init == /\ clock = 0
        /\ hits = [k \in {} |-> 0]
        /\ at = [s \in Slots |-> [pc |-> "idle"]]
        /\ arrivals = 0
        /\ incidents = [r \in Requests |-> 0]
        /\ accepted = [r \in Requests |-> 0]
        /\ rejected = {}
        /\ admitted = [k \in Senders |-> <<>>]
        /\ faults = 0

-----------------------------------------------------------------------------

Goto(s, pc) == at' = [at EXCEPT ![s].pc = pc]
Finish(s) == at' = [at EXCEPT ![s] = [pc |-> "idle"]]

\* Answers are 202, 400, or one that says nothing was done and why: 401, 429; 500 for
\* an error of the database.
Reply(s, code) ==
    /\ Finish(s)
    /\ accepted' = IF code = 202 THEN [accepted EXCEPT ![at[s].req] = @ + 1] ELSE accepted
    /\ rejected' = IF code = 400 THEN rejected \cup {at[s].req} ELSE rejected

\* apiKeyMiddleware lets only requests with the key pass, or all if none is set: others
\* are answered 401.  rateLimitMiddleware is next, and reads the clock if the route has
\* a limit.
Arrive(s, r) ==
    /\ at[s].pc = "idle"
    /\ r.key
    /\ arrivals < MaxArrivals
    /\ arrivals' = arrivals + 1
    /\ at' = [at EXCEPT ![s] = [pc |-> IF Limit[r.route] <= 0 THEN "handle" ELSE "lock",
                                req |-> r, now |-> clock]]
    /\ UNCHANGED <<clock, hits, incidents, answers, admitted, faults>>

-----------------------------------------------------------------------------
(***************************************************************************)
(* MemoryRateLimiter.Allow, under its lock                                 *)
(***************************************************************************)

\* Mutant: one limit for all who use a route.
KeyOfRoute(r) == r.route

\* bucket + ":" + ip.
KeyOf(r) == <<r.route, Address(r)>>

\* Mutant: refused one too late.
FullLate(key, limit) == hits[key].count > limit

Full(key, limit) == hits[key].count >= limit

NewWindow(key, now) == key \in DOMAIN hits => now > hits[key].reset

Allow(s) ==
    LET r == at[s].req
        key == KeyOf(r)
        now == at[s].now
    IN /\ at[s].pc = "lock"
       /\ \/ /\ NewWindow(key, now)
             /\ hits' = [k \in DOMAIN hits \cup {key} |->
                           IF k = key THEN [count |-> 1, reset |-> now + Window] ELSE hits[k]]
          \/ /\ ~NewWindow(key, now) /\ ~Full(key, Limit[r.route])
             /\ hits' = [hits EXCEPT ![key].count = @ + 1]
       /\ admitted' = [admitted EXCEPT ![Sender(r)] =
                          Append(@, [time |-> clock, prompt |-> now = clock])]
       /\ Goto(s, "handle")
       /\ UNCHANGED <<clock, arrivals, incidents, answers, faults>>

Refuse(s) ==
    LET r == at[s].req
    IN /\ at[s].pc = "lock"
       /\ ~NewWindow(KeyOf(r), at[s].now) /\ Full(KeyOf(r), Limit[r.route])
       /\ Reply(s, 429)
       /\ UNCHANGED <<clock, hits, arrivals, incidents, admitted, faults>>

-----------------------------------------------------------------------------
(***************************************************************************)
(* The handlers                                                            *)
(***************************************************************************)

FirstNonEmpty(texts) ==
    LET usable == {i \in DOMAIN texts : Trim(texts[i]) # ""}
    IN IF usable = {} THEN "" ELSE texts[CHOOSE i \in usable : \A j \in usable : i <= j]

\* Mutant: an alert without a label for the service is passed on as it is.
IncidentFromAlertBare(a) ==
    LET label == [l \in Label |-> IF a.common[l] = "" THEN a.first[l] ELSE a.common[l]]
    IN [title |-> FirstNonEmpty(<<a.title, label["alertname"], "word">>),
        description |-> FirstNonEmpty(<<a.description, a.message, a.note, "word">>),
        alertSource |-> "word",
        service |-> FirstNonEmpty(<<label["service"], label["job"], label["container"]>>),
        environment |-> FirstNonEmpty(<<label["environment"], label["env"],
                                        label["namespace"], "word">>),
        severity |-> IF Trim(label["severity"]) \in Severities THEN label["severity"]
                     ELSE IF a.firing THEN "high" ELSE "medium"]

\* The labels all alerts share come before those of the first one; note is what its
\* annotations say; a known severity is passed on as it is written.
IncidentFromAlert(a) ==
    LET label == [l \in Label |-> IF a.common[l] = "" THEN a.first[l] ELSE a.common[l]]
    IN [title |-> FirstNonEmpty(<<a.title, label["alertname"], "word">>),
        description |-> FirstNonEmpty(<<a.description, a.message, a.note, "word">>),
        alertSource |-> "word",
        service |-> FirstNonEmpty(<<label["service"], label["job"], label["container"], "word">>),
        environment |-> FirstNonEmpty(<<label["environment"], label["env"],
                                        label["namespace"], "word">>),
        severity |-> IF Trim(label["severity"]) \in Severities THEN label["severity"]
                     ELSE IF a.firing THEN "high" ELSE "medium"]

InputOf(r) == IF r.route = "webhook" THEN IncidentFromAlert(r.body) ELSE r.body

\* ValidateCreateInput: what must be there, and that nothing is too long.
Valid(input) ==
    /\ Trim(input.title) \notin {"", "long"}
    /\ Trim(input.description) # "long"
    /\ Trim(input.service) \notin {"", "long"}
    /\ Trim(input.environment) \notin {"", "long"}
    /\ Trim(input.alertSource) # "long"
    /\ input.severity \in Severities

Usable(r) == r.wellFormed /\ Valid(InputOf(r))

\* grafanaWebhookAuthMiddleware refuses (401) a webhook whose signature does not fit
\* its body; then the body is decoded and what it says checked (400).
Decline(s) ==
    LET r == at[s].req
    IN /\ at[s].pc = "handle"
       /\ \/ r.route = "webhook" /\ ~r.signed /\ Reply(s, 401)
          \/ (r.route = "webhook" => r.signed) /\ ~Usable(r) /\ Reply(s, 400)
       /\ UNCHANGED <<clock, hits, arrivals, incidents, admitted, faults>>

Persisted(r) == incidents' = [incidents EXCEPT ![r] = @ + 1]
Fault == faults < MaxFaults /\ faults' = faults + 1

\* Mutant: an error of Persist is logged like that of the hint to the workers.
CreateIncidentRegardless(s) ==
    LET r == at[s].req
    IN /\ at[s].pc = "handle"
       /\ (r.route = "webhook" => r.signed) /\ Usable(r)
       /\ \/ Persisted(r) /\ Reply(s, 202) /\ UNCHANGED faults
          \/ UNCHANGED incidents /\ Reply(s, 202) /\ Fault
       /\ UNCHANGED <<clock, hits, arrivals, admitted>>

\* Orchestrator.CreateIncident.  An error of the database, and the end of the time a
\* request may take, are answered 500 whether or not the transaction was committed.
CreateIncident(s) ==
    LET r == at[s].req
    IN /\ at[s].pc = "handle"
       /\ (r.route = "webhook" => r.signed) /\ Usable(r)
       /\ \/ Persisted(r) /\ Reply(s, 202) /\ UNCHANGED faults
          \/ Persisted(r) /\ Reply(s, 500) /\ Fault
          \/ UNCHANGED incidents /\ Reply(s, 500) /\ Fault
       /\ UNCHANGED <<clock, hits, arrivals, admitted>>

Tick == /\ clock < MaxClock
        /\ clock' = clock + 1
        /\ UNCHANGED <<hits, at, arrivals, incidents, answers, admitted, faults>>

Step(s) == \/ \E r \in Requests : Arrive(s, r)
           \/ Allow(s) \/ Refuse(s) \/ Decline(s) \/ CreateIncident(s)

Next == Tick \/ \E s \in Slots : Step(s)

Spec == Init /\ [][Next]_vars

-----------------------------------------------------------------------------

\* The count of a window never exceeds the limit of its route, also while requests
\* that read the clock in an earlier window are still to be counted, and no window ends
\* later than one from now.
TypeOK ==
    /\ clock \in 0 .. MaxClock /\ arrivals \in 0 .. MaxArrivals
    /\ DOMAIN hits \subseteq Senders
    /\ \A k \in DOMAIN hits : /\ hits[k].count \in 1 .. Limit[k[1]]
                              /\ hits[k].reset \in Window .. clock + Window
    /\ \A s \in Slots : \/ at[s].pc = "idle"
                       \/ /\ at[s].pc \in {"lock", "handle"}
                          /\ at[s].req \in Requests /\ at[s].now \in 0 .. clock
    /\ incidents \in [Requests -> Nat] /\ accepted \in [Requests -> Nat]
    /\ rejected \subseteq Requests
    /\ \A k \in Senders : admitted[k] \in Seq([time : 0 .. clock, prompt : BOOLEAN])
    /\ faults \in 0 .. MaxFaults

\* "In-memory fixed window" (hardening.md:11): the windows are fixed, not sliding, so
\* the end of one and the start of the next admit almost twice the limit within a
\* window's length, and never more of those that did not wait for the lock; of requests
\* that waited, having read the clock before, more may pass at once.  The bound is one of
\* an address: requests over new connections, or that name other addresses, have others.
Within(k, from, to) == {i \in DOMAIN admitted[k] : admitted[k][i].time \in from .. to}
RateBounded ==
    \A k \in Senders :
        Limit[k[1]] > 0 =>
            Cardinality({i \in Within(k, clock - Window, clock) : admitted[k][i].prompt})
                < 2 * Limit[k[1]]

\* A request is refused only if the limit was used up under its own address: as many
\* requests to the same route, of the same connection or naming the same address, as it
\* allows passed since a window before it came.  Neither another address, nor another
\* route, nor a late lock counts against it; who else names its address does.
RefusalJustified ==
    [][\A s \in Slots :
          Refuse(s) => LET k == Sender(at[s].req)
                       IN Cardinality(Within(k, at[s].now - Window, clock)) >= Limit[k[1]]]_vars

\* An answer tells the truth about the database: every 202 has an incident of its own,
\* a request that was refused has none, and an incident nobody was told of exists for
\* each fault at most.  Sent again, the same request creates another one.
Counted(count) == UNION {{r} \X (1 .. count[r]) : r \in Requests}
Total(count) == Cardinality(Counted(count))
AnswersTrue ==
    /\ \A r \in Requests : accepted[r] <= incidents[r]
    /\ Total(incidents) <= Total(accepted) + faults

\* No alert is too bare to become an incident: a webhook that can be decoded is
\* refused only for a known severity with spaces around it, which mapSeverity
\* recognizes and passes on untrimmed, or for a text longer than the field it is meant
\* for, which nothing shortens.
Severity(a) == {a.common["severity"], a.first["severity"]}
Prose(a) == {a.title, a.description, a.message, a.note}
                \cup UNION {{a.common[l], a.first[l]} : l \in Label \ {"severity"}}
AlertsUsable ==
    \A r \in rejected :
        r.route = "webhook" /\ r.wellFormed =>
            "padded" \in Severity(r.body) \/ "long" \in Prose(r.body)

=============================================================================
