-------------------------- MODULE FrontDoorProofs --------------------------
(***************************************************************************)
(* Safety of the front door for any addresses and requests, any number of  *)
(* them served at the same time, any limits and any length of the window.  *)
(***************************************************************************)
EXTENDS FrontDoor, FiniteSetTheorems, WellFoundedInduction, TLAPS

USE LimitsAssumption, BoundsAssumption

-----------------------------------------------------------------------------
(* Types. *)

Serving == [pc : {"idle"}] \cup [pc : {"lock", "handle"}, req : Requests, now : Nat]
Admission == [time : Nat, prompt : BOOLEAN]

\* The inductive invariant: only the requests of a route with a limit wait for the lock.
Base ==
    /\ TypeOK
    /\ at \in [Slots -> Serving]
    /\ hits \in [DOMAIN hits -> [count : Nat, reset : Nat]]
    /\ admitted \in [Senders -> Seq(Admission)]
    /\ \A s \in Slots : at[s].pc = "lock" => Limit[at[s].req.route] > 0

\* Of a request in a slot.
SlotOK(l, time) ==
    /\ l \in Serving
    /\ l.pc # "idle" => l.req \in Requests /\ l.now \in 0 .. time
    /\ l.pc = "lock" => Limit[l.req.route] > 0

LEMMA RequestFacts ==
  ASSUME NEW r \in Requests
  PROVE  /\ r.route \in Routes /\ Limit[r.route] \in Int
         /\ Sender(r) \in Senders /\ KeyOf(r) = Sender(r) /\ Sender(r)[1] = r.route
<1>1. r.route \in Routes /\ r.conn \in Addresses /\ r.forwarded \in Seq(Addresses)
  BY RequestsAssumption
<1>2. Address(r) \in Addresses
  BY <1>1 DEF Address
<1>3. QED
  BY <1>1, <1>2 DEF Sender, Senders, KeyOf

LEMMA SlotsOK ==
  ASSUME Base, NEW s \in Slots
  PROVE  SlotOK(at[s], clock)
BY DEF Base, TypeOK, SlotOK

LEMMA SlotSet ==
  ASSUME Base, NEW s \in Slots, NEW l, SlotOK(l, clock), at' = [at EXCEPT ![s] = l]
  PROVE  /\ at' \in [Slots -> Serving]
         /\ \A t \in Slots : SlotOK(at'[t], clock)
<1>1. at \in [Slots -> Serving] /\ l \in Serving
  BY DEF Base, SlotOK
<1>2. \A t \in Slots : at'[t] = IF t = s THEN l ELSE at[t]
  BY <1>1
<1>3. QED
  BY <1>1, <1>2, SlotsOK

\* What the limiter and the counters must keep, when the slots are what they should be.
LEMMA BaseFrom ==
  ASSUME at' \in [Slots -> Serving], clock' \in 0 .. MaxClock, arrivals' \in 0 .. MaxArrivals,
         \A t \in Slots : SlotOK(at'[t], clock'),
         DOMAIN hits' \subseteq Senders, hits' \in [DOMAIN hits' -> [count : Nat, reset : Nat]],
         \A k \in DOMAIN hits' : hits'[k].count \in 1 .. Limit[k[1]],
         \A k \in DOMAIN hits' : hits'[k].reset \in Window .. clock' + Window,
         incidents' \in [Requests -> Nat], accepted' \in [Requests -> Nat],
         rejected' \subseteq Requests, faults' \in 0 .. MaxFaults,
         admitted' \in [Senders -> Seq(Admission)],
         \A k \in Senders : admitted'[k] \in Seq([time : 0 .. clock', prompt : BOOLEAN])
  PROVE  Base'
<1>1. \A k \in DOMAIN hits' : /\ hits'[k].count \in 1 .. Limit[k[1]]
                              /\ hits'[k].reset \in Window .. clock' + Window
  OBVIOUS
<1>2. \A s \in Slots : \/ at'[s].pc = "idle"
                       \/ /\ at'[s].pc \in {"lock", "handle"}
                          /\ at'[s].req \in Requests /\ at'[s].now \in 0 .. clock'
  BY DEF SlotOK, Serving
<1>3. TypeOK'
  BY <1>1, <1>2 DEF TypeOK
<1>4. \A s \in Slots : at'[s].pc = "lock" => Limit[at'[s].req.route] > 0
  BY DEF SlotOK
<1>5. QED
  BY <1>3, <1>4 DEF Base

\* What a step keeps that neither admits nor lets time pass.
Elsewhere == UNCHANGED <<clock, hits, admitted>>

LEMMA BaseElsewhere ==
  ASSUME Base, Elsewhere, NEW s \in Slots, NEW l, SlotOK(l, clock), at' = [at EXCEPT ![s] = l],
         arrivals' \in 0 .. MaxArrivals,
         incidents' \in [Requests -> Nat], accepted' \in [Requests -> Nat],
         rejected' \subseteq Requests, faults' \in 0 .. MaxFaults
  PROVE  Base'
<1>1. /\ clock \in 0 .. MaxClock
      /\ DOMAIN hits \subseteq Senders /\ hits \in [DOMAIN hits -> [count : Nat, reset : Nat]]
      /\ \A k \in DOMAIN hits : hits[k].count \in 1 .. Limit[k[1]]
      /\ \A k \in DOMAIN hits : hits[k].reset \in Window .. clock + Window
      /\ admitted \in [Senders -> Seq(Admission)]
      /\ \A k \in Senders : admitted[k] \in Seq([time : 0 .. clock, prompt : BOOLEAN])
  BY DEF Base, TypeOK
<1>2. clock' = clock /\ hits' = hits /\ admitted' = admitted
  BY DEF Elsewhere
<1>3. at' \in [Slots -> Serving] /\ \A t \in Slots : SlotOK(at'[t], clock)
  BY SlotSet
<1>4. QED
  BY <1>1, <1>2, <1>3, BaseFrom

LEMMA IdleSlot ==
  ASSUME Base
  PROVE  SlotOK([pc |-> "idle"], clock)
BY DEF SlotOK, Serving

LEMMA GotoSlot ==
  ASSUME Base, NEW s \in Slots, at[s].pc # "idle", Goto(s, "handle")
  PROVE  \E l : SlotOK(l, clock) /\ at' = [at EXCEPT ![s] = l]
<1> DEFINE l == [at[s] EXCEPT !.pc = "handle"]
<1>1. at[s] \in [pc : {"lock", "handle"}, req : Requests, now : Nat] /\ at[s].now \in 0 .. clock
  BY SlotsOK DEF SlotOK, Serving
<1>2. l \in Serving /\ l.pc = "handle" /\ l.now = at[s].now /\ l.req \in Requests
  BY <1>1 DEF Serving
<1>3. at' = [at EXCEPT ![s] = l]
  BY DEF Goto
<1> HIDE DEF l
<1>4. SlotOK(l, clock)
  BY <1>1, <1>2 DEF SlotOK
<1>5. QED
  BY <1>3, <1>4

LEMMA ReplyTypes ==
  ASSUME Base, NEW s \in Slots, at[s].pc # "idle", NEW code, Reply(s, code)
  PROVE  /\ at' = [at EXCEPT ![s] = [pc |-> "idle"]]
         /\ accepted' \in [Requests -> Nat] /\ rejected' \subseteq Requests
<1>1. at[s].req \in Requests
  BY SlotsOK DEF SlotOK
<1>2. accepted \in [Requests -> Nat] /\ rejected \subseteq Requests
  BY DEF Base, TypeOK
<1>3. at' = [at EXCEPT ![s] = [pc |-> "idle"]]
  BY DEF Reply, Finish
<1>4. accepted' \in [Requests -> Nat]
  BY <1>1, <1>2 DEF Reply
<1>5. rejected' \subseteq Requests
  BY <1>1, <1>2 DEF Reply
<1>6. QED
  BY <1>3, <1>4, <1>5

LEMMA BaseArrive ==
  ASSUME Base, NEW s \in Slots, NEW r \in Requests, Arrive(s, r)
  PROVE  Base'
<1> DEFINE l == [pc |-> IF Limit[r.route] <= 0 THEN "handle" ELSE "lock", req |-> r, now |-> clock]
<1>1. /\ at' = [at EXCEPT ![s] = l] /\ Elsewhere
      /\ arrivals < MaxArrivals /\ arrivals' = arrivals + 1
      /\ UNCHANGED <<incidents, answers, faults>>
  BY DEF Arrive, Elsewhere
<1>2. /\ clock \in Nat /\ arrivals \in 0 .. MaxArrivals
      /\ incidents \in [Requests -> Nat] /\ accepted \in [Requests -> Nat]
      /\ rejected \subseteq Requests /\ faults \in 0 .. MaxFaults
  BY DEF Base, TypeOK
<1>3. /\ l.pc \in {"lock", "handle"} /\ l.req = r /\ l.now = clock
      /\ l.pc = "lock" => Limit[r.route] > 0
  BY RequestFacts
<1>4. l \in Serving
  BY <1>2, <1>3 DEF Serving
<1> HIDE DEF l
<1>5. SlotOK(l, clock)
  BY <1>2, <1>3, <1>4 DEF SlotOK
<1>6. arrivals' \in 0 .. MaxArrivals
  BY <1>1, <1>2
<1>7. QED
  BY <1>1, <1>2, <1>5, <1>6, BaseElsewhere DEF answers

LEMMA BaseReply ==
  ASSUME Base, NEW s \in Slots, at[s].pc # "idle", NEW code, Reply(s, code),
         Elsewhere, UNCHANGED arrivals, incidents' \in [Requests -> Nat], faults' \in 0 .. MaxFaults
  PROVE  Base'
<1>1. arrivals \in 0 .. MaxArrivals
  BY DEF Base, TypeOK
<1>2. QED
  BY <1>1, ReplyTypes, IdleSlot, BaseElsewhere

LEMMA BaseRefuse ==
  ASSUME Base, NEW s \in Slots, Refuse(s) \/ Decline(s)
  PROVE  Base'
<1>1. incidents \in [Requests -> Nat] /\ faults \in 0 .. MaxFaults
  BY DEF Base, TypeOK
<1>2. /\ at[s].pc # "idle" /\ Elsewhere
      /\ UNCHANGED <<arrivals, incidents, faults>>
      /\ Reply(s, 429) \/ Reply(s, 401) \/ Reply(s, 400)
  BY DEF Refuse, Decline, Elsewhere
<1>3. QED
  BY <1>1, <1>2, BaseReply

\* What CreateIncident does, whoever asks.
LEMMA Creates ==
  ASSUME Base, NEW s \in Slots, CreateIncident(s)
  PROVE  /\ at[s].pc = "handle" /\ at[s].req \in Requests /\ Elsewhere /\ UNCHANGED arrivals
         /\ \/ Persisted(at[s].req) /\ Reply(s, 202) /\ UNCHANGED faults
            \/ Persisted(at[s].req) /\ Reply(s, 500) /\ Fault
            \/ UNCHANGED incidents /\ Reply(s, 500) /\ Fault
<1>1. at[s].pc = "handle" /\ UNCHANGED <<clock, hits, arrivals, admitted>>
  BY DEF CreateIncident
<1>2. at[s].req \in Requests
  BY <1>1, SlotsOK DEF SlotOK
<1>3. \/ Persisted(at[s].req) /\ Reply(s, 202) /\ UNCHANGED faults
      \/ Persisted(at[s].req) /\ Reply(s, 500) /\ Fault
      \/ UNCHANGED incidents /\ Reply(s, 500) /\ Fault
  BY Zenon DEF CreateIncident
<1>4. QED
  BY <1>1, <1>2, <1>3 DEF Elsewhere

LEMMA BaseCreate ==
  ASSUME Base, NEW s \in Slots, CreateIncident(s)
  PROVE  Base'
<1>1. incidents \in [Requests -> Nat] /\ faults \in 0 .. MaxFaults
  BY DEF Base, TypeOK
<1>2. at[s].req \in Requests /\ at[s].pc # "idle" /\ Elsewhere /\ UNCHANGED arrivals
  BY Creates
<1>3. incidents' \in [Requests -> Nat]
  <2>1. Persisted(at[s].req) \/ UNCHANGED incidents
    BY Creates
  <2>2. QED
    BY <1>1, <1>2, <2>1 DEF Persisted
<1>4. faults' \in 0 .. MaxFaults
  <2>1. UNCHANGED faults \/ Fault
    BY Creates
  <2>2. QED
    BY <1>1, <2>1 DEF Fault
<1>5. Reply(s, 202) \/ Reply(s, 500)
  BY Creates
<1>6. QED
  BY <1>2, <1>3, <1>4, <1>5, BaseReply

LEMMA SeqWider ==
  ASSUME NEW S, NEW T, S \subseteq T, NEW q \in Seq(S)
  PROVE  q \in Seq(T)
OBVIOUS

LEMMA SeqElement ==
  ASSUME NEW S, NEW q \in Seq(S), NEW i \in 1 .. Len(q)
  PROVE  q[i] \in S
OBVIOUS

LEMMA AdmittedTyped ==
  ASSUME Base, NEW k \in Senders
  PROVE  admitted[k] \in Seq([time : 0 .. clock, prompt : BOOLEAN])
BY Zenon DEF Base, TypeOK

LEMMA BaseTick ==
  ASSUME Base, Tick
  PROVE  Base'
<1>1. /\ clock \in 0 .. MaxClock /\ clock' = clock + 1 /\ clock' \in 0 .. MaxClock
      /\ UNCHANGED <<hits, at, arrivals, incidents, accepted, rejected, admitted, faults>>
  BY DEF Tick, Base, TypeOK, answers
<1>2. \A t \in Slots : SlotOK(at[t], clock')
  BY <1>1, SlotsOK DEF SlotOK
<1>3. \A k \in Senders : admitted[k] \in Seq([time : 0 .. clock', prompt : BOOLEAN])
  <2>1. [time : 0 .. clock, prompt : BOOLEAN] \subseteq [time : 0 .. clock', prompt : BOOLEAN]
    BY <1>1
  <2> DEFINE S == [time : 0 .. clock, prompt : BOOLEAN]
             T == [time : 0 .. clock', prompt : BOOLEAN]
  <2>2. \A k \in Senders : admitted[k] \in Seq(S)
    BY AdmittedTyped
  <2> HIDE DEF S, T
  <2>3. S \subseteq T
    BY <2>1 DEF S, T
  <2>4. \A k \in Senders : admitted[k] \in Seq(T)
    BY <2>2, <2>3, SeqWider
  <2>5. QED
    BY <2>4 DEF T
<1>4. /\ at \in [Slots -> Serving]
      /\ DOMAIN hits \subseteq Senders /\ hits \in [DOMAIN hits -> [count : Nat, reset : Nat]]
      /\ \A k \in DOMAIN hits : hits[k].count \in 1 .. Limit[k[1]]
      /\ \A k \in DOMAIN hits : hits[k].reset \in Window .. clock + Window
      /\ admitted \in [Senders -> Seq(Admission)]
      /\ arrivals \in 0 .. MaxArrivals
      /\ incidents \in [Requests -> Nat] /\ accepted \in [Requests -> Nat]
      /\ rejected \subseteq Requests /\ faults \in 0 .. MaxFaults
  BY DEF Base, TypeOK
<1>5. \A k \in DOMAIN hits : hits[k].reset \in Window .. clock' + Window
  <2>1. clock \in Nat /\ clock' = clock + 1 /\ Window \in Nat
    BY <1>1
  <2>2. QED
    BY <1>4, <2>1
<1>6. QED
  BY <1>1, <1>2, <1>3, <1>4, <1>5, BaseFrom

-----------------------------------------------------------------------------
(***************************************************************************)
(* The limiter.  Of sender k, whose window was opened at the time Opened(k)*)
(* had read, Opener(k) is the place of the admission that opened it.       *)
(***************************************************************************)

Opened(k) == hits[k].reset - Window
Opener(k) == Len(admitted[k]) - hits[k].count + 1

\* Earlier admissions as late as a window before time that did not wait.
Late(k, last, time) == {i \in 1 .. last : admitted[k][i].prompt /\ admitted[k][i].time >= time - Window}

\* The inductive invariant: what was admitted since a window was opened; that whoever
\* did not wait before came before it; and that of them less than the limit came
\* during the window's length before.
WindowOK(k) ==
    /\ Opener(k) >= 1 /\ Opened(k) \in 0 .. clock
    /\ \A i \in Opener(k) .. Len(admitted[k]) :
          /\ admitted[k][i].time >= Opened(k)
          /\ admitted[k][i].prompt => admitted[k][i].time <= hits[k].reset
    /\ admitted[k][Opener(k)].prompt => admitted[k][Opener(k)].time = Opened(k)
    /\ \A i \in 1 .. Opener(k) - 1 : admitted[k][i].prompt => admitted[k][i].time < Opened(k)
    /\ Cardinality(Late(k, Opener(k) - 1, Opened(k))) < Limit[k[1]]

Windows == \A k \in Senders : IF k \in DOMAIN hits THEN WindowOK(k) ELSE admitted[k] = <<>>

LEMMA SenderFacts ==
  ASSUME Base, NEW k \in Senders
  PROVE  /\ Len(admitted[k]) \in Nat /\ Limit[k[1]] \in Int
         /\ clock \in Nat /\ Window \in Nat /\ Window > 0
         /\ \A i \in 1 .. Len(admitted[k]) :
               admitted[k][i].time \in Nat /\ admitted[k][i].prompt \in BOOLEAN
         /\ \A i \in 1 .. Len(admitted[k]) : admitted[k][i].time <= clock
         /\ k \in DOMAIN hits => /\ hits[k].count \in Nat /\ hits[k].reset \in Nat
                                 /\ hits[k].count \in 1 .. Limit[k[1]]
                                 /\ Opener(k) \in Int /\ Opened(k) \in Int
                                 /\ hits[k].count = Len(admitted[k]) - Opener(k) + 1
                                 /\ hits[k].reset = Opened(k) + Window
<1>1. clock \in Nat
  BY DEF Base, TypeOK
<1>2. Len(admitted[k]) \in Nat /\ Limit[k[1]] \in Int
  <2>1. admitted[k] \in Seq(Admission)
    BY DEF Base
  <2>2. QED
    BY <2>1 DEF Senders
<1>3. \A i \in 1 .. Len(admitted[k]) : admitted[k][i] \in [time : 0 .. clock, prompt : BOOLEAN]
  BY AdmittedTyped, SeqElement, Zenon
<1>4. ASSUME k \in DOMAIN hits
      PROVE  /\ hits[k].count \in Nat /\ hits[k].reset \in Nat
             /\ hits[k].count \in 1 .. Limit[k[1]]
  BY <1>4 DEF Base, TypeOK
<1>5. ASSUME k \in DOMAIN hits
      PROVE  /\ Opener(k) \in Int /\ Opened(k) \in Int
             /\ hits[k].count = Len(admitted[k]) - Opener(k) + 1
             /\ hits[k].reset = Opened(k) + Window
  <2> DEFINE n == Len(admitted[k])
             c == hits[k].count
             end == hits[k].reset
  <2>1. n \in Nat /\ c \in Nat /\ end \in Nat /\ Window \in Nat
    BY <1>2, <1>4, <1>5
  <2>2. Opener(k) = n - c + 1 /\ Opened(k) = end - Window
    BY DEF Opener, Opened
  <2> HIDE DEF n, c, end
  <2>3. Opener(k) \in Int /\ Opened(k) \in Int /\ c = n - Opener(k) + 1 /\ end = Opened(k) + Window
    BY <2>1, <2>2
  <2>4. QED
    BY <2>3 DEF n, c, end
<1>6. /\ \A i \in 1 .. Len(admitted[k]) :
             admitted[k][i].time \in Nat /\ admitted[k][i].prompt \in BOOLEAN
      /\ \A i \in 1 .. Len(admitted[k]) : admitted[k][i].time <= clock
  BY <1>1, <1>3
<1>7. QED
  BY <1>1, <1>2, <1>4, <1>5, <1>6

LEMMA LateFinite ==
  ASSUME NEW k, NEW last \in Int, NEW time
  PROVE  IsFiniteSet(Late(k, last, time)) /\ Cardinality(Late(k, last, time)) \in Nat
<1>1. Late(k, last, time) \subseteq 1 .. last
  BY DEF Late
<1>2. IsFiniteSet(1 .. last)
  BY FS_Interval
<1>3. QED
  BY <1>1, <1>2, FS_Subset, FS_CardinalityType

LEMMA FewerThan ==
  ASSUME NEW T, NEW m \in Int, NEW n \in Int, m <= n + 1, T \subseteq m .. n
  PROVE  IsFiniteSet(T) /\ Cardinality(T) \in Nat /\ Cardinality(T) <= n - m + 1
<1>1. IsFiniteSet(m .. n) /\ Cardinality(m .. n) = n - m + 1
  BY FS_Interval
<1>2. IsFiniteSet(T) /\ Cardinality(T) <= Cardinality(m .. n)
  BY <1>1, FS_Subset
<1>3. QED
  BY <1>1, <1>2, FS_CardinalityType

\* A window's length before now, those that did not wait came in this window or the one
\* before it, and one of the two openers did not.
LEMMA WindowsBound ==
  ASSUME Base, Windows
  PROVE  RateBounded
<1> SUFFICES ASSUME NEW k \in Senders, Limit[k[1]] > 0
             PROVE  Cardinality({i \in Within(k, clock - Window, clock) : admitted[k][i].prompt})
                       < 2 * Limit[k[1]]
  BY DEF RateBounded
<1> DEFINE T == {i \in Within(k, clock - Window, clock) : admitted[k][i].prompt}
           lim == Limit[k[1]]
<1>1. \A i \in T : /\ i \in 1 .. Len(admitted[k]) /\ admitted[k][i].prompt
                   /\ admitted[k][i].time >= clock - Window
  BY SenderFacts DEF Within, Base
<1>2. CASE k \notin DOMAIN hits
  <2>1. admitted[k] = <<>>
    BY <1>2 DEF Windows
  <2>2. T = {}
    BY <1>1, <2>1
  <2>3. Cardinality(T) = 0 /\ lim \in Int
    BY <2>2, FS_EmptySet, SenderFacts
  <2>4. QED
    BY <2>3
<1>3. CASE k \in DOMAIN hits
  <2> DEFINE A == Late(k, Opener(k) - 1, Opened(k))
             B == Opener(k) .. Len(admitted[k])
             c == hits[k].count
  <2>1. /\ WindowOK(k) /\ Len(admitted[k]) \in Nat /\ lim \in Int /\ clock \in Nat /\ Window \in Nat
        /\ c \in Nat /\ c <= lim /\ Opener(k) \in Int /\ Opened(k) \in Int
        /\ c = Len(admitted[k]) - Opener(k) + 1
        /\ \A i \in 1 .. Len(admitted[k]) : admitted[k][i].time \in Nat
    BY <1>3, SenderFacts DEF Windows
  <2>2. T \subseteq A \cup B
    <3> SUFFICES ASSUME NEW i \in T, i \notin B PROVE i \in A
      OBVIOUS
    <3>1. i \in 1 .. Opener(k) - 1
      BY <1>1, <2>1
    <3> DEFINE when == admitted[k][i].time
    <3>2. Opened(k) <= clock /\ Opened(k) \in Int
      BY <2>1 DEF WindowOK
    <3>3. when >= clock - Window /\ when \in Nat
      BY <1>1, <2>1
    <3> HIDE DEF when
    <3>4. when >= Opened(k) - Window
      BY <2>1, <3>2, <3>3
    <3>5. QED
      BY <1>1, <3>1, <3>4 DEF Late, when
  <2>3. IsFiniteSet(A) /\ Cardinality(A) \in Nat /\ Cardinality(A) < lim
    BY <2>1, LateFinite DEF WindowOK
  <2>4. IsFiniteSet(B) /\ Cardinality(B) \in Nat /\ Cardinality(B) <= c
    <3> DEFINE m == Opener(k)
               n == Len(admitted[k])
    <3>1. m \in Int /\ n \in Int /\ m <= n + 1 /\ c = n - m + 1 /\ B \subseteq m .. n
      BY <2>1
    <3> HIDE DEF B, c, m, n
    <3>2. IsFiniteSet(B) /\ Cardinality(B) \in Nat /\ Cardinality(B) <= n - m + 1
      BY <3>1, FewerThan
    <3>3. QED
      BY <3>1, <3>2
  <2> HIDE DEF A, B, T, c, lim
  <2>5. IsFiniteSet(A \cup B) /\ Cardinality(A \cup B) <= Cardinality(A) + Cardinality(B)
    <3>1. Cardinality(A \cup B) = Cardinality(A) + Cardinality(B) - Cardinality(A \cap B)
      BY <2>3, <2>4, FS_Union
    <3>2. Cardinality(A \cap B) \in Nat
      BY <2>3, FS_Intersection, FS_CardinalityType
    <3>3. IsFiniteSet(A \cup B)
      BY <2>3, <2>4, FS_Union
    <3>4. QED
      BY <2>3, <2>4, <3>1, <3>2, <3>3
  <2>6. Cardinality(T) <= Cardinality(A \cup B) /\ Cardinality(T) \in Nat
        /\ Cardinality(A \cup B) \in Nat
    BY <2>2, <2>5, FS_Subset, FS_CardinalityType
  <2>7. Cardinality(T) < 2 * lim
    BY <2>1, <2>3, <2>4, <2>5, <2>6
  <2>8. QED
    BY <2>7 DEF T, lim
<1>4. QED
  BY <1>2, <1>3

\* Who is refused used the limit up: the admissions since the window was opened are as
\* many as the limit, and the request had read the clock before the window ended.
LEMMA RefusedFull ==
  ASSUME Base, Windows, NEW s \in Slots, Refuse(s)
  PROVE  LET k == Sender(at[s].req)
         IN Cardinality(Within(k, at[s].now - Window, clock)) >= Limit[k[1]]
<1> DEFINE r == at[s].req
<1> PICK k \in Senders : k = Sender(r)
  <2>1. r \in Requests
    BY SlotsOK DEF SlotOK, Refuse
  <2>2. QED
    BY <2>1, RequestFacts
<1>1. r \in Requests /\ at[s].now \in Nat
  BY SlotsOK DEF SlotOK, Refuse
<1>2. /\ k = KeyOf(r) /\ k[1] = r.route
      /\ k \in DOMAIN hits /\ ~(at[s].now > hits[k].reset) /\ hits[k].count >= Limit[k[1]]
  BY <1>1, RequestFacts DEF Refuse, NewWindow, Full
<1> DEFINE m == Opener(k)
           n == Len(admitted[k])
           T == Within(k, at[s].now - Window, clock)
<1>3. /\ m \in Int /\ n \in Nat /\ 1 <= m /\ hits[k].count = n - m + 1 /\ hits[k].count \in Nat
      /\ Limit[k[1]] \in Int /\ hits[k].reset \in Nat /\ Window \in Nat /\ clock \in Nat
  BY <1>2, SenderFacts DEF Windows, WindowOK
<1>4. \A i \in m .. n : i \in 1 .. n /\ admitted[k][i].time \in at[s].now - Window .. clock
  <2>1. \A i \in m .. n : /\ i \in 1 .. n /\ admitted[k][i].time >= Opened(k)
                          /\ admitted[k][i].time \in Nat /\ admitted[k][i].time <= clock
    BY <1>2, <1>3, SenderFacts DEF Windows, WindowOK
  <2>2. Opened(k) \in Int /\ Opened(k) >= at[s].now - Window
    BY <1>1, <1>2, <1>3 DEF Opened
  <2> HIDE DEF m, n
  <2>3. QED
    BY <1>1, <1>3, <2>1, <2>2
<1>5. m .. n \subseteq T /\ T \subseteq 1 .. n
  <2>1. DOMAIN admitted[k] = 1 .. n
    <3>1. admitted[k] \in Seq(Admission)
      BY DEF Base
    <3>2. QED
      BY <3>1
  <2>2. \A i \in 1 .. n : admitted[k][i].time \in at[s].now - Window .. clock => i \in T
    BY <2>1 DEF Within
  <2>3. T \subseteq 1 .. n
    BY <2>1 DEF Within
  <2>4. QED
    BY <1>4, <2>2, <2>3
<1> HIDE DEF m, n, T
<1>6. IsFiniteSet(T)
  <2>1. IsFiniteSet(1 .. n)
    BY <1>3, FS_Interval
  <2>2. QED
    BY <1>5, <2>1, FS_Subset
<1>7. IsFiniteSet(m .. n) /\ Cardinality(m .. n) = n - m + 1
  <2>1. m \in Int /\ n \in Int /\ m <= n + 1
    BY <1>3
  <2>2. QED
    BY <2>1, FS_Interval
<1>8. Cardinality(m .. n) <= Cardinality(T) /\ Cardinality(T) \in Nat
  BY <1>5, <1>6, FS_Subset, FS_CardinalityType
<1>9. Cardinality(T) >= Limit[k[1]]
  BY <1>2, <1>3, <1>7, <1>8
<1>10. QED
  BY <1>9 DEF T

-----------------------------------------------------------------------------
(* Admission, the one step that changes a window, and time. *)

LEMMA Admits ==
  ASSUME Base, NEW s \in Slots, Allow(s)
  PROVE  \E k \in Senders, now \in 0 .. clock :
            /\ Limit[k[1]] > 0 /\ at[s].pc = "lock"
            /\ \/ /\ NewWindow(k, now)
                  /\ hits' = [j \in DOMAIN hits \cup {k} |->
                                IF j = k THEN [count |-> 1, reset |-> now + Window] ELSE hits[j]]
               \/ /\ k \in DOMAIN hits /\ now <= hits[k].reset /\ hits[k].count < Limit[k[1]]
                  /\ hits' = [hits EXCEPT ![k].count = @ + 1]
            /\ admitted' = [admitted EXCEPT ![k] =
                               Append(@, [time |-> clock, prompt |-> now = clock])]
            /\ Goto(s, "handle")
            /\ UNCHANGED <<clock, arrivals, incidents, answers, faults>>
<1> DEFINE r == at[s].req
           now == at[s].now
<1>1. at[s].pc = "lock" /\ r \in Requests /\ now \in 0 .. clock /\ Limit[r.route] > 0
  BY SlotsOK DEF Allow, SlotOK
<1> PICK k \in Senders : k = Sender(r) /\ k = KeyOf(r) /\ k[1] = r.route
  BY <1>1, RequestFacts
<1>2. /\ \/ /\ NewWindow(k, now)
            /\ hits' = [j \in DOMAIN hits \cup {k} |->
                          IF j = k THEN [count |-> 1, reset |-> now + Window] ELSE hits[j]]
         \/ /\ ~NewWindow(k, now) /\ ~Full(k, Limit[k[1]])
            /\ hits' = [hits EXCEPT ![k].count = @ + 1]
      /\ admitted' = [admitted EXCEPT ![k] =
                         Append(@, [time |-> clock, prompt |-> now = clock])]
      /\ Goto(s, "handle")
      /\ UNCHANGED <<clock, arrivals, incidents, answers, faults>>
  BY DEF Allow
<1>3. ~NewWindow(k, now) => k \in DOMAIN hits /\ now <= hits[k].reset
  <2>1. k \in DOMAIN hits => hits[k].reset \in Int
    BY SenderFacts
  <2>2. QED
    BY <1>1, <2>1 DEF NewWindow, Base, TypeOK
<1>4. k \in DOMAIN hits /\ ~Full(k, Limit[k[1]]) => hits[k].count < Limit[k[1]]
  BY SenderFacts DEF Full
<1> HIDE DEF r, now
<1>5. QED
  BY <1>1, <1>2, <1>3, <1>4

\* What becomes of the window of k.
Reopened(k, now) ==
    /\ k \in DOMAIN hits => now > hits[k].reset
    /\ hits'[k] = [count |-> 1, reset |-> now + Window]
Recounted(k, now) ==
    /\ k \in DOMAIN hits /\ now <= hits[k].reset /\ hits[k].count < Limit[k[1]]
    /\ hits'[k] = [count |-> hits[k].count + 1, reset |-> hits[k].reset]

LEMMA HitsAdmit ==
  ASSUME Base, NEW k \in Senders, NEW now \in 0 .. clock, Limit[k[1]] > 0,
         \/ /\ NewWindow(k, now)
            /\ hits' = [j \in DOMAIN hits \cup {k} |->
                          IF j = k THEN [count |-> 1, reset |-> now + Window] ELSE hits[j]]
         \/ /\ k \in DOMAIN hits /\ now <= hits[k].reset /\ hits[k].count < Limit[k[1]]
            /\ hits' = [hits EXCEPT ![k].count = @ + 1]
  PROVE  /\ DOMAIN hits' = DOMAIN hits \cup {k} /\ DOMAIN hits' \subseteq Senders
         /\ \A j \in DOMAIN hits : j # k => hits'[j] = hits[j]
         /\ Reopened(k, now) \/ Recounted(k, now)
         /\ hits' \in [DOMAIN hits' -> [count : Nat, reset : Nat]]
         /\ \A j \in DOMAIN hits' : hits'[j].count \in 1 .. Limit[j[1]]
         /\ \A j \in DOMAIN hits' : hits'[j].reset \in Window .. clock + Window
<1>1. /\ hits \in [DOMAIN hits -> [count : Nat, reset : Nat]] /\ DOMAIN hits \subseteq Senders
      /\ clock \in Nat /\ Window \in Nat /\ Limit[k[1]] \in Int
      /\ \A j \in DOMAIN hits : hits[j].count \in 1 .. Limit[j[1]]
      /\ \A j \in DOMAIN hits : hits[j].reset \in Window .. clock + Window
  BY SenderFacts DEF Base, TypeOK
<1>2. CASE /\ NewWindow(k, now)
           /\ hits' = [j \in DOMAIN hits \cup {k} |->
                         IF j = k THEN [count |-> 1, reset |-> now + Window] ELSE hits[j]]
  <2> DEFINE h == [count |-> 1, reset |-> now + Window]
  <2>1. h \in [count : Nat, reset : Nat] /\ h.count = 1 /\ h.reset \in Window .. clock + Window
    BY <1>1
  <2>2. hits' = [j \in DOMAIN hits \cup {k} |-> IF j = k THEN h ELSE hits[j]]
    BY <1>2
  <2>3. Reopened(k, now)
    BY <1>2, <2>2 DEF Reopened, NewWindow
  <2> HIDE DEF h
  <2>4. QED
    BY <1>1, <2>1, <2>2, <2>3
<1>3. CASE /\ k \in DOMAIN hits /\ now <= hits[k].reset /\ hits[k].count < Limit[k[1]]
           /\ hits' = [hits EXCEPT ![k].count = @ + 1]
  <2> DEFINE h == [count |-> hits[k].count + 1, reset |-> hits[k].reset]
  <2>1. hits[k] \in [count : Nat, reset : Nat]
    BY <1>1, <1>3
  <2>2. h \in [count : Nat, reset : Nat] /\ h.count = hits[k].count + 1
        /\ h.reset = hits[k].reset /\ h.count \in 1 .. Limit[k[1]] /\ h = [hits[k] EXCEPT !.count = @ + 1]
    BY <1>1, <1>3, <2>1
  <2>3. hits' = [hits EXCEPT ![k] = h]
    BY <1>3, <2>2
  <2>4. Recounted(k, now)
    BY <1>1, <1>3, <2>3 DEF Recounted
  <2> HIDE DEF h
  <2>5. QED
    BY <1>1, <1>3, <2>2, <2>3, <2>4
<1>4. QED
  BY <1>2, <1>3

LEMMA BaseAllow ==
  ASSUME Base, NEW s \in Slots, Allow(s)
  PROVE  Base'
<1> PICK k \in Senders, now \in 0 .. clock :
            /\ Limit[k[1]] > 0 /\ at[s].pc = "lock"
            /\ \/ /\ NewWindow(k, now)
                  /\ hits' = [j \in DOMAIN hits \cup {k} |->
                                IF j = k THEN [count |-> 1, reset |-> now + Window] ELSE hits[j]]
               \/ /\ k \in DOMAIN hits /\ now <= hits[k].reset /\ hits[k].count < Limit[k[1]]
                  /\ hits' = [hits EXCEPT ![k].count = @ + 1]
            /\ admitted' = [admitted EXCEPT ![k] =
                               Append(@, [time |-> clock, prompt |-> now = clock])]
            /\ Goto(s, "handle")
            /\ UNCHANGED <<clock, arrivals, incidents, answers, faults>>
  BY Admits
<1> DEFINE e == [time |-> clock, prompt |-> now = clock]
<1>1. /\ clock \in 0 .. MaxClock /\ arrivals \in 0 .. MaxArrivals /\ clock \in Nat
      /\ incidents \in [Requests -> Nat] /\ accepted \in [Requests -> Nat]
      /\ rejected \subseteq Requests /\ faults \in 0 .. MaxFaults
      /\ admitted \in [Senders -> Seq(Admission)]
  BY DEF Base, TypeOK
<1>2. /\ DOMAIN hits' \subseteq Senders /\ hits' \in [DOMAIN hits' -> [count : Nat, reset : Nat]]
      /\ \A j \in DOMAIN hits' : hits'[j].count \in 1 .. Limit[j[1]]
      /\ \A j \in DOMAIN hits' : hits'[j].reset \in Window .. clock + Window
  BY HitsAdmit
<1>3. at' \in [Slots -> Serving] /\ \A t \in Slots : SlotOK(at'[t], clock)
  <2>1. \E l : SlotOK(l, clock) /\ at' = [at EXCEPT ![s] = l]
    BY GotoSlot
  <2>2. QED
    BY <2>1, SlotSet
<1> DEFINE S == [time : 0 .. clock, prompt : BOOLEAN]
<1>4. /\ \A j \in Senders : admitted[j] \in Seq(S)
      /\ e \in S /\ e \in Admission
  <2>1. e \in S /\ e \in Admission
    BY <1>1 DEF Admission
  <2>2. QED
    BY <2>1, AdmittedTyped
<1>5. /\ admitted' = [admitted EXCEPT ![k] = Append(@, e)]
      /\ UNCHANGED <<clock, arrivals, incidents, accepted, rejected, faults>>
  BY DEF answers
<1> HIDE DEF S, e
<1>6. admitted' \in [Senders -> Seq(Admission)] /\ \A j \in Senders : admitted'[j] \in Seq(S)
  <2>1. /\ Append(admitted[k], e) \in Seq(Admission)
        /\ Append(admitted[k], e) \in Seq(S)
    BY <1>1, <1>4
  <2>2. QED
    BY <1>1, <1>4, <1>5, <2>1
<1>7. \A j \in Senders : admitted'[j] \in Seq([time : 0 .. clock, prompt : BOOLEAN])
  BY <1>6 DEF S
<1>8. QED
  BY <1>1, <1>2, <1>3, <1>5, <1>6, <1>7, BaseFrom

\* A window is what it was while nobody of its caller is admitted.
LEMMA WindowKept ==
  ASSUME Base, Windows, NEW k \in Senders, clock' >= clock, clock' \in Nat,
         k \in DOMAIN hits' <=> k \in DOMAIN hits,
         k \in DOMAIN hits => hits'[k] = hits[k],
         admitted'[k] = admitted[k]
  PROVE  IF k \in DOMAIN hits' THEN WindowOK(k)' ELSE admitted'[k] = <<>>
<1>1. CASE k \notin DOMAIN hits
  BY <1>1 DEF Windows
<1>2. CASE k \in DOMAIN hits
  <2>1. WindowOK(k) /\ clock \in Nat
    BY <1>2, SenderFacts DEF Windows
  <2>2. Opened(k)' = Opened(k) /\ Opener(k)' = Opener(k)
    BY <1>2 DEF Opened, Opener
  <2>3. Late(k, Opener(k) - 1, Opened(k))' = Late(k, Opener(k) - 1, Opened(k))
    BY <2>2 DEF Late
  <2>4. Opened(k)' \in 0 .. clock'
    BY <2>1, <2>2 DEF WindowOK
  <2>5. WindowOK(k)'
    BY <1>2, <2>1, <2>2, <2>3, <2>4 DEF WindowOK
  <2>6. QED
    BY <1>2, <2>5
<1>3. QED
  BY <1>1, <1>2

\* The admissions of k after one more.
LEMMA OneAdmitted ==
  ASSUME Base, NEW k \in Senders, NEW now \in 0 .. clock,
         admitted' = [admitted EXCEPT ![k] = Append(@, [time |-> clock, prompt |-> now = clock])]
  PROVE  LET n == Len(admitted[k])
         IN /\ Len(admitted'[k]) = n + 1
            /\ \A i \in 1 .. n : admitted'[k][i] = admitted[k][i]
            /\ admitted'[k][n + 1].time = clock
            /\ admitted'[k][n + 1].prompt <=> now = clock
            /\ \A j \in Senders : j # k => admitted'[j] = admitted[j]
<1> DEFINE e == [time |-> clock, prompt |-> now = clock]
           n == Len(admitted[k])
<1>1. admitted \in [Senders -> Seq(Admission)] /\ clock \in Nat
  BY SenderFacts DEF Base
<1>2. e \in Admission /\ e.time = clock /\ (e.prompt <=> now = clock)
  BY <1>1 DEF Admission
<1>3. admitted' = [admitted EXCEPT ![k] = Append(@, e)]
  OBVIOUS
<1> HIDE DEF e
<1>4. admitted[k] \in Seq(Admission) /\ admitted'[k] = Append(admitted[k], e)
      /\ \A j \in Senders : j # k => admitted'[j] = admitted[j]
  BY <1>1, <1>3
<1>5. /\ Len(Append(admitted[k], e)) = n + 1 /\ Append(admitted[k], e)[n + 1] = e
      /\ \A i \in 1 .. n : Append(admitted[k], e)[i] = admitted[k][i]
  BY <1>2, <1>4
<1>6. QED
  BY <1>2, <1>4, <1>5

LEMMA WindowRecounted ==
  ASSUME Base, Windows, NEW k \in Senders, NEW now \in 0 .. clock, Recounted(k, now),
         admitted' = [admitted EXCEPT ![k] = Append(@, [time |-> clock, prompt |-> now = clock])],
         clock' = clock
  PROVE  WindowOK(k)'
<1> DEFINE n == Len(admitted[k])
           m == Opener(k)
<1>1. /\ k \in DOMAIN hits /\ now <= hits[k].reset
      /\ hits'[k].count = hits[k].count + 1 /\ hits'[k].reset = hits[k].reset
  BY DEF Recounted
<1>2. /\ WindowOK(k) /\ n \in Nat /\ m \in Int /\ hits[k].count = n - m + 1 /\ hits[k].count >= 1
      /\ clock \in Nat /\ hits[k].reset \in Nat
  BY <1>1, SenderFacts DEF Windows
<1>3. /\ Len(admitted'[k]) = n + 1
      /\ \A i \in 1 .. n : admitted'[k][i] = admitted[k][i]
      /\ admitted'[k][n + 1].time = clock
      /\ admitted'[k][n + 1].prompt <=> now = clock
  BY OneAdmitted
<1>4. Opened(k)' = Opened(k)
  BY <1>1 DEF Opened
<1>5. Opener(k)' = m
  <2>1. Opener(k)' = Len(admitted'[k]) - hits'[k].count + 1
    BY DEF Opener
  <2> DEFINE c == hits[k].count
             h == hits'[k].count
             l == Len(admitted'[k])
  <2>2. l = n + 1 /\ h = c + 1 /\ c = n - m + 1
    BY <1>1, <1>2, <1>3
  <2>3. n \in Int /\ m \in Int
    BY <1>2
  <2> HIDE DEF m, n, c, h, l
  <2>4. l - h + 1 = m
    BY <2>2, <2>3
  <2>5. QED
    BY <2>1, <2>4 DEF l, h
<1>6. /\ m >= 1 /\ m <= n /\ Opened(k) \in 0 .. clock
      /\ \A i \in m .. n : /\ admitted[k][i].time >= Opened(k)
                           /\ admitted[k][i].prompt => admitted[k][i].time <= hits[k].reset
      /\ admitted[k][m].prompt => admitted[k][m].time = Opened(k)
      /\ \A i \in 1 .. m - 1 : admitted[k][i].prompt => admitted[k][i].time < Opened(k)
      /\ Cardinality(Late(k, m - 1, Opened(k))) < Limit[k[1]]
  <2>1. m <= n
    <3> DEFINE c == hits[k].count
    <3>1. n \in Nat /\ m \in Int /\ c = n - m + 1 /\ c >= 1
      BY <1>2
    <3> HIDE DEF m, n, c
    <3>2. QED
      BY <3>1
  <2>2. WindowOK(k)
    BY <1>2
  <2>3. QED
    BY <2>1, <2>2, Zenon DEF WindowOK
<1>7. Late(k, Opener(k) - 1, Opened(k))' = Late(k, m - 1, Opened(k))
  <2>1. Late(k, Opener(k) - 1, Opened(k))'
          = {i \in 1 .. m - 1 : admitted'[k][i].prompt /\ admitted'[k][i].time >= Opened(k) - Window}
    BY <1>4, <1>5 DEF Late
  <2>2. \A i \in 1 .. m - 1 : admitted'[k][i] = admitted[k][i]
    BY <1>2, <1>3, <1>6
  <2> HIDE DEF m, n
  <2>3. QED
    BY <2>1, <2>2 DEF Late
<1> HIDE DEF m, n
<1>8. \A i \in m .. n + 1 : /\ admitted'[k][i].time >= Opened(k)
                            /\ admitted'[k][i].prompt => admitted'[k][i].time <= hits[k].reset
  <2> SUFFICES ASSUME NEW i \in m .. n + 1
               PROVE  /\ admitted'[k][i].time >= Opened(k)
                      /\ admitted'[k][i].prompt => admitted'[k][i].time <= hits[k].reset
    OBVIOUS
  <2>1. CASE i \in m .. n
    <3>1. admitted'[k][i] = admitted[k][i]
      BY <1>2, <1>3, <1>6, <2>1
    <3>2. QED
      BY <1>6, <2>1, <3>1
  <2>2. CASE i = n + 1
    BY <1>1, <1>3, <1>6, <2>2
  <2>3. i \in m .. n \/ i = n + 1
    BY <1>2
  <2>4. QED
    BY <2>1, <2>2, <2>3
<1>9. admitted'[k][m] = admitted[k][m] /\ \A i \in 1 .. m - 1 : admitted'[k][i] = admitted[k][i]
  BY <1>2, <1>3, <1>6
<1>10. QED
  BY <1>1, <1>3, <1>4, <1>5, <1>6, <1>7, <1>8, <1>9 DEF WindowOK

LEMMA WindowReopened ==
  ASSUME Base, Windows, NEW k \in Senders, NEW now \in 0 .. clock, Limit[k[1]] > 0, Reopened(k, now),
         admitted' = [admitted EXCEPT ![k] = Append(@, [time |-> clock, prompt |-> now = clock])],
         clock' = clock
  PROVE  WindowOK(k)'
<1> DEFINE n == Len(admitted[k])
<1>1. hits'[k].count = 1 /\ hits'[k].reset = now + Window
  BY DEF Reopened
<1>2. /\ n \in Nat /\ clock \in Nat /\ Window \in Nat /\ Window > 0 /\ Limit[k[1]] \in Int
      /\ \A i \in 1 .. n : admitted[k][i].time \in Nat
  BY SenderFacts
<1>3. /\ Len(admitted'[k]) = n + 1
      /\ \A i \in 1 .. n : admitted'[k][i] = admitted[k][i]
      /\ admitted'[k][n + 1].time = clock
      /\ admitted'[k][n + 1].prompt <=> now = clock
  BY OneAdmitted
<1>4. Opened(k)' = now /\ Opener(k)' = n + 1
  BY <1>1, <1>2, <1>3 DEF Opened, Opener
<1>5. /\ \A i \in 1 .. n : admitted[k][i].prompt => admitted[k][i].time < now
      /\ Cardinality(Late(k, n, now)) < Limit[k[1]]
  <2>1. CASE k \notin DOMAIN hits
    <3>1. n = 0
      BY <2>1 DEF Windows
    <3>2. Late(k, n, now) = {}
      BY <3>1 DEF Late
    <3>3. Cardinality(Late(k, n, now)) = 0
      BY <3>2, FS_EmptySet
    <3> HIDE DEF n
    <3>4. QED
      BY <1>2, <3>1, <3>3
  <2>2. CASE k \in DOMAIN hits
    <3> DEFINE m == Opener(k)
    <3>1. /\ WindowOK(k) /\ m \in Int /\ Opened(k) \in Int /\ hits[k].count = n - m + 1
          /\ hits[k].count >= 1 /\ hits[k].count <= Limit[k[1]]
          /\ hits[k].reset = Opened(k) + Window /\ now > hits[k].reset
      BY <2>2, SenderFacts DEF Windows, Reopened
    <3>2. /\ m >= 1
          /\ \A i \in m .. n : admitted[k][i].prompt => admitted[k][i].time <= hits[k].reset
          /\ admitted[k][m].prompt => admitted[k][m].time = Opened(k)
          /\ \A i \in 1 .. m - 1 : admitted[k][i].prompt => admitted[k][i].time < Opened(k)
      BY <3>1 DEF WindowOK
    <3>3. \A i \in Late(k, n, now) : /\ i \in 1 .. n /\ admitted[k][i].prompt
                                    /\ admitted[k][i].time >= now - Window
      BY DEF Late
    <3> HIDE DEF m, n
    <3>4. \A i \in 1 .. n : admitted[k][i].prompt => admitted[k][i].time < now
      <4> SUFFICES ASSUME NEW i \in 1 .. n, admitted[k][i].prompt
                   PROVE  admitted[k][i].time < now
        OBVIOUS
      <4>1. i \in 1 .. m - 1 \/ i \in m .. n
        BY <1>2, <3>1
      <4>2. admitted[k][i].time < Opened(k) \/ admitted[k][i].time <= hits[k].reset
        BY <3>2, <4>1
      <4>3. admitted[k][i].time \in Nat
        BY <1>2
      <4>4. QED
        BY <1>2, <3>1, <4>2, <4>3
    <3>5. Late(k, n, now) \subseteq m + 1 .. n
      <4> SUFFICES ASSUME NEW i \in Late(k, n, now) PROVE i \in m + 1 .. n
        OBVIOUS
      <4>1. admitted[k][i].time > Opened(k)
        BY <1>2, <3>1, <3>3
      <4>2. i # m
        BY <3>1, <3>2, <3>3, <4>1
      <4>3. i \notin 1 .. m - 1
        <5>1. i \in 1 .. m - 1 => admitted[k][i].time < Opened(k)
          BY <3>2, <3>3
        <5>2. admitted[k][i].time \in Nat
          BY <1>2, <3>3
        <5>3. QED
          BY <3>1, <4>1, <5>1, <5>2
      <4>4. QED
        BY <1>2, <3>1, <3>3, <4>2, <4>3
    <3>6. /\ Cardinality(Late(k, n, now)) \in Nat
          /\ Cardinality(Late(k, n, now)) <= n - (m + 1) + 1
      <4>1. m + 1 \in Int /\ n \in Int /\ m + 1 <= n + 1
        BY <1>2, <3>1
      <4>2. QED
        BY <3>5, <4>1, FewerThan
    <3>7. QED
      BY <1>2, <3>1, <3>4, <3>6
  <2>3. QED
    BY <2>1, <2>2
<1>6. Late(k, Opener(k) - 1, Opened(k))' = Late(k, n, now)
  <2>1. Opener(k)' - 1 = n
    BY <1>2, <1>4
  <2>2. Late(k, Opener(k) - 1, Opened(k))'
          = {i \in 1 .. n : admitted'[k][i].prompt /\ admitted'[k][i].time >= now - Window}
    BY <1>4, <2>1 DEF Late
  <2> HIDE DEF n
  <2>3. QED
    BY <1>3, <2>2 DEF Late
<1> HIDE DEF n
<1>7. Opener(k)' >= 1 /\ Opened(k)' \in 0 .. clock'
  BY <1>2, <1>4
<1>8. \A i \in n + 1 .. n + 1 : /\ admitted'[k][i].time >= now
                                /\ admitted'[k][i].prompt => admitted'[k][i].time <= now + Window
  BY <1>2, <1>3
<1>9. \A i \in 1 .. n : admitted'[k][i].prompt => admitted'[k][i].time < now
  BY <1>2, <1>3, <1>5
<1>10. /\ hits'[k].reset = now + Window /\ Opened(k)' = now /\ Opener(k)' = n + 1
       /\ Len(admitted'[k]) = n + 1
       /\ admitted'[k][n + 1].prompt => admitted'[k][n + 1].time = now
  BY <1>1, <1>3, <1>4
<1>11. Cardinality(Late(k, Opener(k) - 1, Opened(k))') < Limit[k[1]]
  BY <1>5, <1>6
<1>12. \A i \in Opener(k)' .. Len(admitted'[k]) :
          /\ admitted'[k][i].time >= Opened(k)'
          /\ admitted'[k][i].prompt => admitted'[k][i].time <= hits'[k].reset
  BY <1>8, <1>10
<1>13. admitted'[k][Opener(k)'].prompt => admitted'[k][Opener(k)'].time = Opened(k)'
  BY <1>10
<1>14. \A i \in 1 .. Opener(k)' - 1 : admitted'[k][i].prompt => admitted'[k][i].time < Opened(k)'
  <2>1. Opener(k)' - 1 = n
    BY <1>2, <1>10
  <2>2. QED
    BY <1>9, <1>10, <2>1
<1>15. QED
  BY <1>7, <1>11, <1>12, <1>13, <1>14 DEF WindowOK

LEMMA WindowsNext ==
  ASSUME Base, Windows, [Next]_vars
  PROVE  Windows'
<1> SUFFICES ASSUME NEW j \in Senders
             PROVE  IF j \in DOMAIN hits' THEN WindowOK(j)' ELSE admitted'[j] = <<>>
  BY DEF Windows
<1>1. clock \in Nat
  BY SenderFacts
<1>2. CASE UNCHANGED <<hits, admitted>> /\ (clock' = clock \/ clock' = clock + 1)
  BY <1>1, <1>2, WindowKept
<1>3. ASSUME NEW s \in Slots, Allow(s)
      PROVE  IF j \in DOMAIN hits' THEN WindowOK(j)' ELSE admitted'[j] = <<>>
  <2> PICK k \in Senders, now \in 0 .. clock :
            /\ Limit[k[1]] > 0 /\ at[s].pc = "lock"
            /\ \/ /\ NewWindow(k, now)
                  /\ hits' = [i \in DOMAIN hits \cup {k} |->
                                IF i = k THEN [count |-> 1, reset |-> now + Window] ELSE hits[i]]
               \/ /\ k \in DOMAIN hits /\ now <= hits[k].reset /\ hits[k].count < Limit[k[1]]
                  /\ hits' = [hits EXCEPT ![k].count = @ + 1]
            /\ admitted' = [admitted EXCEPT ![k] =
                               Append(@, [time |-> clock, prompt |-> now = clock])]
            /\ Goto(s, "handle")
            /\ UNCHANGED <<clock, arrivals, incidents, answers, faults>>
    BY <1>3, Admits
  <2>1. /\ DOMAIN hits' = DOMAIN hits \cup {k}
        /\ \A i \in DOMAIN hits : i # k => hits'[i] = hits[i]
        /\ Reopened(k, now) \/ Recounted(k, now)
    BY HitsAdmit
  <2>2. \A i \in Senders : i # k => admitted'[i] = admitted[i]
    BY OneAdmitted
  <2>3. CASE j = k
    BY <2>1, <2>3, WindowRecounted, WindowReopened
  <2>4. CASE j # k
    BY <1>1, <2>1, <2>2, <2>4, WindowKept
  <2>5. QED
    BY <2>3, <2>4
<1>4. ASSUME NEW s \in Slots, Step(s), ~Allow(s)
      PROVE  UNCHANGED <<hits, admitted>> /\ clock' = clock
  BY <1>4 DEF Step, Arrive, Refuse, Decline, CreateIncident
<1>5. CASE UNCHANGED vars
  BY <1>2, <1>5 DEF vars
<1>6. CASE Tick
  BY <1>2, <1>6 DEF Tick
<1>7. QED
  BY <1>2, <1>3, <1>4, <1>5, <1>6 DEF Next

LEMMA BaseNext == Base /\ [Next]_vars => Base'
<1> SUFFICES ASSUME Base, [Next]_vars PROVE Base'
  OBVIOUS
<1>1. CASE UNCHANGED vars
  BY <1>1 DEF vars, answers, Base, TypeOK
<1>2. ASSUME NEW s \in Slots, Step(s) PROVE Base'
  BY <1>2, BaseArrive, BaseAllow, BaseRefuse, BaseCreate DEF Step
<1>3. QED
  BY <1>1, <1>2, BaseTick DEF Next

LEMMA BaseInit == Init => Base
<1> SUFFICES ASSUME Init PROVE Base
  OBVIOUS
<1>1. /\ clock = 0 /\ arrivals = 0 /\ faults = 0 /\ rejected = {}
      /\ hits = [k \in {} |-> 0] /\ at = [s \in Slots |-> [pc |-> "idle"]]
      /\ incidents = [r \in Requests |-> 0] /\ accepted = [r \in Requests |-> 0]
      /\ admitted = [k \in Senders |-> <<>>]
  BY DEF Init
<1>2. DOMAIN hits = {} /\ hits \in [DOMAIN hits -> [count : Nat, reset : Nat]]
  BY <1>1
<1>3. at \in [Slots -> Serving] /\ \A s \in Slots : at[s].pc = "idle"
  BY <1>1 DEF Serving
<1>4. /\ admitted \in [Senders -> Seq(Admission)]
      /\ \A k \in Senders : admitted[k] \in Seq([time : 0 .. clock, prompt : BOOLEAN])
  BY <1>1
<1>5. TypeOK
  BY <1>1, <1>2, <1>3, <1>4 DEF TypeOK
<1>6. QED
  BY <1>2, <1>3, <1>4, <1>5 DEF Base

\* What the limiter and the handlers keep stays well formed; in particular no window ever
\* counts more than the limit of its route, or ends later than one from now, however late
\* a request gets the lock.
THEOREM FrontDoorTypeCorrect == Spec => []TypeOK
<1>1. Base => TypeOK
  BY DEF Base
<1>2. QED
  BY <1>1, BaseInit, BaseNext, PTL DEF Spec

\* Each window holds what was admitted since it was opened.
LEMMA FrontDoorWindows == Spec => [](Base /\ Windows)
<1>1. Init => Windows
  BY DEF Init, Windows
<1>2. Base /\ Windows /\ [Next]_vars => Windows'
  BY WindowsNext
<1>3. QED
  BY <1>1, <1>2, BaseInit, BaseNext, PTL DEF Spec

\* Of those under one address that did not wait for the lock, less than twice the limit
\* pass in any window's length (MemoryRateLimiter.Allow), for any limit, window and
\* addresses.
THEOREM FrontDoorRate == Spec => []RateBounded
<1>1. Base /\ Windows => RateBounded
  BY WindowsBound
<1>2. QED
  BY <1>1, FrontDoorWindows, PTL

\* No request is refused for those under another address (rateLimitMiddleware): as many
\* as the limit, of its connection or naming its address, passed since a window before
\* it came.
THEOREM FrontDoorRefusals == Spec => RefusalJustified
<1> DEFINE Justified ==
      \A s \in Slots :
          Refuse(s) => LET k == Sender(at[s].req)
                       IN Cardinality(Within(k, at[s].now - Window, clock)) >= Limit[k[1]]
<1>1. Base /\ Windows => Justified
  BY RefusedFull
<1>2. Base /\ Windows => [Justified]_vars
  BY <1>1
<1>3. QED
  BY <1>2, FrontDoorWindows, PTL DEF RefusalJustified

-----------------------------------------------------------------------------
(* Answers. *)

LEMMA CountedMore ==
  ASSUME NEW count \in [Requests -> Nat], NEW r \in Requests,
         NEW more \in [Requests -> Nat], more[r] = count[r] + 1,
         \A q \in Requests : q # r => more[q] = count[q], IsFiniteSet(Counted(count))
  PROVE  IsFiniteSet(Counted(more)) /\ Total(more) = Total(count) + 1 /\ Total(count) \in Nat
<1> DEFINE x == <<r, count[r] + 1>>
<1>1. \A q \in Requests : more[q] = IF q = r THEN count[q] + 1 ELSE count[q]
  OBVIOUS
<1>2. \A q, n : <<q, n>> \in Counted(count) <=> q \in Requests /\ n \in 1 .. count[q]
  BY DEF Counted
<1>3. \A q, n : <<q, n>> \in Counted(more) <=> q \in Requests /\ n \in 1 .. more[q]
  BY DEF Counted
<1>4. /\ \A y \in Counted(count) : \E q, n : y = <<q, n>>
      /\ \A y \in Counted(more) : \E q, n : y = <<q, n>>
  BY DEF Counted
<1>5. 1 .. more[r] = (1 .. count[r]) \cup {count[r] + 1} /\ count[r] + 1 \notin 1 .. count[r]
  BY <1>1
<1>6. \A q, n : <<q, n>> \in Counted(more) <=> <<q, n>> \in Counted(count) \/ <<q, n>> = x
  BY <1>1, <1>2, <1>3, <1>5
<1>7. x \notin Counted(count)
  BY <1>2, <1>5
<1>8. Counted(more) = Counted(count) \cup {x}
  <2>1. ASSUME NEW y \in Counted(more) PROVE y \in Counted(count) \cup {x}
    <3>1. PICK q, n : y = <<q, n>>
      BY <1>4
    <3>2. y \in Counted(count) \/ y = x
      BY <1>6, <3>1, Zenon
    <3>3. QED
      BY <3>2
  <2>2. ASSUME NEW y \in Counted(count) \cup {x} PROVE y \in Counted(more)
    <3>1. PICK q, n : y = <<q, n>>
      BY <1>4
    <3>2. QED
      BY <1>6, <3>1, Zenon
  <2>3. QED
    BY <2>1, <2>2
<1> HIDE DEF x
<1>9. /\ IsFiniteSet(Counted(count) \cup {x})
      /\ Cardinality(Counted(count) \cup {x}) = Cardinality(Counted(count)) + 1
  BY <1>7, FS_AddElement
<1>10. QED
  BY <1>8, <1>9, FS_CardinalityType DEF Total

\* The inductive invariant; the counts are finite because each request so far added one.
Told == AnswersTrue /\ IsFiniteSet(Counted(incidents)) /\ IsFiniteSet(Counted(accepted))

LEMMA ToldNext ==
  ASSUME Base, Told, [Next]_vars
  PROVE  Told'
<1>1. /\ incidents \in [Requests -> Nat] /\ accepted \in [Requests -> Nat] /\ faults \in Nat
      /\ \A r \in Requests : accepted[r] <= incidents[r]
      /\ Total(incidents) <= Total(accepted) + faults
      /\ IsFiniteSet(Counted(incidents)) /\ IsFiniteSet(Counted(accepted))
  BY DEF Base, TypeOK, Told, AnswersTrue
<1>2. Total(incidents) \in Nat /\ Total(accepted) \in Nat
  BY <1>1, FS_CardinalityType DEF Total
<1>3. CASE UNCHANGED <<incidents, accepted, faults>>
  BY <1>3 DEF Told, AnswersTrue, Total, Counted
<1>4. ASSUME NEW s \in Slots, CreateIncident(s) PROVE Told'
  <2> PICK r \in Requests : r = at[s].req
    BY <1>4, Creates
  <2>1. \/ Persisted(r) /\ Reply(s, 202) /\ UNCHANGED faults
        \/ Persisted(r) /\ Reply(s, 500) /\ Fault
        \/ UNCHANGED incidents /\ Reply(s, 500) /\ Fault
    BY <1>4, Creates
  <2>2. /\ Reply(s, 202) => accepted' = [accepted EXCEPT ![r] = @ + 1]
        /\ Reply(s, 500) => accepted' = accepted
    BY DEF Reply
  <2>3. Persisted(r) => incidents' = [incidents EXCEPT ![r] = @ + 1]
    BY DEF Persisted
  <2>4. Fault => faults' = faults + 1
    BY DEF Fault
  <2>5. CASE incidents' = [incidents EXCEPT ![r] = @ + 1]
    <3>1. /\ IsFiniteSet(Counted(incidents')) /\ Total(incidents') = Total(incidents) + 1
          /\ incidents'[r] = incidents[r] + 1
          /\ \A q \in Requests : q # r => incidents'[q] = incidents[q]
      <4>1. /\ incidents' \in [Requests -> Nat] /\ incidents'[r] = incidents[r] + 1
            /\ \A q \in Requests : q # r => incidents'[q] = incidents[q]
        BY <1>1, <2>5
      <4>2. QED
        BY <1>1, <4>1, CountedMore
    <3>2. CASE accepted' = [accepted EXCEPT ![r] = @ + 1] /\ faults' = faults
      <4>1. /\ IsFiniteSet(Counted(accepted')) /\ Total(accepted') = Total(accepted) + 1
            /\ accepted'[r] = accepted[r] + 1
            /\ \A q \in Requests : q # r => accepted'[q] = accepted[q]
        <5>1. /\ accepted' \in [Requests -> Nat] /\ accepted'[r] = accepted[r] + 1
              /\ \A q \in Requests : q # r => accepted'[q] = accepted[q]
          BY <1>1, <3>2
        <5>2. QED
          BY <1>1, <5>1, CountedMore
      <4>2. \A q \in Requests : accepted'[q] <= incidents'[q]
        BY <1>1, <3>1, <4>1
      <4>3. Total(incidents') <= Total(accepted') + faults'
        BY <1>1, <1>2, <3>1, <3>2, <4>1
      <4>4. QED
        BY <3>1, <4>1, <4>2, <4>3 DEF Told, AnswersTrue, Total, Counted
    <3>3. CASE accepted' = accepted /\ faults' = faults + 1
      <4>1. \A q \in Requests : accepted'[q] <= incidents'[q]
        BY <1>1, <3>1, <3>3
      <4>2. Total(incidents') <= Total(accepted') + faults'
        BY <1>1, <1>2, <3>1, <3>3
      <4>3. QED
        BY <1>1, <3>1, <3>3, <4>1, <4>2 DEF Told, AnswersTrue, Total, Counted
    <3>4. QED
      BY <2>1, <2>2, <2>4, <2>5, <3>2, <3>3
  <2>6. CASE incidents' = incidents /\ accepted' = accepted /\ faults' = faults + 1
    <3>1. Total(incidents') <= Total(accepted') + faults'
      BY <1>1, <1>2, <2>6
    <3>2. QED
      BY <1>1, <2>6, <3>1 DEF Told, AnswersTrue, Total, Counted
  <2>7. QED
    BY <2>1, <2>2, <2>3, <2>4, <2>5, <2>6
<1>5. ASSUME NEW s \in Slots, Step(s), ~CreateIncident(s)
      PROVE  UNCHANGED <<incidents, accepted, faults>>
  <2>1. ASSUME NEW code \in {400, 401, 429}, Reply(s, code) PROVE accepted' = accepted
    BY <2>1 DEF Reply
  <2>2. QED
    BY <1>5, <2>1 DEF Step, Arrive, Allow, Refuse, Decline, answers
<1>6. CASE Tick \/ UNCHANGED vars
  BY <1>3, <1>6 DEF Tick, vars, answers
<1>7. QED
  BY <1>3, <1>4, <1>5, <1>6 DEF Next

\* Every 202 has an incident of its own, and an incident nobody was told of is the trace
\* of a fault (CreateIncident, Persist), however often requests are sent again.
THEOREM FrontDoorAnswers == Spec => []AnswersTrue
<1>1. Init => Told
  <2> SUFFICES ASSUME Init PROVE Told
    OBVIOUS
  <2>1. /\ incidents = [r \in Requests |-> 0] /\ accepted = [r \in Requests |-> 0] /\ faults = 0
    BY DEF Init
  <2>2. Counted(incidents) = {} /\ Counted(accepted) = {}
    BY <2>1 DEF Counted
  <2>3. IsFiniteSet({}) /\ Cardinality({}) = 0
    BY FS_EmptySet
  <2>4. QED
    BY <2>1, <2>2, <2>3 DEF Told, AnswersTrue, Total
<1>2. Base /\ Told /\ [Next]_vars => Told'
  BY ToldNext
<1>3. Told => AnswersTrue
  BY DEF Told
<1>4. QED
  BY <1>1, <1>2, <1>3, BaseInit, BaseNext, PTL DEF Spec

-----------------------------------------------------------------------------
(* Alerts. *)

LEMMA LeastOne ==
  ASSUME NEW S, S \subseteq Nat, S # {}
  PROVE  \E i \in S : \A j \in S : i <= j
<1>1. PICK i \in S : \A j \in S : ~(<<j, i>> \in OpToRel(<, Nat))
  BY WFMin, NatLessThanWellFounded
<1>2. \A j \in S : i <= j
  <2> SUFFICES ASSUME NEW j \in S PROVE i <= j
    OBVIOUS
  <2>1. i \in Nat /\ j \in Nat /\ ~(<<j, i>> \in OpToRel(<, Nat))
    BY <1>1
  <2>2. QED
    BY <2>1 DEF OpToRel
<1>3. QED
  BY <1>2

LEMMA PlacesNat ==
  ASSUME NEW n \in Nat
  PROVE  1 .. n \subseteq Nat
OBVIOUS

LEMMA FirstUsable ==
  ASSUME NEW n \in Nat, NEW texts, DOMAIN texts = 1 .. n,
         NEW k \in 1 .. n, Trim(texts[k]) # ""
  PROVE  \E i \in 1 .. n : FirstNonEmpty(texts) = texts[i] /\ Trim(texts[i]) # ""
<1> DEFINE usable == {i \in 1 .. n : Trim(texts[i]) # ""}
<1>1. k \in usable /\ usable \subseteq Nat
  <2>1. k \in usable
    OBVIOUS
  <2>2. usable \subseteq 1 .. n
    OBVIOUS
  <2>3. 1 .. n \subseteq Nat
    BY PlacesNat
  <2> HIDE DEF usable
  <2>4. QED
    BY <2>1, <2>2, <2>3
<1> HIDE DEF usable
<1>2. PICK i \in usable : \A j \in usable : i <= j
  BY <1>1, LeastOne
<1> DEFINE c == CHOOSE l \in usable : \A j \in usable : l <= j
<1>3. c \in usable
  BY <1>2
<1>4. FirstNonEmpty(texts) = texts[c]
  BY <1>1 DEF FirstNonEmpty, usable
<1>5. QED
  BY <1>3, <1>4 DEF usable

LEMMA ShortTexts ==
  ASSUME NEW t \in Text, t # "long"
  PROVE  Trim(t) # "long"
BY DEF Trim, Text, Severities

\* What is chosen among texts the last of which can be used can be used, and is too long
\* only if one of them is.
LEMMA ChosenText ==
  ASSUME NEW n \in Nat \ {0}, NEW texts, DOMAIN texts = 1 .. n,
         \A i \in 1 .. n : texts[i] \in Text /\ texts[i] # "long", texts[n] = "word"
  PROVE  Trim(FirstNonEmpty(texts)) \notin {"", "long"}
<1>1. n \in 1 .. n /\ Trim(texts[n]) # ""
  BY DEF Trim
<1>2. PICK i \in 1 .. n : FirstNonEmpty(texts) = texts[i] /\ Trim(texts[i]) # ""
  BY <1>1, FirstUsable
<1>3. QED
  BY <1>2, ShortTexts

\* An alert that is refused has a severity with spaces around it, or a text too long.
LEMMA BareAlert ==
  ASSUME NEW a \in Alert, ~Valid(IncidentFromAlert(a))
  PROVE  "padded" \in Severity(a) \/ "long" \in Prose(a)
<1> SUFFICES ASSUME "long" \notin Prose(a) PROVE "padded" \in Severity(a)
  OBVIOUS
<1> DEFINE label == [l \in Label |-> IF a.common[l] = "" THEN a.first[l] ELSE a.common[l]]
           sev == label["severity"]
           titles == <<a.title, label["alertname"], "word">>
           descriptions == <<a.description, a.message, a.note, "word">>
           services == <<label["service"], label["job"], label["container"], "word">>
           environments == <<label["environment"], label["env"], label["namespace"], "word">>
           input == IncidentFromAlert(a)
<1>1. /\ input.title = FirstNonEmpty(titles) /\ input.service = FirstNonEmpty(services)
      /\ input.environment = FirstNonEmpty(environments)
      /\ input.description = FirstNonEmpty(descriptions) /\ input.alertSource = "word"
      /\ input.severity = IF Trim(sev) \in Severities THEN sev
                          ELSE IF a.firing THEN "high" ELSE "medium"
  BY DEF IncidentFromAlert
<1>2. sev \in Text /\ sev \in Severity(a)
  BY DEF Alert, Label, Severity
<1>3. \A l \in Label \ {"severity"} : label[l] \in Text /\ label[l] # "long"
  <2> SUFFICES ASSUME NEW l \in Label \ {"severity"} PROVE label[l] \in Text /\ label[l] # "long"
    OBVIOUS
  <2>1. a.common[l] \in Text /\ a.first[l] \in Text
    BY DEF Alert
  <2>2. {a.common[l], a.first[l]} \subseteq Prose(a)
    BY DEF Prose
  <2>3. label[l] \in {a.common[l], a.first[l]}
    OBVIOUS
  <2> HIDE DEF label
  <2>4. QED
    BY <2>1, <2>2, <2>3
<1>4. \A t \in {a.title, a.description, a.message, a.note, "word"} : t \in Text /\ t # "long"
  BY DEF Alert, Prose, Text
<1>5. {"alertname", "service", "job", "container", "environment", "env", "namespace"}
          \subseteq Label \ {"severity"}
  BY DEF Label
<1> HIDE DEF label, sev
<1>6. /\ DOMAIN titles = 1 .. 3 /\ titles[3] = "word"
      /\ \A i \in 1 .. 3 : titles[i] \in Text /\ titles[i] # "long"
  BY <1>3, <1>4, <1>5
<1>7. /\ DOMAIN descriptions = 1 .. 4 /\ descriptions[4] = "word"
      /\ \A i \in 1 .. 4 : descriptions[i] \in Text /\ descriptions[i] # "long"
  BY <1>4
<1>8. /\ DOMAIN services = 1 .. 4 /\ services[4] = "word"
      /\ \A i \in 1 .. 4 : services[i] \in Text /\ services[i] # "long"
  BY <1>3, <1>4, <1>5
<1>9. /\ DOMAIN environments = 1 .. 4 /\ environments[4] = "word"
      /\ \A i \in 1 .. 4 : environments[i] \in Text /\ environments[i] # "long"
  BY <1>3, <1>4, <1>5
<1> HIDE DEF titles, descriptions, services, environments, input
<1>10. 3 \in Nat \ {0} /\ 4 \in Nat \ {0}
  OBVIOUS
<1>11. /\ Trim(FirstNonEmpty(titles)) \notin {"", "long"}
       /\ Trim(FirstNonEmpty(services)) \notin {"", "long"}
       /\ Trim(FirstNonEmpty(environments)) \notin {"", "long"}
       /\ Trim(FirstNonEmpty(descriptions)) \notin {"", "long"}
  BY <1>6, <1>7, <1>8, <1>9, <1>10, ChosenText
<1>12. Trim(input.alertSource) # "long"
  BY <1>1 DEF Trim
<1>13. input.severity \notin Severities
  BY <1>1, <1>11, <1>12 DEF Valid, input
<1>14. Trim(sev) \in Severities /\ sev \notin Severities
  <2>1. "high" \in Severities /\ "medium" \in Severities
    BY DEF Severities
  <2>2. QED
    BY <1>1, <1>13, <2>1
<1>15. sev = "padded"
  BY <1>2, <1>14 DEF Trim, Text, Severities
<1>16. QED
  BY <1>2, <1>15

LEMMA RejectedNext ==
  ASSUME Base, AlertsUsable, [Next]_vars
  PROVE  AlertsUsable'
<1>1. CASE rejected' = rejected
  BY <1>1 DEF AlertsUsable
<1>2. ASSUME NEW s \in Slots, Decline(s), rejected' # rejected PROVE AlertsUsable'
  <2> DEFINE r == at[s].req
  <2>1. r \in Requests
    BY <1>2, SlotsOK DEF Decline, SlotOK
  <2>2. ~Usable(r) /\ rejected' = rejected \cup {r}
    BY <1>2 DEF Decline, Reply
  <2>3. r.route = "webhook" /\ r.wellFormed =>
            "padded" \in Severity(r.body) \/ "long" \in Prose(r.body)
    <3> SUFFICES ASSUME r.route = "webhook", r.wellFormed
                 PROVE  "padded" \in Severity(r.body) \/ "long" \in Prose(r.body)
      OBVIOUS
    <3>1. r.body \in Alert
      BY <2>1, RequestsAssumption
    <3>2. ~Valid(IncidentFromAlert(r.body))
      BY <2>2 DEF Usable, InputOf
    <3>3. QED
      BY <3>1, <3>2, BareAlert
  <2> HIDE DEF r
  <2>4. QED
    BY <2>2, <2>3 DEF AlertsUsable
<1>3. ASSUME NEW s \in Slots, Step(s), ~Decline(s) PROVE rejected' = rejected
  <2>1. ASSUME NEW code \in {202, 429, 500}, Reply(s, code) PROVE rejected' = rejected
    BY <2>1 DEF Reply
  <2>2. QED
    BY <1>3, <2>1 DEF Step, Arrive, Allow, Refuse, CreateIncident, answers
<1>4. CASE Tick \/ UNCHANGED vars
  BY <1>1, <1>4 DEF Tick, vars, answers
<1>5. QED
  BY <1>1, <1>2, <1>3, <1>4 DEF Next

\* No alert is too bare to become an incident, whatever labels it has (grafana/client.go,
\* ValidateCreateInput): only a known severity with spaces around it or a text that is too
\* long makes a decoded webhook a bad request.
THEOREM FrontDoorAlerts == Spec => []AlertsUsable
<1>1. Init => AlertsUsable
  BY DEF Init, AlertsUsable
<1>2. QED
  BY <1>1, RejectedNext, BaseInit, BaseNext, PTL DEF Spec

=============================================================================
