------------------------ MODULE KnowledgeBaseProofs ------------------------
(***************************************************************************)
(* Safety of the knowledge base for any directory of seed files, any       *)
(* number of requests in flight, any scores and settings of the search,    *)
(* and any number of failures, cancellations and crashes.                  *)
(***************************************************************************)
EXTENDS KnowledgeBase, FiniteSetTheorems, FunctionTheorems, WellFoundedInduction, TLAPS

USE SeedersAssumption, TextsAssumption, BoundsAssumption

-----------------------------------------------------------------------------
(* What a process holds in each of its stages. *)

DocStages == {"embed", "replace", "delete"}
IngestStages == {"create"} \cup DocStages
SeedStages == {"file"} \cup IngestStages

LocalOK(p, l) ==
    /\ l \in At
    /\ l.doc # 0 <=> l.pc \in DocStages
    /\ l.pc \in IngestStages => Valid(l.req)
    /\ p \in Clients => l.pc \in {"idle"} \cup IngestStages /\ l.req.from = 0
    /\ p \in Seeders => /\ l.pc # "idle"
                        /\ l.pc \in SeedStages => l.file \in 1 .. Len(SeedDir) + 1
                        /\ l.pc \in IngestStages =>
                              l.file \in DOMAIN SeedDir /\ l.req.from = l.file
    /\ l.pc \in {"idle", "off", "ready"} => l = Resting(l.pc)

DocumentRow == [from : 0 .. Len(SeedDir), source : Sources]

\* The inductive invariant: each process is where its locals say, and the document
\* it works on came from the file or the request it holds.
Base == /\ TypeOK
        /\ \A p \in Seekers : LocalOK(p, at[p])
        /\ \A p \in Seekers : at[p].doc # 0 => created[at[p].doc].from = at[p].req.from
        /\ Len(created) <= MaxDocuments

LEMMA SizesFacts ==
  /\ Len(SeedDir) \in Nat /\ DOMAIN SeedDir = 1 .. Len(SeedDir)
  /\ \A k \in DOMAIN SeedDir : SeedDir[k] \in SeedFile
  /\ Clients \subseteq Seekers /\ Seeders \subseteq Seekers
  /\ \A p \in Seekers : p \in Clients <=> p \notin Seeders
  /\ IsFiniteSet(Seekers)
<1>1. IsFiniteSet({"server", "worker", "ingest"})
  <2>1. {"server", "worker", "ingest"} = ({"server"} \cup {"worker"}) \cup {"ingest"}
    OBVIOUS
  <2>2. IsFiniteSet({"server"}) /\ IsFiniteSet({"worker"}) /\ IsFiniteSet({"ingest"})
    BY FS_Singleton
  <2>3. IsFiniteSet({"server"} \cup {"worker"})
    BY <2>2, FS_Union
  <2>4. IsFiniteSet(({"server"} \cup {"worker"}) \cup {"ingest"})
    BY <2>2, <2>3, FS_Union
  <2>5. QED
    BY <2>1, <2>4
<1>2. IsFiniteSet(Seekers)
  BY <1>1, FS_Subset, FS_Union DEF Seekers
<1>3. QED
  BY <1>2 DEF Seekers

LEMMA RestingOK ==
  ASSUME NEW p \in Seekers, NEW pc \in {"idle", "off", "ready"}, p \in Clients <=> pc = "idle"
  PROVE  LocalOK(p, Resting(pc))
<1> DEFINE l == Resting(pc)
<1>1. NoRequest \in Request /\ NoRequest.from = 0
  <2>1. 0 \in 0 .. Len(SeedDir)
    BY SizesFacts
  <2>2. QED
    BY <2>1 DEF NoRequest, Request
<1>2. l \in At /\ l.pc = pc /\ l.doc = 0 /\ l.req = NoRequest /\ l = Resting(l.pc)
  BY <1>1 DEF Resting, At
<1> HIDE DEF l
<1>3. LocalOK(p, l)
  BY <1>1, <1>2, SizesFacts DEF LocalOK, DocStages, IngestStages, SeedStages
<1>4. QED
  BY <1>3 DEF l

\* A seed file becomes a request for a source there is.
LEMMA ParsedOK ==
  ASSUME NEW k \in DOMAIN SeedDir
  PROVE  Parsed(k) \in Request /\ Parsed(k).from = k
<1>1. SeedDir[k] \in SeedFile /\ k \in 0 .. Len(SeedDir)
  BY SizesFacts
<1>2. SourceOf(SeedDir[k].prefix) \in Sources
  BY <1>1 DEF SourceOf, SeedFile, Prefixes, Sources
<1>3. QED
  BY <1>1, <1>2 DEF Parsed, Request, SeedFile

\* The file the loop stops at next: the first to be seeded, or none to the end.
LEMMA FirstFile ==
  ASSUME NEW k \in 1 .. Len(SeedDir) + 1
  PROVE  /\ FirstSeedable(k) \in k .. Len(SeedDir) + 1
         /\ FirstSeedable(k) <= Len(SeedDir) => Seedable(FirstSeedable(k))
         /\ \A i \in k .. FirstSeedable(k) - 1 : ~Seedable(i)
<1> DEFINE n == Len(SeedDir) + 1
           T == {j \in k .. n : j <= Len(SeedDir) => Seedable(j)}
<1>1. n \in Nat /\ k \in Nat /\ n \in T /\ T \subseteq Nat
  BY SizesFacts
<1> HIDE DEF T
<1>2. PICK j \in T : \A i \in T : ~(<<i, j>> \in OpToRel(<, Nat))
  BY <1>1, WFMin, NatLessThanWellFounded
<1> USE DEF T
<1>3. \A i \in k .. j - 1 : ~Seedable(i)
  <2> SUFFICES ASSUME NEW i \in k .. j - 1, Seedable(i) PROVE FALSE
    OBVIOUS
  <2>1. i \in T /\ i < j /\ i \in Nat /\ j \in Nat
    BY <1>1
  <2>2. QED
    BY <1>2, <2>1 DEF OpToRel
<1>4. \E h \in k .. n : (h <= Len(SeedDir) => Seedable(h)) /\ \A i \in k .. h - 1 : ~Seedable(i)
  BY <1>3
<1>5. QED
  BY <1>4 DEF FirstSeedable

-----------------------------------------------------------------------------
(* The steps of a process, sorted by what they do to the tables.               *)

Sets(p, l) == LocalOK(p, l) /\ at' = [at EXCEPT ![p] = l]
Rests(p) == \E pc \in {"idle", "off", "ready"} : Sets(p, Resting(pc))

Creates(p) ==
    /\ at[p].pc = "create" /\ Len(created) < MaxDocuments /\ ~at[p].cancelled
    /\ InsertDocument(at[p].req)
    /\ \/ /\ Sets(p, [at[p] EXCEPT !.pc = "embed", !.doc = Len(created) + 1])
          /\ UNCHANGED mishaps
       \/ Rests(p) /\ mishaps' = mishaps + 1 /\ mishaps' <= MaxMishaps
    /\ UNCHANGED <<acked, outages, starts, surplus>>

Stores(p) ==
    /\ at[p].pc = "replace" /\ at[p].doc \in documents
    /\ chunked' = chunked \cup {at[p].doc} /\ UNCHANGED <<created, documents>>
    /\ \/ /\ \E l : /\ Sets(p, l) /\ l.doc = 0 /\ (l.cancelled => at[p].cancelled)
                    /\ (p \in Seeders => l.pc = "file" /\ l.file = at[p].file + 1)
          /\ acked' = acked \cup {at[p].doc} /\ UNCHANGED mishaps
       \/ /\ Sets(p, [at[p] EXCEPT !.pc = "delete"])
          /\ UNCHANGED acked /\ mishaps' = mishaps + 1 /\ mishaps' <= MaxMishaps
    /\ UNCHANGED <<outages, starts, surplus>>

Drops(p) ==
    /\ at[p].pc = "delete"
    /\ DeleteRow(at[p].doc)
    /\ Rests(p)
    /\ mishaps' \in {mishaps, mishaps + 1} /\ mishaps' <= MaxMishaps
    /\ UNCHANGED <<acked, outages, starts, surplus>>

GivesUp(p) ==
    /\ at[p].pc \in {"create", "delete"}
    /\ UNCHANGED tables
    /\ Rests(p)
    /\ \/ mishaps' = mishaps + 1 /\ mishaps' <= MaxMishaps
       \/ at[p].cancelled /\ UNCHANGED mishaps
    /\ UNCHANGED <<acked, outages, starts, surplus>>

\* A process begins to seed on its own, or is counted in surplus.
Growth(p, l) ==
    /\ surplus' >= surplus
    /\ p \in Seeders /\ l.pc \in SeedStages =>
          \/ at[p].pc \in SeedStages /\ at[p].file <= l.file
          \/ surplus' = surplus + 1
          \/ documents = {} /\ \A q \in Seeders : ~Seeding(q)

\* A step that leaves the tables alone, and the process with its document.
Moves(p) ==
    /\ UNCHANGED <<tables, acked>>
    /\ \E l : /\ Sets(p, l)
              /\ l.doc = at[p].doc /\ (l.doc # 0 => l.req = at[p].req)
              /\ Growth(p, l)
              /\ (l.cancelled => at[p].cancelled \/ mishaps' = mishaps + 1)
    /\ mishaps' \in {mishaps, mishaps + 1} /\ mishaps' <= MaxMishaps
    /\ outages' \in 0 .. MaxOutages
    /\ starts' \in [Seeders -> Nat] /\ surplus' \in Nat

LEMMA GotoSets ==
  ASSUME Base, NEW p \in Seekers, NEW pc, Goto(p, pc),
         LocalOK(p, [at[p] EXCEPT !.pc = pc])
  PROVE  Sets(p, [at[p] EXCEPT !.pc = pc])
BY DEF Goto, Sets

LEMMA FailRests ==
  ASSUME NEW p \in Seekers, Fail(p)
  PROVE  Rests(p) /\ UNCHANGED acked
BY RestingOK, SizesFacts DEF Fail, SeedEnds, Become, Rests, Sets

LEMMA SeedEndsRests ==
  ASSUME NEW p \in Seeders, NEW ok \in BOOLEAN, SeedEnds(p, ok)
  PROVE  Rests(p)
BY RestingOK, SizesFacts DEF SeedEnds, Become, Rests, Sets

LEMMA CreateDeed ==
  ASSUME Base, NEW p \in Seekers, CreateDocument(p)
  PROVE  Creates(p) \/ GivesUp(p)
<1> DEFINE l == [at[p] EXCEPT !.pc = "embed", !.doc = Len(created) + 1]
<1>1. at[p].pc = "create" /\ LocalOK(p, at[p]) /\ Len(created) \in Nat /\ Len(created) < MaxDocuments
  BY DEF CreateDocument, Base, TypeOK
<1>2. /\ l \in At /\ l.pc = "embed" /\ l.doc = Len(created) + 1 /\ l.req = at[p].req
      /\ l.file = at[p].file
  <2>1. at[p] \in At /\ Len(created) + 1 \in Nat
    BY <1>1 DEF LocalOK
  <2>2. QED
    BY <2>1 DEF At
<1>3. mishaps \in 0 .. MaxMishaps
  BY DEF Base, TypeOK
<1>4. \/ /\ ~at[p].cancelled /\ InsertDocument(at[p].req)
         /\ \/ at' = [at EXCEPT ![p] = l] /\ UNCHANGED <<acked, mishaps>>
            \/ Fail(p) /\ Mishap
      \/ UNCHANGED tables /\ Fail(p) /\ (IF at[p].cancelled THEN UNCHANGED mishaps ELSE Mishap)
  BY DEF CreateDocument, Call
<1>5. UNCHANGED <<outages, starts, surplus>>
  BY DEF CreateDocument
<1> HIDE DEF l
<1>6. LocalOK(p, l)
  BY <1>1, <1>2 DEF LocalOK, DocStages, IngestStages, SeedStages
<1>7. CASE ~at[p].cancelled /\ InsertDocument(at[p].req) /\ at' = [at EXCEPT ![p] = l]
           /\ UNCHANGED <<acked, mishaps>>
  BY <1>1, <1>5, <1>6, <1>7 DEF Creates, Sets, l
<1>8. CASE ~at[p].cancelled /\ InsertDocument(at[p].req) /\ Fail(p) /\ Mishap
  BY <1>1, <1>3, <1>5, <1>8, FailRests DEF Creates, Mishap
<1>9. CASE UNCHANGED tables /\ Fail(p) /\ (IF at[p].cancelled THEN UNCHANGED mishaps ELSE Mishap)
  BY <1>1, <1>3, <1>5, <1>9, FailRests DEF GivesUp, Mishap
<1>10. QED
  BY <1>4, <1>7, <1>8, <1>9

\* The stage of a process with a document changes, and nothing else of it.
LEMMA StageOK ==
  ASSUME NEW p \in Seekers, NEW l, LocalOK(p, l), l.pc \in DocStages, NEW pc \in DocStages,
         NEW m, m = [l EXCEPT !.pc = pc]
  PROVE  /\ LocalOK(p, m) /\ m.pc = pc
         /\ m.doc = l.doc /\ m.req = l.req /\ m.cancelled = l.cancelled /\ m.file = l.file
<1>1. l \in At
  BY DEF LocalOK
<1>2. /\ m \in At /\ m.pc = pc /\ m.doc = l.doc /\ m.req = l.req /\ m.cancelled = l.cancelled
      /\ m.file = l.file
  BY <1>1 DEF At, DocStages
<1>3. LocalOK(p, m)
  BY <1>2 DEF LocalOK, DocStages, IngestStages, SeedStages
<1>4. QED
  BY <1>2, <1>3

LEMMA MovesTo ==
  ASSUME Base, NEW p \in Seekers, NEW l, LocalOK(p, l), at' = [at EXCEPT ![p] = l],
         l.doc = at[p].doc, l.doc # 0 => l.req = at[p].req, Growth(p, l),
         UNCHANGED <<tables, acked>>,
         UNCHANGED mishaps \/ Mishap,
         l.cancelled => at[p].cancelled \/ mishaps' = mishaps + 1,
         outages' \in 0 .. MaxOutages, starts' \in [Seeders -> Nat], surplus' \in Nat
  PROVE  Moves(p)
<1>1. mishaps' \in {mishaps, mishaps + 1} /\ mishaps' <= MaxMishaps
  BY DEF Base, TypeOK, Mishap
<1>2. QED
  BY <1>1 DEF Moves, Sets

LEMMA CountersOK ==
  ASSUME Base
  PROVE  /\ UNCHANGED outages => outages' \in 0 .. MaxOutages
         /\ UNCHANGED starts => starts' \in [Seeders -> Nat]
         /\ UNCHANGED surplus => surplus' \in Nat
BY DEF Base, TypeOK

LEMMA SucceedSets ==
  ASSUME Base, NEW p \in Seekers, at[p].pc = "replace", Succeed(p)
  PROVE  /\ acked' = acked \cup {at[p].doc}
         /\ \E l : /\ Sets(p, l) /\ l.doc = 0 /\ (l.cancelled => at[p].cancelled)
                   /\ (p \in Seeders => l.pc = "file" /\ l.file = at[p].file + 1)
<1>1. CASE p \in Clients
  <2>1. Sets(p, Resting("idle"))
    BY <1>1, RestingOK DEF Succeed, Become, Sets
  <2>2. Resting("idle").doc = 0 /\ ~Resting("idle").cancelled /\ p \notin Seeders
    BY <1>1, SizesFacts DEF Resting
  <2>3. QED
    BY <2>1, <2>2 DEF Succeed
<1>2. CASE p \in Seeders
  <2> DEFINE l == [at[p] EXCEPT !.pc = "file", !.file = @ + 1, !.req = NoRequest, !.doc = 0]
  <2>1. LocalOK(p, at[p]) /\ at[p] \in At
    BY DEF Base, LocalOK
  <2>2. NoRequest \in Request
    <3>1. 0 \in 0 .. Len(SeedDir)
      BY SizesFacts
    <3>2. QED
      BY <3>1 DEF NoRequest, Request
  <2>3. /\ l \in At /\ l.pc = "file" /\ l.file = at[p].file + 1 /\ l.doc = 0
        /\ l.cancelled = at[p].cancelled
    <3>1. at[p].file \in Nat /\ at[p].file + 1 \in Nat /\ at[p].cancelled \in BOOLEAN
      BY <2>1 DEF At
    <3>2. QED
      BY <2>1, <2>2, <3>1 DEF At
  <2>4. at[p].file + 1 \in 1 .. Len(SeedDir) + 1
    BY <1>2, <2>1, SizesFacts DEF LocalOK, DocStages, IngestStages
  <2>5. at' = [at EXCEPT ![p] = l]
    BY <1>2, SizesFacts DEF Succeed
  <2> HIDE DEF l
  <2>6. LocalOK(p, l)
    BY <1>2, <2>3, <2>4, SizesFacts DEF LocalOK, DocStages, IngestStages, SeedStages
  <2>7. QED
    BY <2>3, <2>5, <2>6 DEF Succeed, Sets
<1>3. QED
  BY <1>1, <1>2, SizesFacts

LEMMA ReplaceDeed ==
  ASSUME Base, NEW p \in Seekers, ReplaceChunks(p)
  PROVE  Stores(p) \/ Moves(p)
<1> DEFINE l == [at[p] EXCEPT !.pc = "delete"]
<1>1. at[p].pc = "replace" /\ LocalOK(p, at[p]) /\ mishaps \in 0 .. MaxMishaps
  BY DEF ReplaceChunks, Base, TypeOK
<1>2. LocalOK(p, l) /\ l.doc = at[p].doc /\ l.req = at[p].req /\ l.cancelled = at[p].cancelled
  BY <1>1, StageOK DEF DocStages
<1>3. Goto(p, "delete") => Sets(p, l)
  BY <1>2 DEF Goto, Sets
<1>4. /\ UNCHANGED <<outages, starts, surplus>>
      /\ \/ /\ at[p].doc \in documents /\ chunked' = chunked \cup {at[p].doc}
            /\ UNCHANGED <<created, documents>>
            /\ Succeed(p) /\ UNCHANGED mishaps
         \/ /\ at[p].doc \in documents /\ chunked' = chunked \cup {at[p].doc}
            /\ UNCHANGED <<created, documents>>
            /\ Goto(p, "delete") /\ UNCHANGED acked /\ Mishap
         \/ /\ UNCHANGED <<tables, acked>> /\ Goto(p, "delete")
            /\ (UNCHANGED mishaps \/ Mishap)
  BY DEF ReplaceChunks, Call
<1>5. l.file = at[p].file /\ l.file <= at[p].file
  <2>1. at[p].file \in Nat
    BY <1>1 DEF LocalOK, At
  <2>2. QED
    BY <1>1, <2>1 DEF LocalOK, At
<1> HIDE DEF l
<1>6. CASE Succeed(p) /\ UNCHANGED mishaps /\ at[p].doc \in documents /\ chunked' = chunked \cup {at[p].doc}
           /\ UNCHANGED <<created, documents>>
  BY <1>1, <1>4, <1>6, SucceedSets DEF Stores
<1>7. CASE /\ at[p].doc \in documents /\ chunked' = chunked \cup {at[p].doc}
           /\ UNCHANGED <<created, documents>>
           /\ Goto(p, "delete") /\ UNCHANGED acked /\ Mishap
  BY <1>1, <1>3, <1>4, <1>7 DEF Stores, Mishap, l
<1>8. CASE /\ UNCHANGED <<tables, acked>> /\ Goto(p, "delete") /\ (UNCHANGED mishaps \/ Mishap)
  <2>1. at' = [at EXCEPT ![p] = l]
    BY <1>3, <1>8 DEF Sets
  <2>2. Growth(p, l)
    BY <1>1, <1>2, <1>4, <1>5 DEF Growth, Base, TypeOK, SeedStages, IngestStages, DocStages
  <2>3. QED
    BY <1>2, <1>4, <1>8, <2>1, <2>2, CountersOK, MovesTo
<1>9. QED
  BY <1>4, <1>6, <1>7, <1>8

LEMMA CompensateDeed ==
  ASSUME Base, NEW p \in Seekers, Compensate(p)
  PROVE  Drops(p) \/ GivesUp(p)
<1>1. mishaps \in 0 .. MaxMishaps /\ at[p].pc = "delete" /\ UNCHANGED <<outages, starts, surplus>>
  BY DEF Base, TypeOK, Compensate
<1>2. Fail(p)
  BY DEF Compensate, Call
<1>3. \/ DeleteRow(at[p].doc) /\ UNCHANGED mishaps
      \/ DeleteRow(at[p].doc) /\ Mishap
      \/ UNCHANGED tables /\ (IF at[p].cancelled THEN UNCHANGED mishaps ELSE Mishap)
  <2>1. Call(p, DeleteRow(at[p].doc), Fail(p), Fail(p))
    BY DEF Compensate
  <2>2. QED
    BY <2>1, Zenon DEF Call
<1>4. Rests(p) /\ UNCHANGED acked
  BY <1>2, FailRests
<1>5. QED
  BY <1>1, <1>3, <1>4 DEF Drops, GivesUp, Mishap

LEMMA EmbedMoves ==
  ASSUME Base, NEW p \in Seekers, Embed(p)
  PROVE  Moves(p)
<1>1. PICK pc \in {"replace", "delete"} : Goto(p, pc)
  BY DEF Embed
<1> DEFINE l == [at[p] EXCEPT !.pc = pc]
<1>2. at[p].pc = "embed" /\ LocalOK(p, at[p])
  BY DEF Embed, Base
<1>3. /\ LocalOK(p, l) /\ l.doc = at[p].doc /\ l.req = at[p].req
      /\ l.cancelled = at[p].cancelled /\ l.file = at[p].file
  BY <1>2, StageOK DEF DocStages
<1>4. at' = [at EXCEPT ![p] = l]
  BY <1>1 DEF Goto
<1>5. UNCHANGED <<tables, starts, mishaps, acked, surplus>> /\ outages' \in 0 .. MaxOutages
  BY DEF Embed, EmbedderFails, Base, TypeOK
<1> HIDE DEF l
<1>6. Growth(p, l)
  <2>1. at[p].file \in Nat /\ surplus \in Nat
    BY <1>2 DEF LocalOK, At, Base, TypeOK
  <2>2. QED
    BY <1>2, <1>3, <1>5, <2>1 DEF Growth, SeedStages, IngestStages, DocStages
<1>7. QED
  BY <1>3, <1>4, <1>5, <1>6, CountersOK, MovesTo

LEMMA CancelMoves ==
  ASSUME Base, NEW p \in Seekers, Cancel(p)
  PROVE  Moves(p)
<1> DEFINE l == [at[p] EXCEPT !.cancelled = TRUE]
<1>1. LocalOK(p, at[p]) /\ at[p] \in At /\ at[p].pc \notin {"idle", "off", "ready"}
  BY DEF Cancel, Base, LocalOK
<1>2. /\ l \in At /\ l.pc = at[p].pc /\ l.doc = at[p].doc /\ l.req = at[p].req /\ l.file = at[p].file
  BY <1>1 DEF At
<1>3. at' = [at EXCEPT ![p] = l]
  BY DEF Cancel
<1>4. /\ UNCHANGED <<tables, starts, outages, acked, surplus>>
      /\ mishaps' = mishaps + 1 /\ mishaps' <= MaxMishaps
  BY DEF Cancel, Mishap, Base, TypeOK
<1> HIDE DEF l
<1>5. LocalOK(p, l)
  BY <1>1, <1>2 DEF LocalOK
<1>6. Growth(p, l)
  <2>1. at[p].file \in Nat /\ surplus \in Nat
    BY <1>1 DEF At, Base, TypeOK
  <2>2. QED
    BY <1>2, <1>4, <2>1 DEF Growth
<1>7. QED
  BY <1>2, <1>3, <1>4, <1>5, <1>6, CountersOK, MovesTo DEF Cancel

LEMMA UploadMoves ==
  ASSUME Base, NEW p \in Clients, NEW r \in Uploads, Upload(p, r)
  PROVE  Moves(p)
<1> DEFINE l == [at[p] EXCEPT !.pc = "create", !.req = r]
<1>1. p \in Seekers /\ LocalOK(p, at[p]) /\ at[p] \in At /\ at[p].pc = "idle" /\ Valid(r)
  BY SizesFacts DEF Upload, Base, LocalOK
<1>2. /\ l \in At /\ l.pc = "create" /\ l.doc = at[p].doc /\ l.req = r
      /\ l.cancelled = at[p].cancelled /\ r.from = 0
  BY <1>1 DEF At
<1>3. at' = [at EXCEPT ![p] = l]
  BY DEF Upload
<1>4. at[p].doc = 0 /\ p \notin Seeders
  BY <1>1, SizesFacts DEF LocalOK, DocStages
<1> HIDE DEF l
<1>5. LocalOK(p, l)
  BY <1>1, <1>2, <1>4 DEF LocalOK, DocStages, IngestStages, SeedStages
<1>6. Growth(p, l)
  BY <1>4 DEF Growth, Upload, Base, TypeOK
<1>7. QED
  BY <1>1, <1>2, <1>3, <1>4, <1>5, <1>6, CountersOK, MovesTo DEF Upload

\* A process that seeds goes on to no document of its own.
LEMMA RestsMoves ==
  ASSUME Base, NEW p \in Seekers, Rests(p), at[p].doc = 0,
         UNCHANGED <<tables, acked, outages, starts, surplus>>,
         UNCHANGED mishaps \/ Mishap
  PROVE  Moves(p)
<1>1. PICK pc \in {"idle", "off", "ready"} : Sets(p, Resting(pc))
  BY DEF Rests
<1> DEFINE l == Resting(pc)
<1>2. l.doc = 0 /\ l.pc \notin SeedStages /\ l.cancelled = FALSE
  BY DEF Resting, SeedStages, IngestStages, DocStages
<1>3. LocalOK(p, l) /\ at' = [at EXCEPT ![p] = l]
  BY <1>1 DEF Sets
<1> HIDE DEF l
<1>4. Growth(p, l)
  BY <1>2 DEF Growth, Base, TypeOK
<1>5. QED
  BY <1>2, <1>3, <1>4, CountersOK, MovesTo

\* Beginning to seed: at the first file, with nothing in hand.
Begun(l) == [l EXCEPT !.pc = "file", !.file = 1]

LEMMA BeginOK ==
  ASSUME NEW p \in Seeders, NEW l, LocalOK(p, l), l.doc = 0
  PROVE  /\ LocalOK(p, Begun(l)) /\ Begun(l).doc = 0 /\ Begun(l).cancelled = l.cancelled
         /\ Begun(l).pc = "file" /\ Begun(l).file = 1
<1> DEFINE m == Begun(l)
<1>1. l \in At
  BY DEF LocalOK
<1>2. /\ m \in At /\ m.pc = "file" /\ m.doc = 0 /\ m.req = l.req /\ m.cancelled = l.cancelled
      /\ m.file = 1
  BY <1>1 DEF At, Begun
<1>3. 1 \in 1 .. Len(SeedDir) + 1 /\ p \notin Clients
  BY SizesFacts
<1> HIDE DEF m
<1>4. LocalOK(p, m)
  BY <1>2, <1>3 DEF LocalOK, SeedStages, IngestStages, DocStages
<1>5. QED
  BY <1>2, <1>4 DEF m

LEMMA StartMoves ==
  ASSUME Base, NEW p \in Seeders, Start(p)
  PROVE  Moves(p)
<1>1. /\ p \in Seekers /\ LocalOK(p, at[p]) /\ at[p] \in At /\ at[p].pc = "off" /\ at[p].doc = 0
      /\ p \notin Clients /\ surplus \in Nat
  BY SizesFacts DEF Start, Base, TypeOK, LocalOK, DocStages
<1>2. starts' \in [Seeders -> Nat] /\ UNCHANGED <<tables, mishaps, outages, acked>>
  <2>1. starts \in [Seeders -> Nat] /\ starts' = [starts EXCEPT ![p] = @ + 1]
    BY DEF Start, Base, TypeOK
  <2>2. starts[p] + 1 \in Nat
    BY <2>1
  <2>3. starts' \in [Seeders -> Nat]
    BY <2>1, <2>2
  <2>4. QED
    BY <2>3 DEF Start
<1>3. CASE at' = [at EXCEPT ![p].pc = "file", ![p].file = 1] /\ surplus' = surplus + 1
  <2> DEFINE l == Begun(at[p])
  <2>1. at' = [at EXCEPT ![p] = l] /\ surplus' = surplus + 1
    BY <1>3 DEF Begun
  <2>2. LocalOK(p, l) /\ l.doc = 0 /\ l.cancelled = at[p].cancelled
    BY <1>1, BeginOK
  <2> HIDE DEF l
  <2>3. Growth(p, l)
    BY <1>1, <2>1 DEF Growth
  <2>4. surplus' \in Nat
    BY <1>1, <2>1
  <2>5. QED
    BY <1>1, <1>2, <2>1, <2>2, <2>3, <2>4, CountersOK, MovesTo
<1>4. CASE Goto(p, "count") /\ UNCHANGED surplus
  <2> DEFINE l == [at[p] EXCEPT !.pc = "count"]
  <2>1. at' = [at EXCEPT ![p] = l] /\ surplus' = surplus
    BY <1>4 DEF Goto
  <2>2. l \in At /\ l.pc = "count" /\ l.doc = 0 /\ l.cancelled = at[p].cancelled
    BY <1>1 DEF At
  <2> HIDE DEF l
  <2>3. LocalOK(p, l)
    BY <1>1, <2>2 DEF LocalOK, SeedStages, IngestStages, DocStages
  <2>4. Growth(p, l)
    BY <1>1, <2>1, <2>2 DEF Growth, SeedStages, IngestStages, DocStages
  <2>5. QED
    BY <1>1, <1>2, <2>1, <2>2, <2>3, <2>4, CountersOK, MovesTo
<1>5. QED
  BY <1>3, <1>4 DEF Start

LEMMA CountMoves ==
  ASSUME Base, NEW p \in Seeders, Count(p)
  PROVE  Moves(p)
<1>1. /\ p \in Seekers /\ LocalOK(p, at[p]) /\ at[p] \in At /\ at[p].pc = "count" /\ at[p].doc = 0
      /\ p \notin Clients /\ surplus \in Nat
  BY SizesFacts DEF Count, Base, TypeOK, LocalOK, DocStages
<1>2. UNCHANGED <<tables, starts, outages, acked>>
  BY DEF Count
<1>3. CASE /\ documents = {} /\ UNCHANGED mishaps
           /\ at' = [at EXCEPT ![p].pc = "file", ![p].file = 1]
           /\ surplus' = surplus + (IF \E q \in Seeders : Seeding(q) THEN 1 ELSE 0)
  <2> DEFINE l == Begun(at[p])
  <2>1. at' = [at EXCEPT ![p] = l]
    BY <1>3 DEF Begun
  <2>2. LocalOK(p, l) /\ l.doc = 0 /\ l.cancelled = at[p].cancelled
    BY <1>1, BeginOK
  <2> HIDE DEF l
  <2>3. \/ surplus' = surplus + 1
        \/ surplus' = surplus /\ \A q \in Seeders : ~Seeding(q)
    BY <1>1, <1>3
  <2>4. Growth(p, l) /\ surplus' \in Nat
    BY <1>1, <1>3, <2>3 DEF Growth
  <2>5. QED
    BY <1>1, <1>2, <1>3, <2>1, <2>2, <2>4, CountersOK, MovesTo
<1>4. CASE (\E ok \in BOOLEAN : SeedEnds(p, ok)) /\ UNCHANGED surplus /\ (UNCHANGED mishaps \/ Mishap)
  BY <1>1, <1>2, <1>4, SeedEndsRests, RestsMoves
<1>5. QED
  BY <1>3, <1>4 DEF Count

LEMMA NextFileMoves ==
  ASSUME Base, NEW p \in Seeders, NextFile(p)
  PROVE  Moves(p)
<1> DEFINE k == FirstSeedable(at[p].file)
<1>1. /\ p \in Seekers /\ LocalOK(p, at[p]) /\ at[p] \in At /\ at[p].pc = "file" /\ at[p].doc = 0
      /\ p \notin Clients /\ surplus \in Nat
  BY SizesFacts DEF NextFile, Base, TypeOK, LocalOK, DocStages
<1>2. UNCHANGED <<tables, starts, outages, acked, surplus>>
  BY DEF NextFile
<1>3. at[p].file \in 1 .. Len(SeedDir) + 1
  BY <1>1 DEF LocalOK, SeedStages
<1>4. k \in at[p].file .. Len(SeedDir) + 1
  BY <1>3, FirstFile
<1>5. CASE /\ k <= Len(SeedDir) /\ Valid(Parsed(k)) /\ UNCHANGED mishaps
           /\ at' = [at EXCEPT ![p].pc = "create", ![p].file = k, ![p].req = Parsed(k)]
  <2> DEFINE l == [at[p] EXCEPT !.pc = "create", !.file = k, !.req = Parsed(k)]
  <2>1. at' = [at EXCEPT ![p] = l]
    BY <1>5
  <2>2. k \in DOMAIN SeedDir /\ k \in Nat /\ at[p].file <= k
    BY <1>3, <1>4, <1>5, SizesFacts
  <2>3. Parsed(k) \in Request /\ Parsed(k).from = k
    BY <2>2, ParsedOK
  <2> HIDE DEF k
  <2>4. /\ l \in At /\ l.pc = "create" /\ l.doc = 0 /\ l.cancelled = at[p].cancelled /\ l.file = k
        /\ l.req = Parsed(k)
    BY <1>1, <2>2, <2>3 DEF At
  <2> HIDE DEF l
  <2>5. LocalOK(p, l)
    <3>1. k \in 1 .. Len(SeedDir) + 1
      BY <2>2, SizesFacts
    <3>2. QED
      BY <1>1, <1>5, <2>2, <2>3, <2>4, <3>1 DEF LocalOK, SeedStages, IngestStages, DocStages
  <2>6. Growth(p, l)
    BY <1>1, <1>2, <2>2, <2>4 DEF Growth, SeedStages, IngestStages, DocStages
  <2>7. QED
    BY <1>1, <1>2, <1>5, <2>1, <2>4, <2>5, <2>6, CountersOK, MovesTo
<1>6. CASE (\E ok \in BOOLEAN : SeedEnds(p, ok)) /\ (UNCHANGED mishaps \/ Mishap)
  BY <1>1, <1>2, <1>6, SeedEndsRests, RestsMoves
<1>7. QED
  BY <1>5, <1>6 DEF NextFile

\* What a step of the knowledge base is.
LEMMA Deeds ==
  ASSUME Base, Next
  PROVE  \/ \E p \in Seekers : Creates(p) \/ Stores(p) \/ Drops(p) \/ GivesUp(p) \/ Moves(p)
         \/ \E c \in Clients, d \in DOMAIN created : DeleteDocument(c, d)
         \/ \E p \in Seeders : Crash(p)
<1>1. CASE \E p \in Seeders : SeederStep(p)
  BY <1>1, SizesFacts, StartMoves, CountMoves, NextFileMoves DEF SeederStep
<1>2. CASE \E p \in Seekers : IngestStep(p)
  BY <1>2, CreateDeed, EmbedMoves, ReplaceDeed, CompensateDeed, CancelMoves DEF IngestStep
<1>3. CASE \E c \in Clients : ClientStep(c)
  BY <1>3, SizesFacts, UploadMoves DEF ClientStep
<1>4. QED
  BY <1>1, <1>2, <1>3 DEF Next

-----------------------------------------------------------------------------
(* The inductive invariant is kept. *)

\* Rows are only appended, and a process keeps its document or takes a new one.
LEMMA BaseStep ==
  ASSUME Base, NEW p \in Seekers, NEW l, Sets(p, l),
         created' \in Seq(DocumentRow), Len(created') <= MaxDocuments,
         DOMAIN created \subseteq DOMAIN created',
         \A d \in DOMAIN created : created'[d] = created[d],
         documents' \subseteq DOMAIN created', chunked' \subseteq documents',
         acked' \subseteq DOMAIN created',
         starts' \in [Seeders -> Nat], surplus' \in Nat,
         mishaps' \in 0 .. MaxMishaps, outages' \in 0 .. MaxOutages,
         l.doc # 0 => \/ l.doc = at[p].doc /\ l.req = at[p].req
                      \/ /\ l.doc \in DOMAIN created' \ DOMAIN created
                         /\ created'[l.doc].from = l.req.from
  PROVE  Base'
<1>1. /\ at \in [Seekers -> At] /\ l \in At /\ LocalOK(p, l) /\ at' = [at EXCEPT ![p] = l]
      /\ \A q \in Seekers : LocalOK(q, at[q])
  BY DEF Base, TypeOK, Sets, LocalOK
<1>2. at' \in [Seekers -> At] /\ \A q \in Seekers : at'[q] = IF q = p THEN l ELSE at[q]
  BY <1>1
<1>3. \A q \in Seekers : LocalOK(q, at'[q])
  BY <1>1, <1>2
<1>4. \A q \in Seekers : at[q].doc # 0 => /\ at[q].doc \in DOMAIN created
                                          /\ created[at[q].doc].from = at[q].req.from
                                          /\ \A r \in Seekers : at[q].doc = at[r].doc => q = r
  BY DEF Base, TypeOK
<1>5. \A q \in Seekers : at'[q].doc # 0 => /\ at'[q].doc \in DOMAIN created'
                                           /\ created'[at'[q].doc].from = at'[q].req.from
  <2> SUFFICES ASSUME NEW q \in Seekers, at'[q].doc # 0
               PROVE  /\ at'[q].doc \in DOMAIN created'
                      /\ created'[at'[q].doc].from = at'[q].req.from
    OBVIOUS
  <2>1. CASE q # p \/ (l.doc = at[p].doc /\ l.req = at[p].req)
    <3>1. at[q].doc # 0 /\ at'[q].doc = at[q].doc /\ at'[q].req = at[q].req
      BY <1>2, <2>1
    <3>2. at[q].doc \in DOMAIN created /\ created[at[q].doc].from = at[q].req.from
      BY <1>4, <3>1
    <3>3. created'[at[q].doc] = created[at[q].doc]
      BY <3>2
    <3>4. QED
      BY <3>1, <3>2, <3>3
  <2>2. CASE q = p /\ ~(l.doc = at[p].doc /\ l.req = at[p].req)
    BY <1>2, <2>2
  <2>3. QED
    BY <2>1, <2>2
<1>6. \A q, r \in Seekers : at'[q].doc # 0 /\ at'[q].doc = at'[r].doc => q = r
  <2> SUFFICES ASSUME NEW q \in Seekers, NEW r \in Seekers, q # r, at'[q].doc # 0,
                      at'[q].doc = at'[r].doc
               PROVE  FALSE
    OBVIOUS
  <2>1. \A s \in Seekers : s # p /\ l.doc # 0 => at[s].doc # l.doc
    BY <1>4
  <2>2. CASE q # p /\ r # p
    <3>1. at'[q] = at[q] /\ at'[r] = at[r]
      BY <1>2, <2>2
    <3>2. at[q].doc # 0 /\ at[q].doc = at[r].doc
      BY <3>1
    <3>3. QED
      BY <1>4, <3>2
  <2>3. CASE q = p
    <3>1. at'[q] = l /\ at'[r] = at[r]
      BY <1>2, <2>3
    <3>2. QED
      BY <2>1, <2>3, <3>1
  <2>4. CASE r = p
    <3>1. at'[r] = l /\ at'[q] = at[q]
      BY <1>2, <2>4
    <3>2. QED
      BY <2>1, <2>4, <3>1
  <2>5. QED
    BY <2>2, <2>3, <2>4
<1>7. TypeOK'
  BY <1>2, <1>5, <1>6 DEF TypeOK, DocumentRow
<1>8. QED
  BY <1>3, <1>5, <1>7 DEF Base

LEMMA KeptRows ==
  ASSUME Base
  PROVE  /\ created \in Seq(DocumentRow) /\ DOMAIN created = 1 .. Len(created) /\ Len(created) \in Nat
         /\ Len(created) <= MaxDocuments
         /\ documents \subseteq DOMAIN created /\ chunked \subseteq documents
         /\ acked \subseteq DOMAIN created
         /\ mishaps \in 0 .. MaxMishaps /\ at \in [Seekers -> At]
         /\ \A p \in Seekers : LocalOK(p, at[p]) /\ at[p] \in At
BY DEF Base, TypeOK, DocumentRow, LocalOK

\* What is inserted, and where.
LEMMA Inserted ==
  ASSUME Base, NEW p \in Seekers, at[p].pc = "create", Len(created) < MaxDocuments,
         InsertDocument(at[p].req)
  PROVE  /\ created' \in Seq(DocumentRow) /\ Len(created') = Len(created) + 1
         /\ Len(created') <= MaxDocuments
         /\ DOMAIN created' = DOMAIN created \cup {Len(created) + 1}
         /\ Len(created) + 1 \notin DOMAIN created
         /\ \A d \in DOMAIN created : created'[d] = created[d]
         /\ created'[Len(created) + 1].from = at[p].req.from
         /\ documents' = documents \cup {Len(created) + 1} /\ chunked' = chunked
<1> DEFINE row == [from |-> at[p].req.from,
                   source |-> IF at[p].req.source = "" THEN "other" ELSE at[p].req.source]
<1>1. at[p].req \in Request /\ Valid(at[p].req)
  BY KeptRows DEF LocalOK, At, IngestStages
<1>2. row \in DocumentRow
  BY <1>1 DEF Request, DocumentRow, Valid, Sources
<1>3. created' = Append(created, row) /\ created \in Seq(DocumentRow) /\ Len(created) \in Nat
  BY KeptRows DEF InsertDocument
<1> HIDE DEF row
<1>4. /\ created' \in Seq(DocumentRow) /\ Len(created') = Len(created) + 1
      /\ DOMAIN created' = 1 .. Len(created) + 1 /\ DOMAIN created = 1 .. Len(created)
      /\ \A d \in DOMAIN created : created'[d] = created[d]
      /\ created'[Len(created) + 1] = row
  BY <1>2, <1>3
<1>5. DOMAIN created' = DOMAIN created \cup {Len(created) + 1} /\ Len(created) + 1 \notin DOMAIN created
  BY <1>3, <1>4
<1>6. row.from = at[p].req.from
  BY DEF row
<1>7. QED
  <2>1. documents' = documents \cup {Len(created) + 1} /\ chunked' = chunked
    BY DEF InsertDocument
  <2>2. created'[Len(created) + 1].from = at[p].req.from
    BY <1>4, <1>6
  <2>3. Len(created') <= MaxDocuments
    BY <1>3, <1>4
  <2>4. QED
    BY <1>4, <1>5, <2>1, <2>2, <2>3

LEMMA BaseCreates ==
  ASSUME Base, NEW p \in Seekers, Creates(p)
  PROVE  Base'
<1> DEFINE l == [at[p] EXCEPT !.pc = "embed", !.doc = Len(created) + 1]
<1>1. /\ at[p].pc = "create" /\ Len(created) < MaxDocuments /\ InsertDocument(at[p].req)
      /\ UNCHANGED <<acked, outages, starts, surplus>>
  BY DEF Creates
<1>2. PICK m : Sets(p, m) /\ (m.doc = 0 \/ (m.doc = Len(created) + 1 /\ m.req = at[p].req))
  <2>1. CASE Sets(p, l)
    <3>1. at[p] \in At /\ Len(created) + 1 \in Nat
      BY KeptRows
    <3>2. l.doc = Len(created) + 1 /\ l.req = at[p].req
      BY <3>1 DEF At
    <3>3. QED
      BY <2>1, <3>2
  <2>2. CASE Rests(p)
    <3>1. PICK pc \in {"idle", "off", "ready"} : Sets(p, Resting(pc))
      BY <2>2 DEF Rests
    <3>2. Resting(pc).doc = 0
      BY DEF Resting
    <3>3. QED
      BY <3>1, <3>2
  <2>3. QED
    BY <2>1, <2>2 DEF Creates
<1>3. mishaps' \in 0 .. MaxMishaps
  BY KeptRows DEF Creates
<1>4. /\ documents' \subseteq DOMAIN created' /\ chunked' \subseteq documents'
      /\ acked' \subseteq DOMAIN created' /\ DOMAIN created \subseteq DOMAIN created'
  BY <1>1, Inserted, KeptRows
<1>5. m.doc # 0 => /\ m.doc \in DOMAIN created' \ DOMAIN created
                   /\ created'[m.doc].from = m.req.from
  BY <1>1, <1>2, Inserted
<1>6. /\ created' \in Seq(DocumentRow) /\ Len(created') <= MaxDocuments
      /\ \A d \in DOMAIN created : created'[d] = created[d]
  BY <1>1, Inserted
<1>7. QED
  BY <1>1, <1>2, <1>3, <1>4, <1>5, <1>6, CountersOK, BaseStep

\* The other deeds keep the rows as they are.
LEMMA BaseOthers ==
  ASSUME Base, NEW p \in Seekers, Stores(p) \/ Drops(p) \/ GivesUp(p) \/ Moves(p)
  PROVE  Base'
<1>1. PICK m : Sets(p, m) /\ (m.doc = 0 \/ (m.doc = at[p].doc /\ m.req = at[p].req))
  <2>1. CASE Rests(p)
    <3>1. PICK pc \in {"idle", "off", "ready"} : Sets(p, Resting(pc))
      BY <2>1 DEF Rests
    <3>2. Resting(pc).doc = 0
      BY DEF Resting
    <3>3. QED
      BY <3>1, <3>2
  <2>2. CASE at[p].pc = "replace" /\ Sets(p, [at[p] EXCEPT !.pc = "delete"])
    <3> DEFINE l == [at[p] EXCEPT !.pc = "delete"]
    <3>1. l.doc = at[p].doc /\ l.req = at[p].req
      BY <2>2, KeptRows, StageOK DEF DocStages
    <3>2. QED
      BY <2>2, <3>1
  <2>3. CASE Stores(p) /\ ~Sets(p, [at[p] EXCEPT !.pc = "delete"])
    BY <2>3 DEF Stores
  <2>4. CASE Moves(p)
    BY <2>4 DEF Moves
  <2>5. QED
    BY <2>1, <2>2, <2>3, <2>4 DEF Stores, Drops, GivesUp
<1>2. created' = created
  BY DEF Stores, Drops, GivesUp, Moves, DeleteRow, tables
<1>3. documents' \subseteq DOMAIN created' /\ chunked' \subseteq documents' /\ acked' \subseteq DOMAIN created'
  BY KeptRows DEF Stores, Drops, GivesUp, Moves, DeleteRow, tables
<1>4. mishaps' \in 0 .. MaxMishaps
  BY KeptRows DEF Stores, Drops, GivesUp, Moves
<1>5. outages' \in 0 .. MaxOutages /\ starts' \in [Seeders -> Nat] /\ surplus' \in Nat
  BY CountersOK DEF Stores, Drops, GivesUp, Moves
<1>6. QED
  BY <1>1, <1>2, <1>3, <1>4, <1>5, KeptRows, BaseStep

LEMMA BaseDelete ==
  ASSUME Base, NEW c \in Clients, NEW d \in DOMAIN created, DeleteDocument(c, d)
  PROVE  Base'
<1>1. /\ UNCHANGED <<created, at, starts, mishaps, outages, surplus>>
      /\ documents' \subseteq documents /\ acked' \subseteq acked /\ chunked' \subseteq documents'
  BY KeptRows DEF DeleteDocument, DeleteRow, tables
<1>2. TypeOK'
  BY <1>1 DEF Base, TypeOK
<1>3. QED
  BY <1>1, <1>2 DEF Base

\* The processes that die with p, and those of them that had something in hand.
Dying(p) == {p} \cup (IF p = "server" THEN Clients ELSE {})
Cut(p) == {q \in Dying(p) : Ingesting(q) \/ Seeding(q)}

LEMMA CrashDeed ==
  ASSUME Base, NEW p \in Seeders, Crash(p)
  PROVE  /\ Dying(p) \subseteq Seekers /\ IsFiniteSet(Cut(p))
         /\ mishaps' = mishaps + Cardinality(Cut(p)) /\ Cardinality(Cut(p)) \in Nat
         /\ mishaps' \in 0 .. MaxMishaps
         /\ UNCHANGED <<tables, starts, outages, acked, surplus>>
         /\ at' \in [Seekers -> At]
         /\ \A q \in Seekers : LocalOK(q, at'[q])
         /\ \A q \in Seekers : q \notin Dying(p) => at'[q] = at[q]
         /\ \A q \in Dying(p) : at'[q].doc = 0 /\ ~at'[q].cancelled
                                /\ at'[q].pc \in {"idle", "off"}
<1>1. Dying(p) \subseteq Seekers
  BY SizesFacts DEF Dying
<1>2. IsFiniteSet(Cut(p)) /\ Cardinality(Cut(p)) \in Nat
  <2>1. Cut(p) \subseteq Seekers
    BY <1>1 DEF Cut
  <2>2. QED
    BY <2>1, SizesFacts, FS_Subset, FS_CardinalityType
<1>3. /\ mishaps + Cardinality(Cut(p)) <= MaxMishaps
      /\ mishaps' = mishaps + Cardinality(Cut(p))
      /\ at' = [q \in Seekers |-> IF q \notin Dying(p) THEN at[q]
                                  ELSE Resting(IF q \in Clients THEN "idle" ELSE "off")]
      /\ UNCHANGED <<tables, starts, outages, acked, surplus>>
  BY DEF Crash, Dying, Cut
<1>4. \A q \in Seekers : LocalOK(q, at'[q]) /\ at'[q] \in At
  <2> SUFFICES ASSUME NEW q \in Seekers PROVE LocalOK(q, at'[q]) /\ at'[q] \in At
    OBVIOUS
  <2>1. CASE q \notin Dying(p)
    BY <1>3, <2>1, KeptRows
  <2>2. CASE q \in Dying(p)
    <3>1. LocalOK(q, Resting(IF q \in Clients THEN "idle" ELSE "off"))
      BY RestingOK
    <3>2. QED
      BY <1>3, <2>2, <3>1 DEF LocalOK
  <2>3. QED
    BY <2>1, <2>2
<1>5. \A q \in Dying(p) : at'[q].doc = 0 /\ ~at'[q].cancelled /\ at'[q].pc \in {"idle", "off"}
  BY <1>1, <1>3 DEF Resting
<1>6. mishaps' \in 0 .. MaxMishaps /\ at' \in [Seekers -> At]
  BY <1>2, <1>3, <1>4, KeptRows
<1>7. QED
  BY <1>1, <1>2, <1>3, <1>4, <1>5, <1>6

LEMMA BaseCrash ==
  ASSUME Base, NEW p \in Seeders, Crash(p)
  PROVE  Base'
<1>1. \A q \in Seekers : at'[q].doc # 0 => at'[q] = at[q]
  BY CrashDeed
<1>2. UNCHANGED <<created, documents, chunked, starts, outages, acked, surplus>>
  BY CrashDeed DEF tables
<1>3. TypeOK'
  <2>1. \A q, r \in Seekers : at'[q].doc # 0 =>
           at'[q].doc \in DOMAIN created' /\ (at'[q].doc = at'[r].doc => q = r)
    <3>1. \A q, r \in Seekers : at[q].doc # 0 =>
             at[q].doc \in DOMAIN created /\ (at[q].doc = at[r].doc => q = r)
      BY DEF Base, TypeOK
    <3>2. QED
      BY <1>1, <1>2, <3>1
  <2>2. at' \in [Seekers -> At] /\ mishaps' \in 0 .. MaxMishaps
    BY CrashDeed
  <2>3. QED
    BY <1>2, <2>1, <2>2 DEF Base, TypeOK
<1>4. QED
  BY <1>1, <1>2, <1>3, CrashDeed DEF Base

LEMMA BaseInit == Init => Base
<1> SUFFICES ASSUME Init PROVE Base
  OBVIOUS
<1>1. \A p \in Seekers : at[p] = Resting(IF p \in Clients THEN "idle" ELSE "off")
  BY DEF Init
<1>2. \A p \in Seekers : LocalOK(p, at[p]) /\ at[p].doc = 0 /\ at[p] \in At
  BY <1>1, RestingOK DEF Resting, LocalOK
<1>3. created = <<>> /\ Len(created) = 0 /\ created \in Seq(DocumentRow)
  BY DEF Init
<1>4. /\ documents = {} /\ chunked = {} /\ acked = {} /\ mishaps = 0 /\ outages = 0 /\ surplus = 0
      /\ starts = [p \in Seeders |-> 0] /\ at \in [Seekers -> At]
  BY <1>2 DEF Init
<1>5. TypeOK
  BY <1>2, <1>3, <1>4 DEF TypeOK, DocumentRow
<1>6. QED
  BY <1>2, <1>3, <1>5 DEF Base

LEMMA BaseNext == Base /\ [Next]_vars => Base'
<1> SUFFICES ASSUME Base, [Next]_vars PROVE Base'
  OBVIOUS
<1>1. CASE Next
  BY <1>1, Deeds, BaseCreates, BaseOthers, BaseDelete, BaseCrash
<1>2. CASE UNCHANGED vars
  <2>1. UNCHANGED <<created, documents, chunked, at, starts, mishaps, outages, acked, surplus>>
    BY <1>2 DEF vars, tables
  <2>2. TypeOK'
    BY <2>1 DEF Base, TypeOK
  <2>3. QED
    BY <2>1, <2>2 DEF Base
<1>3. QED
  BY <1>1, <1>2

\* Every ingest is where its locals say (service.go, Ingest): chunks belong to rows there
\* are, and no two ingests ever work on the same document.
THEOREM KnowledgeTypeCorrect == Spec => []TypeOK
<1>1. Base => TypeOK
  BY DEF Base
<1>2. QED
  BY <1>1, BaseInit, BaseNext, PTL DEF Spec

\* No ingest ever holds a document that is not the one it created from its file or its
\* request (service.go, Ingest).
THEOREM KnowledgeBaseHolds == Spec => []Base
BY BaseInit, BaseNext, PTL DEF Spec

-----------------------------------------------------------------------------
(* The promise to whoever reads it: KnowledgeIndex. *)

\* What each deed is to the reader: nothing, or one step of the index.
LEMMA IndexStep ==
  ASSUME Base, Next
  PROVE  [Index!Next]_(Index!vars)
<1>1. /\ DOMAIN created \subseteq 1 .. MaxDocuments
      /\ documents \subseteq DOMAIN created /\ chunked \subseteq documents
  BY KeptRows
<1>2. \A d \in DOMAIN created : DeleteRow(d) => [Index!Next]_(Index!vars)
  <2> SUFFICES ASSUME NEW d \in DOMAIN created, DeleteRow(d) PROVE [Index!Next]_(Index!vars)
    OBVIOUS
  <2>1. CASE d \in documents
    <3>1. Index!Remove(d)
      BY <1>1, <2>1 DEF DeleteRow, Index!Remove
    <3>2. QED
      BY <1>1, <3>1 DEF Index!Next
  <2>2. CASE d \notin documents
    <3>1. UNCHANGED <<documents, chunked, DOMAIN created \ documents>>
      BY <1>1, <2>2 DEF DeleteRow
    <3>2. QED
      BY <3>1 DEF Index!vars
  <2>3. QED
    BY <2>1, <2>2
<1>3. ASSUME NEW p \in Seekers, Creates(p) PROVE [Index!Next]_(Index!vars)
  <2> DEFINE d == Len(created) + 1
  <2>1. /\ DOMAIN created' = DOMAIN created \cup {d} /\ d \notin DOMAIN created
        /\ documents' = documents \cup {d} /\ chunked' = chunked
    BY <1>3, Inserted DEF Creates
  <2>2. d \in 1 .. MaxDocuments
    BY <1>3, KeptRows DEF Creates
  <2> HIDE DEF d
  <2>3. Index!Add(d)
    BY <1>1, <2>1 DEF Index!Add
  <2>4. QED
    BY <2>2, <2>3 DEF Index!Next
<1>4. ASSUME NEW p \in Seekers, Stores(p) PROVE [Index!Next]_(Index!vars)
  <2>1. Index!Index(at[p].doc)
    BY <1>4 DEF Stores, Index!Index
  <2>2. at[p].doc \in 1 .. MaxDocuments
    BY <1>1, <1>4 DEF Stores
  <2>3. QED
    BY <2>1, <2>2 DEF Index!Next
<1>5. ASSUME NEW p \in Seekers, Drops(p) PROVE [Index!Next]_(Index!vars)
  <2>1. at[p].doc \in DOMAIN created
    BY <1>5, KeptRows DEF Drops, LocalOK, DocStages, Base, TypeOK
  <2>2. QED
    BY <1>2, <1>5, <2>1 DEF Drops
<1>6. ASSUME NEW p \in Seekers, GivesUp(p) \/ Moves(p) PROVE [Index!Next]_(Index!vars)
  BY <1>6 DEF GivesUp, Moves, tables, Index!vars
<1>7. ASSUME NEW c \in Clients, NEW d \in DOMAIN created, DeleteDocument(c, d)
      PROVE  [Index!Next]_(Index!vars)
  BY <1>2, <1>7 DEF DeleteDocument, tables, Index!vars
<1>8. ASSUME NEW p \in Seeders, Crash(p) PROVE [Index!Next]_(Index!vars)
  BY <1>8, CrashDeed DEF tables, Index!vars
<1>9. QED
  BY <1>3, <1>4, <1>5, <1>6, <1>7, <1>8, Deeds

\* A document is listed first, searchable with all its chunks at once (ReplaceChunks is
\* one transaction, document_repository.go), and never found again once it is deleted.
THEOREM KnowledgeImplementsIndex == Spec => ImplementsIndex
<1>1. Init => Index!Init
  BY DEF Init, Index!Init
<1>2. ASSUME Base, [Next]_vars PROVE [Index!Next]_(Index!vars)
  <2>1. CASE Next
    BY <1>2, <2>1, IndexStep
  <2>2. CASE UNCHANGED vars
    BY <2>2 DEF vars, tables, Index!vars
  <2>3. QED
    BY <1>2, <2>1, <2>2
<1>3. QED
  BY <1>1, <1>2, KnowledgeBaseHolds, PTL DEF Spec, ImplementsIndex, Index!Spec

-----------------------------------------------------------------------------
(* What an ingest confirmed is found. *)

\* The inductive invariant: what was confirmed has its chunks, and nobody works on it.
Confirmed == acked \subseteq chunked /\ \A p \in Seekers : at[p].doc \notin acked

LEMMA ConfirmedNext ==
  ASSUME Base, Confirmed, Next
  PROVE  Confirmed'
<1>1. /\ acked \subseteq DOMAIN created /\ 0 \notin acked /\ at \in [Seekers -> At]
      /\ \A p, q \in Seekers : at[p].doc # 0 /\ at[p].doc = at[q].doc => p = q
  BY KeptRows DEF Base, TypeOK
<1>2. ASSUME NEW p \in Seekers, NEW l, Sets(p, l)
      PROVE  \A q \in Seekers : at'[q] = IF q = p THEN l ELSE at[q]
  BY <1>1, <1>2 DEF Sets
<1>3. ASSUME NEW p \in Seekers, Rests(p)
      PROVE  \A q \in Seekers : at'[q].doc \in {0, at[q].doc}
  <2>1. PICK pc \in {"idle", "off", "ready"} : Sets(p, Resting(pc))
    BY <1>3 DEF Rests
  <2>2. Resting(pc).doc = 0
    BY DEF Resting
  <2>3. QED
    BY <1>2, <2>1, <2>2
<1>4. ASSUME NEW p \in Seekers, Creates(p) PROVE Confirmed'
  <2>1. chunked' = chunked /\ acked' = acked /\ Len(created) + 1 \notin acked
    BY <1>1, <1>4, Inserted DEF Creates
  <2>2. \A q \in Seekers : at'[q].doc \in {0, at[q].doc, Len(created) + 1}
    <3> DEFINE l == [at[p] EXCEPT !.pc = "embed", !.doc = Len(created) + 1]
    <3>1. CASE Sets(p, l)
      <4>1. l.doc = Len(created) + 1
        BY KeptRows DEF At
      <4> HIDE DEF l
      <4>2. QED
        BY <1>2, <3>1, <4>1
    <3>2. QED
      BY <1>3, <1>4, <3>1 DEF Creates
  <2>3. QED
    BY <1>1, <2>1, <2>2 DEF Confirmed
<1>5. ASSUME NEW p \in Seekers, Stores(p) PROVE Confirmed'
  <2>1. CASE Sets(p, [at[p] EXCEPT !.pc = "delete"]) /\ UNCHANGED acked
    <3> DEFINE l == [at[p] EXCEPT !.pc = "delete"]
    <3>1. l.doc = at[p].doc
      BY <1>5, KeptRows, StageOK DEF Stores, DocStages
    <3> HIDE DEF l
    <3>2. \A q \in Seekers : at'[q].doc = at[q].doc
      BY <1>2, <2>1, <3>1 DEF l
    <3>3. QED
      BY <1>5, <2>1, <3>2 DEF Stores, Confirmed
  <2>2. CASE \E l : Sets(p, l) /\ l.doc = 0 /\ acked' = acked \cup {at[p].doc}
    <3>1. \A q \in Seekers : at'[q].doc = IF q = p THEN 0 ELSE at[q].doc
      BY <1>2, <2>2
    <3>2. at[p].doc # 0
      BY <1>5, KeptRows DEF Stores, LocalOK, DocStages
    <3>3. \A q \in Seekers : at'[q].doc \notin acked'
      BY <1>1, <2>2, <3>1, <3>2 DEF Confirmed
    <3>4. QED
      BY <1>5, <2>2, <3>3 DEF Stores, Confirmed
  <2>3. QED
    BY <1>5, <2>1, <2>2 DEF Stores
<1>6. ASSUME NEW p \in Seekers, Drops(p) \/ GivesUp(p) PROVE Confirmed'
  <2>1. \A q \in Seekers : at'[q].doc \in {0, at[q].doc}
    BY <1>3, <1>6 DEF Drops, GivesUp
  <2>2. acked' = acked /\ chunked \ {at[p].doc} \subseteq chunked'
    BY <1>6 DEF Drops, GivesUp, DeleteRow, tables
  <2>3. QED
    BY <1>1, <2>1, <2>2 DEF Confirmed
<1>7. ASSUME NEW p \in Seekers, Moves(p) PROVE Confirmed'
  <2>1. PICK l : Sets(p, l) /\ l.doc = at[p].doc
    BY <1>7 DEF Moves
  <2>2. \A q \in Seekers : at'[q].doc = at[q].doc
    BY <1>2, <2>1
  <2>3. QED
    BY <1>7, <2>2 DEF Moves, tables, Confirmed
<1>8. ASSUME NEW c \in Clients, NEW d \in DOMAIN created, DeleteDocument(c, d) PROVE Confirmed'
  BY <1>8 DEF DeleteDocument, DeleteRow, tables, Confirmed
<1>9. ASSUME NEW p \in Seeders, Crash(p) PROVE Confirmed'
  <2>1. \A q \in Seekers : at'[q].doc \in {0, at[q].doc}
    BY <1>9, CrashDeed
  <2>2. QED
    BY <1>1, <1>9, <2>1, CrashDeed DEF tables, Confirmed
<1>10. QED
  BY <1>4, <1>5, <1>6, <1>7, <1>8, <1>9, Deeds

LEMMA RowTexts ==
  ASSUME Base, NEW d \in DOMAIN created
  PROVE  Score[created[d].from] \in Seq(Int)
<1>1. created \in Seq(DocumentRow) /\ d \in 1 .. Len(created)
  BY KeptRows
<1>2. created[d] \in DocumentRow
  BY <1>1
<1>3. created[d].from \in 0 .. Len(SeedDir)
  BY <1>2 DEF DocumentRow
<1>4. QED
  BY <1>3, ScoreAssumption

LEMMA ImageFinite ==
  ASSUME NEW S, IsFiniteSet(S), NEW f, DOMAIN f = S
  PROVE  IsFiniteSet({f[x] : x \in S})
<1> DEFINE T == {f[x] : x \in S}
           g == [x \in S |-> f[x]]
<1>1. g \in Surjection(S, T)
  BY DEF Surjection
<1> HIDE DEF T, g
<1>2. IsFiniteSet(T)
  BY <1>1, FS_Surjection
<1>3. QED
  BY <1>2 DEF T

\* There are finitely many chunks.
LEMMA StoredFinite ==
  ASSUME Base
  PROVE  IsFiniteSet(Stored)
<1>1. chunked \subseteq DOMAIN created /\ DOMAIN created = 1 .. Len(created) /\ Len(created) \in Nat
  BY KeptRows
<1>2. ASSUME NEW d \in chunked PROVE IsFiniteSet(Chunks(d))
  <2> DEFINE places == DOMAIN Score[created[d].from]
             f == [k \in places |-> <<d, k>>]
  <2>1. Score[created[d].from] \in Seq(Int)
    BY <1>1, RowTexts
  <2>2. IsFiniteSet(places)
    <3> DEFINE n == Len(Score[created[d].from])
    <3>1. n \in Nat /\ places = 1 .. n
      BY <2>1
    <3> HIDE DEF n, places
    <3>2. QED
      BY <3>1, FS_Interval
  <2>3. Chunks(d) = {<<d, k>> : k \in places}
    BY DEF Chunks
  <2>4. {f[k] : k \in places} = {<<d, k>> : k \in places} /\ DOMAIN f = places
    OBVIOUS
  <2> HIDE DEF places, f
  <2>5. IsFiniteSet({f[k] : k \in places})
    BY <2>2, <2>4, ImageFinite
  <2>6. QED
    BY <2>3, <2>4, <2>5
<1>3. IsFiniteSet(chunked)
  <2>1. IsFiniteSet(1 .. Len(created))
    BY <1>1, FS_Interval
  <2>2. QED
    BY <1>1, <2>1, FS_Subset
<1> DEFINE f == [d \in chunked |-> Chunks(d)]
<1>4. {f[d] : d \in chunked} = {Chunks(d) : d \in chunked} /\ DOMAIN f = chunked
  OBVIOUS
<1> HIDE DEF f
<1>5. IsFiniteSet({f[d] : d \in chunked})
  BY <1>3, <1>4, ImageFinite
<1>6. IsFiniteSet({Chunks(d) : d \in chunked}) /\ \A T \in {Chunks(d) : d \in chunked} : IsFiniteSet(T)
  BY <1>2, <1>4, <1>5
<1>7. IsFiniteSet(UNION {Chunks(d) : d \in chunked})
  BY <1>6, FS_UNION
<1>8. QED
  BY <1>7 DEF Stored

\* A row that is not among the nearest is preceded by as many as one may ask for.
LEMMA NearestFull ==
  ASSUME NEW rows, IsFiniteSet(rows), NEW limit, NEW H \in Nearest(rows, limit), NEW c \in rows \ H
  PROVE  Cardinality(H) = limit /\ \A e \in H : ScoreOf(e) >= ScoreOf(c)
<1>1. H \subseteq rows /\ H # rows
  BY DEF Nearest
<1>2. Cardinality(H) # Cardinality(rows)
  BY <1>1, FS_Subset
<1>3. QED
  BY <1>2 DEF Nearest

\* A chunk the index reaches, of a document nothing of which is found, scores too little
\* for the request or no more than all of the nearest, which are of other documents.
LEMMA ConfirmedFound ==
  ASSUME Base, Confirmed
  PROVE  SearchFinds
<1> SUFFICES ASSUME NEW d \in acked, NEW sources \in {{}, RunbookSources, IncidentSources},
                    NEW min \in {0, 2}, sources = {} \/ created[d].source \in sources,
                    NEW c \in Chunks(d), ScoreOf(c) >= (IF min = 0 THEN MinScore ELSE min),
                    NEW missed \in SUBSET (Rows(sources, {}) \ {c}),
                    NEW R \in SearchResults(sources, missed, 0, min),
                    R \cap Chunks(d) = {}
             PROVE  TopK <= Cardinality(Better(d, c, Rows(sources, missed)))
  BY DEF SearchFinds
<1> DEFINE rows == Rows(sources, missed)
           asked == IF min = 0 THEN MinScore ELSE min
<1>1. PICK H \in Nearest(rows, TopK) : R = {e \in H : asked <= 0 \/ ScoreOf(e) >= asked}
  <2>1. (IF 0 <= 0 THEN TopK ELSE 0) = TopK
    OBVIOUS
  <2>2. R \in {{e \in H : asked <= 0 \/ ScoreOf(e) >= asked} :
                    H \in Nearest(rows, IF 0 <= 0 THEN TopK ELSE 0)}
    BY DEF SearchResults
  <2> HIDE DEF rows, asked
  <2>3. QED
    BY <2>1, <2>2
<1>2. c[1] = d /\ c \in Stored
  BY DEF Confirmed, Chunks, Stored
<1>3. c \in rows
  BY <1>2 DEF Rows
<1>4. ScoreOf(c) >= asked
  OBVIOUS
<1>5. c \notin H
  BY <1>1, <1>4
<1>6. rows \subseteq Stored
  BY DEF Rows
<1>7. IsFiniteSet(rows)
  BY <1>6, StoredFinite, FS_Subset
<1>8. H \subseteq rows
  BY DEF Nearest
<1> HIDE DEF rows
<1>9. Cardinality(H) = TopK /\ \A e \in H : ScoreOf(e) >= ScoreOf(c)
  BY <1>3, <1>5, <1>7, NearestFull
<1>10. \A e \in H : e[1] # d
  <2> SUFFICES ASSUME NEW e \in H, e[1] = d PROVE FALSE
    OBVIOUS
  <2>1. PICK q \in chunked : e \in Chunks(q)
    BY <1>6, <1>8 DEF Stored
  <2>2. e \in Chunks(d)
    BY <2>1 DEF Chunks
  <2>3. e \in R
    <3>1. ScoreOf(e) \in Int /\ ScoreOf(c) \in Int /\ asked \in Int
      <4>1. ASSUME NEW x \in Chunks(d) PROVE ScoreOf(x) \in Int
        <5>1. PICK k \in DOMAIN Score[created[d].from] : x = <<d, k>>
          BY <4>1 DEF Chunks
        <5>2. Score[created[d].from] \in Seq(Int)
          BY KeptRows, RowTexts
        <5>3. QED
          BY <5>1, <5>2 DEF ScoreOf
      <4>2. QED
        BY <2>2, <4>1, SettingsAssumption
    <3>2. ScoreOf(e) >= ScoreOf(c)
      BY <1>9
    <3> HIDE DEF asked
    <3>3. ScoreOf(e) >= asked
      BY <1>4, <3>1, <3>2
    <3>4. QED
      BY <1>1, <3>3
  <2>4. QED
    BY <2>2, <2>3
<1>11. H \subseteq Better(d, c, rows)
  BY <1>8, <1>9, <1>10 DEF Better
<1>12. IsFiniteSet(Better(d, c, rows))
  <2>1. Better(d, c, rows) \subseteq rows
    BY DEF Better
  <2>2. QED
    BY <1>7, <2>1, FS_Subset
<1>13. Cardinality(H) <= Cardinality(Better(d, c, rows))
  BY <1>11, <1>12, FS_Subset
<1>14. Cardinality(Better(d, c, rows)) \in Nat /\ TopK \in Nat
  BY <1>12, FS_CardinalityType, SettingsAssumption
<1>15. QED
  BY <1>9, <1>13, <1>14 DEF rows

\* What an ingest confirmed, and nobody deleted, a search finds by any of its chunks that
\* the index reaches and that scores enough, unless as many chunks of others as it returns
\* score no less (Search and SearchSimilar), whatever the index misses.
THEOREM KnowledgeFound == Spec => []SearchFinds
<1>1. Init => Confirmed
  <2> SUFFICES ASSUME Init PROVE Confirmed
    OBVIOUS
  <2>1. QED
    BY DEF Init, Confirmed
<1>2. Base /\ Confirmed /\ [Next]_vars => Confirmed'
  <2>1. ASSUME Confirmed, UNCHANGED vars PROVE Confirmed'
    BY <2>1 DEF Confirmed, vars, tables
  <2>2. QED
    BY <2>1, ConfirmedNext
<1>3. Base /\ Confirmed => SearchFinds
  BY ConfirmedFound
<1>4. QED
  BY <1>1, <1>2, <1>3, KnowledgeBaseHolds, PTL DEF Spec

-----------------------------------------------------------------------------
(* What a failed ingest leaves behind is paid for by a mishap. *)

LEMMA Smaller ==
  ASSUME NEW T, IsFiniteSet(T), NEW S, S \subseteq T
  PROVE  IsFiniteSet(S) /\ Cardinality(S) <= Cardinality(T) /\ Cardinality(S) \in Nat
         /\ Cardinality(T) \in Nat
BY FS_Subset, FS_CardinalityType

LEMMA OneElementMore ==
  ASSUME NEW T, IsFiniteSet(T), NEW S, NEW x, S \subseteq T \cup {x}
  PROVE  Cardinality(S) <= Cardinality(T) + 1
<1>1. /\ IsFiniteSet(T \cup {x}) /\ Cardinality(T) \in Nat
      /\ Cardinality(T \cup {x}) = IF x \in T THEN Cardinality(T) ELSE Cardinality(T) + 1
  BY FS_AddElement, FS_CardinalityType
<1>2. Cardinality(S) <= Cardinality(T \cup {x}) /\ Cardinality(S) \in Nat
  BY <1>1, Smaller
<1>3. QED
  BY <1>1, <1>2

LEMMA OneElementLess ==
  ASSUME NEW T, IsFiniteSet(T), NEW x \in T, NEW S, S \subseteq T \ {x}
  PROVE  Cardinality(S) + 1 <= Cardinality(T)
<1>1. IsFiniteSet(T \ {x}) /\ Cardinality(T) \in Nat /\ Cardinality(T \ {x}) = Cardinality(T) - 1
  BY FS_RemoveElement, FS_CardinalityType
<1>2. Cardinality(S) <= Cardinality(T \ {x}) /\ Cardinality(S) \in Nat
  BY <1>1, Smaller
<1>3. QED
  BY <1>1, <1>2

LEMMA SomeMore ==
  ASSUME NEW T, IsFiniteSet(T), NEW U, IsFiniteSet(U), NEW S, S \subseteq T \cup U
  PROVE  Cardinality(S) <= Cardinality(T) + Cardinality(U)
<1>1. /\ IsFiniteSet(T \cup U) /\ IsFiniteSet(T \cap U)
      /\ Cardinality(T \cup U) = Cardinality(T) + Cardinality(U) - Cardinality(T \cap U)
  BY FS_Union, FS_Subset
<1>2. /\ Cardinality(T) \in Nat /\ Cardinality(U) \in Nat /\ Cardinality(T \cap U) \in Nat
      /\ Cardinality(T \cup U) \in Nat
  BY <1>1, FS_CardinalityType
<1>3. Cardinality(S) <= Cardinality(T \cup U) /\ Cardinality(S) \in Nat
  BY <1>1, Smaller
<1>4. QED
  BY <1>1, <1>2, <1>3

\* Processes whose context is cancelled: their next call fails at no further cost.
Hopeless == {p \in Seekers : at[p].cancelled}

\* The inductive invariant: every leftover, and every context that is going to make one,
\* is a mishap.
Debt == Cardinality(Leftover) + Cardinality(Hopeless) <= mishaps

LEMMA FiniteTables ==
  ASSUME Base
  PROVE  IsFiniteSet(documents) /\ IsFiniteSet(Leftover) /\ IsFiniteSet(Hopeless)
         /\ Cardinality(Leftover) \in Nat /\ Cardinality(Hopeless) \in Nat
<1>1. IsFiniteSet(1 .. Len(created)) /\ documents \subseteq 1 .. Len(created)
  <2>1. documents \subseteq 1 .. Len(created) /\ Len(created) \in Nat
    BY KeptRows
  <2>2. QED
    BY <2>1, FS_Interval
<1>2. Leftover \subseteq 1 .. Len(created) /\ Hopeless \subseteq Seekers
  BY <1>1 DEF Leftover, Hopeless
<1>3. QED
  BY <1>1, <1>2, SizesFacts, Smaller

\* What becomes a leftover: a row that is new, or its ingest's last step.
LEMMA LeftoverFrom ==
  ASSUME Base, NEW p \in Seekers, NEW l, Sets(p, l), NEW d \in Leftover'
  PROVE  /\ l.doc # d
         /\ d \in Leftover \/ d \notin documents \/ d \in acked \/ d = at[p].doc
<1>1. \A q \in Seekers : at'[q] = IF q = p THEN l ELSE at[q]
  BY KeptRows DEF Sets
<1>2. d \in documents' /\ \A q \in Seekers : at'[q].doc # d
  BY DEF Leftover
<1>3. QED
  BY <1>1, <1>2 DEF Leftover

LEMMA HopelessFrom ==
  ASSUME Base, NEW p \in Seekers, NEW l, Sets(p, l)
  PROVE  /\ Hopeless' \subseteq Hopeless \cup {p}
         /\ (l.cancelled => at[p].cancelled) => Hopeless' \subseteq Hopeless
         /\ ~l.cancelled => Hopeless' \subseteq Hopeless \ {p}
<1>1. \A q \in Seekers : at'[q] = IF q = p THEN l ELSE at[q]
  BY KeptRows DEF Sets
<1>2. QED
  BY <1>1 DEF Hopeless

LEMMA RestsGives ==
  ASSUME NEW p, Rests(p)
  PROVE  \E l : Sets(p, l) /\ l.doc = 0 /\ ~l.cancelled
<1>1. PICK pc \in {"idle", "off", "ready"} : Sets(p, Resting(pc))
  BY DEF Rests
<1>2. Resting(pc).doc = 0 /\ ~Resting(pc).cancelled
  BY DEF Resting
<1>3. QED
  BY <1>1, <1>2

\* The ways a step can change the two sides of the account.
LEMMA DebtPaid ==
  ASSUME Base, Base', Debt,
         \/ /\ Leftover' \subseteq Leftover /\ Hopeless' \subseteq Hopeless
            /\ mishaps' >= mishaps
         \/ /\ \E d : Leftover' \subseteq Leftover \cup {d}
            /\ Hopeless' \subseteq Hopeless /\ mishaps' = mishaps + 1
         \/ /\ Leftover' \subseteq Leftover
            /\ \E q : Hopeless' \subseteq Hopeless \cup {q}
            /\ mishaps' = mishaps + 1
         \/ /\ \E d : Leftover' \subseteq Leftover \cup {d}
            /\ \E q \in Hopeless : Hopeless' \subseteq Hopeless \ {q}
            /\ mishaps' = mishaps
  PROVE  Debt'
<1>1. /\ IsFiniteSet(Leftover) /\ IsFiniteSet(Hopeless)
      /\ Cardinality(Leftover) \in Nat /\ Cardinality(Hopeless) \in Nat
  BY FiniteTables
<1>2. Cardinality(Leftover') \in Nat /\ Cardinality(Hopeless') \in Nat
  <2>1. Leftover' \subseteq 1 .. Len(created') /\ Len(created') \in Nat /\ Hopeless' \subseteq Seekers
    BY DEF Base, TypeOK, Leftover, Hopeless
  <2>2. IsFiniteSet(1 .. Len(created'))
    BY <2>1, FS_Interval
  <2>3. QED
    BY <2>1, <2>2, SizesFacts, Smaller
<1>3. mishaps \in Nat /\ mishaps' \in Nat
  BY DEF Base, TypeOK
<1>4. Leftover' \subseteq Leftover => Cardinality(Leftover') <= Cardinality(Leftover)
  BY <1>1, Smaller
<1>5. Hopeless' \subseteq Hopeless => Cardinality(Hopeless') <= Cardinality(Hopeless)
  BY <1>1, Smaller
<1>6. \A d : Leftover' \subseteq Leftover \cup {d} => Cardinality(Leftover') <= Cardinality(Leftover) + 1
  BY <1>1, OneElementMore
<1>7. \A q : Hopeless' \subseteq Hopeless \cup {q} => Cardinality(Hopeless') <= Cardinality(Hopeless) + 1
  BY <1>1, OneElementMore
<1>8. \A q \in Hopeless : Hopeless' \subseteq Hopeless \ {q}
                          => Cardinality(Hopeless') + 1 <= Cardinality(Hopeless)
  BY <1>1, OneElementLess
<1>9. Cardinality(Leftover) + Cardinality(Hopeless) <= mishaps
  BY DEF Debt
<1> DEFINE a == Cardinality(Leftover)
           b == Cardinality(Hopeless)
           a1 == Cardinality(Leftover')
           b1 == Cardinality(Hopeless')
<1>10. \/ a1 <= a /\ b1 <= b /\ mishaps' >= mishaps
       \/ a1 <= a + 1 /\ b1 <= b /\ mishaps' = mishaps + 1
       \/ a1 <= a /\ b1 <= b + 1 /\ mishaps' = mishaps + 1
       \/ a1 <= a + 1 /\ b1 + 1 <= b /\ mishaps' = mishaps
  BY <1>4, <1>5, <1>6, <1>7, <1>8
<1>11. a1 + b1 <= mishaps'
  <2> HIDE DEF a, b, a1, b1
  <2>1. a \in Nat /\ b \in Nat /\ a1 \in Nat /\ b1 \in Nat /\ a + b <= mishaps
    BY <1>1, <1>2, <1>9 DEF a, b, a1, b1
  <2>2. QED
    BY <1>3, <1>10, <2>1
<1>12. QED
  BY <1>11 DEF Debt

LEMMA DebtNext ==
  ASSUME Base, Base', Debt, Next
  PROVE  Debt'
<1>1. /\ \A q, r \in Seekers : at[q].doc # 0 /\ at[q].doc = at[r].doc => q = r
      /\ mishaps \in Nat /\ at \in [Seekers -> At]
  BY DEF Base, TypeOK
<1>2. ASSUME NEW p \in Seekers, Creates(p) PROVE Debt'
  <2> DEFINE n == Len(created) + 1
             l == [at[p] EXCEPT !.pc = "embed", !.doc = n]
  <2>1. documents' = documents \cup {n} /\ acked' = acked /\ at[p].doc = 0
    BY <1>2, Inserted, KeptRows DEF Creates, LocalOK, DocStages
  <2>2. \A d \in Leftover' : d \in documents' /\ d \notin acked' /\ d # 0
    BY KeptRows DEF Leftover, Base, TypeOK
  <2>3. CASE Sets(p, l) /\ UNCHANGED mishaps
    <3>1. l.doc = n /\ l.cancelled = at[p].cancelled
      <4>1. at[p] \in At /\ n \in Nat
        BY KeptRows
      <4>2. QED
        BY <4>1 DEF At
    <3> HIDE DEF l
    <3>2. Leftover' \subseteq Leftover
      BY <2>1, <2>2, <2>3, <3>1, LeftoverFrom
    <3>3. Hopeless' \subseteq Hopeless
      BY <2>3, <3>1, HopelessFrom
    <3>4. QED
      BY <1>1, <2>3, <3>2, <3>3, DebtPaid
  <2>4. CASE Rests(p) /\ mishaps' = mishaps + 1
    <3>1. PICK m : Sets(p, m) /\ m.doc = 0 /\ ~m.cancelled
      BY <2>4, RestsGives
    <3>2. Leftover' \subseteq Leftover \cup {n}
      BY <2>1, <2>2, <3>1, LeftoverFrom
    <3>3. Hopeless' \subseteq Hopeless
      BY <3>1, HopelessFrom
    <3>4. QED
      BY <2>4, <3>2, <3>3, DebtPaid
  <2>5. QED
    BY <1>2, <2>3, <2>4 DEF Creates
<1>3. ASSUME NEW p \in Seekers, Stores(p) PROVE Debt'
  <2>1. documents' = documents
    BY <1>3 DEF Stores
  <2>2. \A d \in Leftover' : d \in documents' /\ d \notin acked'
    BY DEF Leftover
  <2>3. CASE Sets(p, [at[p] EXCEPT !.pc = "delete"]) /\ UNCHANGED acked /\ mishaps' = mishaps + 1
    <3> DEFINE l == [at[p] EXCEPT !.pc = "delete"]
    <3>1. l.doc = at[p].doc /\ l.cancelled = at[p].cancelled
      BY <1>3, KeptRows, StageOK DEF Stores, DocStages
    <3>2. Sets(p, l)
      BY <2>3
    <3> HIDE DEF l
    <3>3. Leftover' \subseteq Leftover
      BY <2>1, <2>2, <2>3, <3>1, <3>2, LeftoverFrom
    <3>4. Hopeless' \subseteq Hopeless
      BY <3>1, <3>2, HopelessFrom
    <3>5. QED
      BY <1>1, <2>3, <3>3, <3>4, DebtPaid
  <2>4. CASE /\ \E l : Sets(p, l) /\ (l.cancelled => at[p].cancelled)
             /\ acked' = acked \cup {at[p].doc} /\ UNCHANGED mishaps
    <3>1. PICK m : Sets(p, m) /\ (m.cancelled => at[p].cancelled)
      BY <2>4
    <3>2. Leftover' \subseteq Leftover
      BY <2>1, <2>2, <2>4, <3>1, LeftoverFrom
    <3>3. Hopeless' \subseteq Hopeless
      BY <3>1, HopelessFrom
    <3>4. QED
      BY <1>1, <2>4, <3>2, <3>3, DebtPaid
  <2>5. QED
    BY <1>3, <2>3, <2>4 DEF Stores
<1>4. ASSUME NEW p \in Seekers, Drops(p) \/ GivesUp(p) PROVE Debt'
  <2>1. PICK m : Sets(p, m) /\ m.doc = 0 /\ ~m.cancelled
    BY <1>4, RestsGives DEF Drops, GivesUp
  <2>2. \A d \in Leftover' : d \in documents' /\ d \notin acked'
    BY DEF Leftover
  <2>3. documents' \subseteq documents /\ acked' = acked
    BY <1>4 DEF Drops, GivesUp, DeleteRow, tables
  <2>4. Leftover' \subseteq Leftover \cup {at[p].doc}
    BY <2>1, <2>2, <2>3, LeftoverFrom
  <2>5. Hopeless' \subseteq Hopeless \ {p} /\ Hopeless' \subseteq Hopeless
    BY <2>1, HopelessFrom
  <2>6. CASE Drops(p)
    <3>1. at[p].doc \notin Leftover'
      BY <2>6 DEF Drops, DeleteRow, Leftover
    <3>2. Leftover' \subseteq Leftover /\ mishaps' >= mishaps
      BY <1>1, <2>4, <2>6, <3>1 DEF Drops
    <3>3. QED
      BY <2>5, <3>2, DebtPaid
  <2>7. CASE mishaps' = mishaps + 1
    BY <2>4, <2>5, <2>7, DebtPaid
  <2>8. CASE at[p].cancelled /\ mishaps' = mishaps
    <3>1. p \in Hopeless
      BY <2>8 DEF Hopeless
    <3>2. QED
      BY <2>4, <2>5, <2>8, <3>1, DebtPaid
  <2>9. QED
    BY <1>4, <2>6, <2>7, <2>8 DEF GivesUp
<1>5. ASSUME NEW p \in Seekers, Moves(p) PROVE Debt'
  <2>1. PICK l : /\ Sets(p, l) /\ l.doc = at[p].doc
                 /\ (l.cancelled => at[p].cancelled \/ mishaps' = mishaps + 1)
    BY <1>5 DEF Moves
  <2>2. /\ \A d \in Leftover' : d \in documents' /\ d \notin acked'
        /\ documents' = documents /\ acked' = acked
    BY <1>5 DEF Leftover, Moves, tables
  <2>3. Leftover' \subseteq Leftover
    BY <2>1, <2>2, LeftoverFrom
  <2>4. CASE mishaps' = mishaps + 1
    <3>1. Hopeless' \subseteq Hopeless \cup {p}
      BY <2>1, HopelessFrom
    <3>2. QED
      BY <2>3, <2>4, <3>1, DebtPaid
  <2>5. CASE mishaps' = mishaps
    <3>1. Hopeless' \subseteq Hopeless
      BY <1>1, <2>1, <2>5, HopelessFrom
    <3>2. QED
      BY <1>1, <2>3, <2>5, <3>1, DebtPaid
  <2>6. QED
    BY <1>5, <2>4, <2>5 DEF Moves
<1>6. ASSUME NEW c \in Clients, NEW d \in DOMAIN created, DeleteDocument(c, d) PROVE Debt'
  <2>1. Leftover' \subseteq Leftover /\ Hopeless' = Hopeless /\ mishaps' = mishaps
    BY <1>6 DEF DeleteDocument, DeleteRow, tables, Leftover, Hopeless
  <2>2. QED
    BY <1>1, <2>1, DebtPaid
<1>7. ASSUME NEW p \in Seeders, Crash(p) PROVE Debt'
  <2> DEFINE f == [q \in Cut(p) |-> at[q].doc]
             D == {at[q].doc : q \in Cut(p)}
  <2>1. IsFiniteSet(D) /\ Cardinality(D) <= Cardinality(Cut(p))
    <3>1. f \in Surjection(Cut(p), D)
      BY DEF Surjection
    <3>2. IsFiniteSet(Cut(p))
      BY <1>7, CrashDeed
    <3> HIDE DEF f, D
    <3>3. QED
      BY <3>1, <3>2, FS_Surjection
  <2>2. /\ documents' = documents /\ acked' = acked
        /\ \A q \in Seekers : q \notin Dying(p) => at'[q] = at[q]
        /\ \A q \in Dying(p) : at'[q].doc = 0 /\ ~at'[q].cancelled
    BY <1>7, CrashDeed DEF tables
  <2>3. Leftover' \subseteq Leftover \cup D
    <3> SUFFICES ASSUME NEW d \in Leftover', d \notin Leftover PROVE d \in D
      OBVIOUS
    <3>1. d \in documents /\ d \notin acked /\ d # 0 /\ \A q \in Seekers : at'[q].doc # d
      BY <2>2, KeptRows DEF Leftover
    <3>2. PICK q \in Seekers : at[q].doc = d
      BY <3>1 DEF Leftover
    <3>3. q \in Dying(p)
      BY <2>2, <3>1, <3>2
    <3>4. Ingesting(q)
      BY <3>1, <3>2, KeptRows DEF LocalOK, DocStages, Ingesting
    <3>5. QED
      BY <3>2, <3>3, <3>4 DEF Cut
  <2> HIDE DEF D
  <2>4. Hopeless' \subseteq Hopeless
    BY <2>2 DEF Hopeless
  <2>5. /\ Cardinality(Leftover') <= Cardinality(Leftover) + Cardinality(D)
        /\ Cardinality(Hopeless') <= Cardinality(Hopeless)
        /\ Cardinality(Leftover) \in Nat /\ Cardinality(Hopeless) \in Nat
        /\ Cardinality(Hopeless') \in Nat /\ Cardinality(D) \in Nat
    BY <2>1, <2>3, <2>4, FiniteTables, SomeMore, Smaller
  <2>6. Cardinality(Leftover') \in Nat
    <3>1. IsFiniteSet(Leftover \cup D)
      BY <2>1, FiniteTables, FS_Union
    <3>2. QED
      BY <2>3, <3>1, Smaller
  <2>7. mishaps' = mishaps + Cardinality(Cut(p)) /\ Cardinality(Cut(p)) \in Nat
    BY <1>7, CrashDeed
  <2>8. QED
    BY <1>1, <2>1, <2>5, <2>6, <2>7 DEF Debt
<1>8. QED
  BY <1>2, <1>3, <1>4, <1>5, <1>6, <1>7, Deeds

\* A document nobody was told of is the trace of a mishap, each of one: however often
\* the embedder fails, the delete of Ingest compensates it (service.go:102).
THEOREM KnowledgeLeftovers == Spec => []LeftoversAccounted
<1>1. Init => Debt
  <2> SUFFICES ASSUME Init PROVE Debt
    OBVIOUS
  <2>1. documents = {} /\ mishaps = 0 /\ \A q \in Seekers : ~at[q].cancelled
    BY DEF Init, Resting
  <2>2. Leftover = {} /\ Hopeless = {}
    BY <2>1 DEF Leftover, Hopeless
  <2>3. QED
    BY <2>1, <2>2, FS_EmptySet DEF Debt
<1>2. Base /\ Base' /\ Debt /\ [Next]_vars => Debt'
  <2>1. ASSUME Debt, UNCHANGED vars PROVE Debt'
    BY <2>1 DEF Debt, vars, tables, Leftover, Hopeless
  <2>2. QED
    BY <2>1, DebtNext
<1>3. Base /\ Debt => LeftoversAccounted
  <2> SUFFICES ASSUME Base, Debt PROVE LeftoversAccounted
    OBVIOUS
  <2>1. mishaps \in Nat
    BY DEF Base, TypeOK
  <2>2. QED
    BY <2>1, FiniteTables DEF Debt, LeftoversAccounted
<1>4. QED
  BY <1>1, <1>2, <1>3, KnowledgeBaseHolds, PTL DEF Spec

-----------------------------------------------------------------------------
(* Copies of a seed file. *)

\* A process that has yet to insert the k-th file, if nothing stops it.
Due(l, k) == /\ l.pc \in SeedStages /\ l.file <= k
             /\ l.pc \in DocStages => l.file < k
Heading(k) == {p \in Seeders : Due(at[p], k)}

\* The inductive invariant: the copies there are and those to come.
Owed == \A k \in DOMAIN SeedDir : Cardinality(Copies(k)) + Cardinality(Heading(k)) <= 1 + surplus

LEMMA CopiesSizes ==
  ASSUME Base, NEW k \in DOMAIN SeedDir
  PROVE  /\ IsFiniteSet(Copies(k)) /\ IsFiniteSet(Heading(k))
         /\ Cardinality(Copies(k)) \in Nat /\ Cardinality(Heading(k)) \in Nat
<1>1. Copies(k) \subseteq documents /\ Heading(k) \subseteq Seekers
  BY SizesFacts DEF Copies, Heading
<1>2. QED
  BY <1>1, FiniteTables, SizesFacts, Smaller

LEMMA HeadingFrom ==
  ASSUME Base, NEW p \in Seekers, NEW l, Sets(p, l), NEW k \in DOMAIN SeedDir
  PROVE  /\ Heading(k)' \subseteq Heading(k) \cup {p}
         /\ ~(p \in Seeders /\ Due(l, k)) => Heading(k)' \subseteq Heading(k) \ {p}
         /\ (p \in Seeders /\ Due(l, k) => Due(at[p], k)) => Heading(k)' \subseteq Heading(k)
<1>1. \A q \in Seekers : at'[q] = IF q = p THEN l ELSE at[q]
  BY KeptRows DEF Sets
<1>2. Heading(k)' = {q \in Seeders : Due(at'[q], k)}
  BY DEF Heading, Due
<1>3. \A q \in Seeders : q # p => (q \in Heading(k)' <=> q \in Heading(k))
  BY <1>1, <1>2, SizesFacts DEF Heading
<1>4. p \in Heading(k)' <=> p \in Seeders /\ Due(l, k)
  BY <1>1, <1>2
<1>5. p \in Heading(k) <=> p \in Seeders /\ Due(at[p], k)
  BY DEF Heading
<1>6. Heading(k) \subseteq Seeders /\ Heading(k)' \subseteq Seeders
  BY <1>2 DEF Heading
<1>7. QED
  BY <1>3, <1>4, <1>5, <1>6

LEMMA Balance ==
  ASSUME NEW a \in Nat, NEW b \in Nat, NEW s \in Nat, a + b <= 1 + s,
         NEW a1 \in Nat, NEW b1 \in Nat, NEW s1 \in Nat,
         \/ a1 <= a /\ b1 <= b /\ s1 >= s
         \/ a1 <= a + 1 /\ b1 + 1 <= b /\ s1 = s
         \/ a1 <= a /\ b1 <= b + 1 /\ s1 = s + 1
         \/ a1 = 0 /\ b1 <= 1
  PROVE  a1 + b1 <= 1 + s1
OBVIOUS

LEMMA OwedPaid ==
  ASSUME Base, Base', Owed, NEW k \in DOMAIN SeedDir,
         \/ /\ Copies(k)' \subseteq Copies(k) /\ Heading(k)' \subseteq Heading(k)
            /\ surplus' >= surplus
         \/ /\ \E d : Copies(k)' \subseteq Copies(k) \cup {d}
            /\ \E p \in Heading(k) : Heading(k)' \subseteq Heading(k) \ {p}
            /\ surplus' = surplus
         \/ /\ Copies(k)' \subseteq Copies(k)
            /\ \E p : Heading(k)' \subseteq Heading(k) \cup {p}
            /\ surplus' = surplus + 1
         \/ /\ Copies(k)' = {}
            /\ \E p : Heading(k)' \subseteq {p}
  PROVE  Cardinality(Copies(k)') + Cardinality(Heading(k)') <= 1 + surplus'
<1> DEFINE a == Cardinality(Copies(k))
           b == Cardinality(Heading(k))
           a1 == Cardinality(Copies(k)')
           b1 == Cardinality(Heading(k)')
<1>1. /\ IsFiniteSet(Copies(k)) /\ IsFiniteSet(Heading(k))
      /\ a \in Nat /\ b \in Nat
  BY CopiesSizes
<1>2. a1 \in Nat /\ b1 \in Nat
  <2>1. Copies(k)' \subseteq 1 .. Len(created') /\ Len(created') \in Nat
    <3>1. documents' \subseteq 1 .. Len(created') /\ Len(created') \in Nat
      BY DEF Base, TypeOK
    <3>2. QED
      BY <3>1 DEF Copies
  <2>2. IsFiniteSet(1 .. Len(created'))
    BY <2>1, FS_Interval
  <2>3. Heading(k)' \subseteq Seekers
    BY SizesFacts DEF Heading
  <2>4. QED
    BY <2>1, <2>2, <2>3, SizesFacts, Smaller
<1>3. surplus \in Nat /\ surplus' \in Nat
  BY DEF Base, TypeOK
<1>4. a + b <= 1 + surplus
  BY DEF Owed
<1>5. Copies(k)' \subseteq Copies(k) => a1 <= a
  BY <1>1, Smaller
<1>6. Heading(k)' \subseteq Heading(k) => b1 <= b
  BY <1>1, Smaller
<1>7. \A d : Copies(k)' \subseteq Copies(k) \cup {d} => a1 <= a + 1
  BY <1>1, OneElementMore
<1>8. \A p : Heading(k)' \subseteq Heading(k) \cup {p} => b1 <= b + 1
  BY <1>1, OneElementMore
<1>9. \A p \in Heading(k) : Heading(k)' \subseteq Heading(k) \ {p} => b1 + 1 <= b
  BY <1>1, OneElementLess
<1>10. Copies(k)' = {} => a1 = 0
  BY FS_EmptySet
<1>11. \A p : Heading(k)' \subseteq {p} => b1 <= 1
  <2> TAKE p
  <2>1. IsFiniteSet({p}) /\ Cardinality({p}) = 1
    BY FS_Singleton
  <2>2. QED
    BY <2>1, Smaller
<1>12. \/ a1 <= a /\ b1 <= b /\ surplus' >= surplus
       \/ a1 <= a + 1 /\ b1 + 1 <= b /\ surplus' = surplus
       \/ a1 <= a /\ b1 <= b + 1 /\ surplus' = surplus + 1
       \/ a1 = 0 /\ b1 <= 1
  BY <1>5, <1>6, <1>7, <1>8, <1>9, <1>10, <1>11
<1> HIDE DEF a, b, a1, b1
<1>13. a1 + b1 <= 1 + surplus'
  <2>1. a \in Nat /\ b \in Nat /\ a1 \in Nat /\ b1 \in Nat
    BY <1>1, <1>2
  <2>2. QED
    BY <1>3, <1>4, <1>12, <2>1, Balance
<1>14. QED
  BY <1>13 DEF a1, b1

LEMMA RestsNothing ==
  ASSUME NEW p, Rests(p)
  PROVE  \E l : Sets(p, l) /\ \A k : ~Due(l, k)
<1>1. PICK pc \in {"idle", "off", "ready"} : Sets(p, Resting(pc))
  BY DEF Rests
<1>2. \A k : ~Due(Resting(pc), k)
  BY DEF Resting, Due, SeedStages, IngestStages, DocStages
<1>3. QED
  BY <1>1, <1>2

LEMMA OwedNext ==
  ASSUME Base, Base', Owed, Next
  PROVE  Owed'
<1> SUFFICES ASSUME NEW k \in DOMAIN SeedDir
             PROVE  Cardinality(Copies(k)') + Cardinality(Heading(k)') <= 1 + surplus'
  BY DEF Owed
<1>1. /\ surplus \in Nat /\ k \in Nat /\ k # 0
      /\ \A q \in Seekers : at[q] \in At /\ at[q].file \in Nat
  <2>1. surplus \in Nat
    BY DEF Base, TypeOK
  <2>2. k \in Nat /\ k # 0
    BY SizesFacts
  <2>3. QED
    BY <2>1, <2>2, KeptRows DEF At
<1>2. ASSUME created' = created, documents' \subseteq documents
      PROVE  Copies(k)' \subseteq Copies(k)
  BY <1>2 DEF Copies
<1>3. ASSUME NEW p \in Seekers, Creates(p)
      PROVE  Cardinality(Copies(k)') + Cardinality(Heading(k)') <= 1 + surplus'
  <2> DEFINE n == Len(created) + 1
             m == [at[p] EXCEPT !.pc = "embed", !.doc = n]
  <2>1. /\ documents' = documents \cup {n} /\ n \notin DOMAIN created
        /\ created'[n].from = at[p].req.from /\ \A d \in DOMAIN created : created'[d] = created[d]
        /\ surplus' = surplus /\ at[p].pc = "create"
    BY <1>3, Inserted DEF Creates
  <2>2. documents \subseteq DOMAIN created
    BY KeptRows
  <2> HIDE DEF n
  <2>3. /\ Copies(k)' \subseteq Copies(k) \cup {n}
        /\ at[p].req.from # k => Copies(k)' \subseteq Copies(k)
    BY <2>1, <2>2 DEF Copies
  <2>4. PICK l : /\ Sets(p, l)
                 /\ \/ l.pc \notin SeedStages
                    \/ l.pc = "embed" /\ l.file = at[p].file
    <3>1. CASE Sets(p, m)
      <4>1. m.pc = "embed" /\ m.file = at[p].file
        BY <1>1 DEF At
      <4>2. QED
        BY <3>1, <4>1
    <3>2. CASE Rests(p)
      <4>1. PICK pc \in {"idle", "off", "ready"} : Sets(p, Resting(pc))
        BY <3>2 DEF Rests
      <4>2. Resting(pc).pc \notin SeedStages
        BY DEF Resting, SeedStages, IngestStages, DocStages
      <4>3. QED
        BY <4>1, <4>2
    <3>3. QED
      BY <1>3, <3>1, <3>2 DEF Creates, n
  <2>5. CASE p \in Seeders /\ at[p].file = k
    <3>1. p \in Heading(k) /\ ~Due(l, k)
      BY <1>1, <2>1, <2>4, <2>5 DEF Heading, Due, SeedStages, IngestStages, DocStages
    <3>2. Heading(k)' \subseteq Heading(k) \ {p}
      BY <2>4, <3>1, HeadingFrom
    <3>3. QED
      BY <2>1, <2>3, <3>1, <3>2, OwedPaid
  <2>6. CASE ~(p \in Seeders /\ at[p].file = k)
    <3>1. at[p].req.from # k
      BY <1>1, <2>1, <2>6, KeptRows, SizesFacts DEF LocalOK, IngestStages
    <3>2. Due(l, k) => Due(at[p], k)
      BY <1>1, <2>1, <2>4 DEF Due, SeedStages, IngestStages, DocStages
    <3>3. Heading(k)' \subseteq Heading(k)
      BY <2>4, <3>2, HeadingFrom
    <3>4. QED
      BY <1>1, <2>1, <2>3, <3>1, <3>3, OwedPaid
  <2>7. QED
    BY <2>5, <2>6
<1>4. ASSUME NEW p \in Seekers, Stores(p)
      PROVE  Cardinality(Copies(k)') + Cardinality(Heading(k)') <= 1 + surplus'
  <2>1. created' = created /\ documents' = documents /\ surplus' = surplus /\ at[p].pc = "replace"
    BY <1>4 DEF Stores
  <2>2. PICK l : /\ Sets(p, l)
                 /\ p \in Seeders => \/ l.pc = "file" /\ l.file = at[p].file + 1
                                     \/ l.pc = "delete" /\ l.file = at[p].file
    <3> DEFINE m == [at[p] EXCEPT !.pc = "delete"]
    <3>1. m.pc = "delete" /\ m.file = at[p].file
      BY <1>1 DEF At
    <3>2. QED
      BY <1>4, <3>1 DEF Stores
  <2>3. p \in Seeders /\ Due(l, k) => Due(at[p], k)
    BY <1>1, <2>1, <2>2 DEF Due, SeedStages, IngestStages, DocStages
  <2>4. Heading(k)' \subseteq Heading(k)
    BY <2>2, <2>3, HeadingFrom
  <2>5. QED
    BY <1>1, <1>2, <2>1, <2>4, OwedPaid
<1>5. ASSUME NEW p \in Seekers, Drops(p) \/ GivesUp(p)
      PROVE  Cardinality(Copies(k)') + Cardinality(Heading(k)') <= 1 + surplus'
  <2>1. PICK l : Sets(p, l) /\ ~Due(l, k)
    BY <1>5, RestsNothing DEF Drops, GivesUp
  <2>2. Heading(k)' \subseteq Heading(k)
    BY <2>1, HeadingFrom
  <2>3. created' = created /\ documents' \subseteq documents /\ surplus' = surplus
    BY <1>5 DEF Drops, GivesUp, DeleteRow, tables
  <2>4. QED
    BY <1>1, <1>2, <2>2, <2>3, OwedPaid
<1>6. ASSUME NEW p \in Seekers, Moves(p)
      PROVE  Cardinality(Copies(k)') + Cardinality(Heading(k)') <= 1 + surplus'
  <2>1. PICK l : Sets(p, l) /\ l.doc = at[p].doc /\ Growth(p, l)
    BY <1>6 DEF Moves
  <2>2. created' = created /\ documents' = documents /\ Copies(k)' \subseteq Copies(k)
    BY <1>2, <1>6 DEF Moves, tables
  <2>3. /\ l.pc \in DocStages <=> at[p].pc \in DocStages
        /\ l.file \in Nat
    BY <2>1, KeptRows DEF Sets, LocalOK, At
  <2>4. CASE p \in Seeders /\ l.pc \in SeedStages => at[p].pc \in SeedStages /\ at[p].file <= l.file
    <3>1. p \in Seeders /\ Due(l, k) => Due(at[p], k)
      BY <1>1, <2>3, <2>4 DEF Due
    <3>2. Heading(k)' \subseteq Heading(k) /\ surplus' >= surplus
      BY <2>1, <3>1, HeadingFrom DEF Growth
    <3>3. QED
      BY <2>2, <3>2, OwedPaid
  <2>5. CASE surplus' = surplus + 1
    <3>1. Heading(k)' \subseteq Heading(k) \cup {p}
      BY <2>1, HeadingFrom
    <3>2. QED
      BY <2>2, <2>5, <3>1, OwedPaid
  <2>6. CASE documents = {} /\ \A q \in Seeders : ~Seeding(q)
    <3>1. Heading(k) = {}
      BY <2>6 DEF Heading, Due, Seeding, Ingesting, SeedStages, IngestStages, DocStages
    <3>2. Heading(k)' \subseteq {p}
      BY <2>1, <3>1, HeadingFrom
    <3>3. Copies(k)' = {}
      BY <2>2, <2>6 DEF Copies
    <3>4. QED
      BY <3>2, <3>3, OwedPaid
  <2>7. QED
    BY <2>1, <2>4, <2>5, <2>6 DEF Growth
<1>7. ASSUME NEW c \in Clients, NEW d \in DOMAIN created, DeleteDocument(c, d)
      PROVE  Cardinality(Copies(k)') + Cardinality(Heading(k)') <= 1 + surplus'
  <2>1. created' = created /\ documents' \subseteq documents /\ surplus' = surplus /\ at' = at
    BY <1>7 DEF DeleteDocument, DeleteRow, tables
  <2>2. Heading(k)' = Heading(k)
    BY <2>1 DEF Heading, Due
  <2>3. QED
    BY <1>1, <1>2, <2>1, <2>2, OwedPaid
<1>8. ASSUME NEW p \in Seeders, Crash(p)
      PROVE  Cardinality(Copies(k)') + Cardinality(Heading(k)') <= 1 + surplus'
  <2>1. /\ created' = created /\ documents' = documents /\ surplus' = surplus
        /\ \A q \in Seekers : at'[q] = at[q] \/ at'[q].pc \in {"idle", "off"}
    BY <1>8, CrashDeed DEF tables
  <2>2. Heading(k)' \subseteq Heading(k)
    BY <2>1, SizesFacts DEF Heading, Due, SeedStages, IngestStages, DocStages
  <2>3. QED
    BY <1>1, <1>2, <2>1, <2>2, OwedPaid
<1>9. QED
  BY <1>3, <1>4, <1>5, <1>6, <1>7, <1>8, Deeds

\* A file is in the knowledge base once, and once more at most for each seeding that was
\* forced or began during another (SeedFromDirectory counts before it seeds).
THEOREM KnowledgeCopies == Spec => []CopiesBounded
<1>1. Init => Owed
  <2> SUFFICES ASSUME Init, NEW k \in DOMAIN SeedDir
               PROVE  Cardinality(Copies(k)) + Cardinality(Heading(k)) <= 1 + surplus
    BY DEF Owed
  <2>1. documents = {} /\ surplus = 0 /\ \A q \in Seekers : at[q].pc \in {"idle", "off"}
    BY DEF Init, Resting
  <2>2. Copies(k) = {} /\ Heading(k) = {}
    BY <2>1, SizesFacts DEF Copies, Heading, Due, SeedStages, IngestStages, DocStages
  <2>3. QED
    BY <2>1, <2>2, FS_EmptySet
<1>2. Base /\ Base' /\ Owed /\ [Next]_vars => Owed'
  <2>1. ASSUME Owed, UNCHANGED vars PROVE Owed'
    BY <2>1 DEF Owed, vars, tables, Copies, Heading, Due
  <2>2. QED
    BY <2>1, OwedNext
<1>3. Base /\ Owed => CopiesBounded
  <2> SUFFICES ASSUME Base, Owed, NEW k \in DOMAIN SeedDir
               PROVE  Cardinality(Copies(k)) <= 1 + surplus
    BY DEF CopiesBounded
  <2>1. surplus \in Nat
    BY DEF Base, TypeOK
  <2>2. QED
    BY <2>1, CopiesSizes DEF Owed
<1>4. QED
  BY <1>1, <1>2, <1>3, KnowledgeBaseHolds, PTL DEF Spec

-----------------------------------------------------------------------------
(* The seed directory is served. *)

\* Nothing failed and nothing was deleted so far.
Calm == mishaps = 0 /\ outages = 0 /\ documents = DOMAIN created

\* A file that is to be served: Ingest refuses none before it.
Target(k) == /\ k \in DOMAIN SeedDir /\ Seedable(k)
             /\ \A j \in 1 .. k : Seedable(j) => Valid(Parsed(j))
Done(k) == \E d \in chunked : created[d].from = k

Served == \A c \in Clients : at[c].pc \in IngestStages => Serving
Untroubled == \A p \in Seekers : ~at[p].cancelled /\ at[p].pc # "delete"
PassedDone == \A p \in Seeders : at[p].pc \in SeedStages =>
                 \A k \in 1 .. at[p].file - 1 : Target(k) => Done(k)
AllDone == \A k \in DOMAIN SeedDir : Target(k) => Done(k)
SomeSeeds == \E p \in Seeders : at[p].pc \in SeedStages

\* The inductive invariant: requests in flight have their server; and while nothing went
\* wrong, a seeding has every file before the one it is at, and once there are documents
\* somebody still seeds, or all files are there.
Seeded == /\ Served
          /\ Calm => /\ Untroubled /\ PassedDone
                     /\ Serving \/ documents # {} => SomeSeeds \/ AllDone

LEMMA SeedingStages ==
  ASSUME NEW p \in Seeders
  PROVE  Seeding(p) <=> at[p].pc \in SeedStages
BY DEF Seeding, Ingesting, SeedStages, IngestStages, DocStages

\* Every step of a process but a crash, an upload and a deletion.
OwnStep(p) == \/ p \in Seeders /\ (Start(p) \/ Count(p) \/ NextFile(p))
              \/ IngestStep(p)

LEMMA OwnSets ==
  ASSUME Base, NEW p \in Seekers, OwnStep(p)
  PROVE  at[p].pc \notin {"idle", "ready"} /\ \E l : Sets(p, l)
<1>1. at[p].pc \notin {"idle", "ready"}
  BY DEF OwnStep, IngestStep, Start, Count, NextFile, CreateDocument, Embed, ReplaceChunks,
         Compensate, Cancel
<1>2. Creates(p) \/ Stores(p) \/ Drops(p) \/ GivesUp(p) \/ Moves(p)
  BY StartMoves, CountMoves, NextFileMoves, CreateDeed, EmbedMoves, ReplaceDeed, CompensateDeed,
     CancelMoves DEF OwnStep, IngestStep
<1>3. Rests(p) => \E l : Sets(p, l)
  BY RestsGives
<1>4. QED
  BY <1>1, <1>2, <1>3 DEF Creates, Stores, Drops, GivesUp, Moves

LEMMA ServedNext ==
  ASSUME Base, Served, Next
  PROVE  Served'
<1>1. /\ at \in [Seekers -> At] /\ "server" \in Seekers /\ "server" \notin Clients
      /\ Clients \subseteq Seekers
  BY KeptRows, SizesFacts
<1>2. ASSUME NEW p \in Seekers, OwnStep(p) PROVE Served'
  <2>1. PICK l : Sets(p, l)
    BY <1>2, OwnSets
  <2>2. at[p].pc \notin {"idle", "ready"}
    BY <1>2, OwnSets
  <2>3. \A q \in Seekers : at'[q] = IF q = p THEN l ELSE at[q]
    BY <1>1, <2>1 DEF Sets
  <2>4. p \in Clients => at[p].pc \in IngestStages
    BY <2>2, KeptRows DEF LocalOK
  <2>5. QED
    BY <1>1, <2>2, <2>3, <2>4 DEF Served, Serving
<1>3. ASSUME NEW c \in Clients, NEW r \in Uploads, Upload(c, r) PROVE Served'
  <2>1. Serving /\ \A q \in Seekers : q # c => at'[q] = at[q]
    BY <1>1, <1>3 DEF Upload
  <2>2. QED
    BY <1>1, <2>1 DEF Served, Serving
<1>4. ASSUME NEW c \in Clients, NEW d \in DOMAIN created, DeleteDocument(c, d) PROVE Served'
  BY <1>4 DEF DeleteDocument, Served, Serving
<1>5. ASSUME NEW p \in Seeders, Crash(p) PROVE Served'
  <2>1. /\ \A q \in Seekers : q \notin Dying(p) => at'[q] = at[q]
        /\ \A q \in Dying(p) : at'[q].pc \in {"idle", "off"}
    BY <1>5, CrashDeed
  <2>2. p = "server" => Clients \subseteq Dying(p)
    BY DEF Dying
  <2>3. p # "server" => "server" \notin Dying(p)
    BY DEF Dying
  <2>4. QED
    BY <1>1, <2>1, <2>2, <2>3 DEF Served, Serving, IngestStages, DocStages
<1>6. QED
  BY <1>2, <1>3, <1>4, <1>5, SizesFacts DEF Next, SeederStep, ClientStep, OwnStep

\* No step makes good a failure or a deletion.
LEMMA CalmBefore ==
  ASSUME Base, Next, Calm'
  PROVE  Calm /\ mishaps' = 0 /\ outages' = 0
<1>1. /\ mishaps \in Nat /\ outages \in Nat /\ documents \subseteq DOMAIN created
      /\ at \in [Seekers -> At] /\ mishaps' = 0 /\ outages' = 0 /\ documents' = DOMAIN created'
  BY DEF Base, TypeOK, Calm
<1>2. outages' >= outages
  <2>1. outages' \in {outages, outages + 1}
    <3>1. ASSUME NEW p \in Seeders, SeederStep(p) PROVE outages' \in {outages, outages + 1}
      BY <3>1 DEF SeederStep, Start, Count, NextFile, Crash
    <3>2. ASSUME NEW p \in Seekers, IngestStep(p) PROVE outages' \in {outages, outages + 1}
      BY <3>2 DEF IngestStep, CreateDocument, Embed, EmbedderFails, ReplaceChunks, Compensate, Cancel
    <3>3. ASSUME NEW c \in Clients, ClientStep(c) PROVE outages' \in {outages, outages + 1}
      BY <3>3 DEF ClientStep, Upload, DeleteDocument
    <3>4. QED
      BY <3>1, <3>2, <3>3 DEF Next
  <2>2. QED
    BY <1>1, <2>1
<1>3. ASSUME NEW d \in DOMAIN created, DeleteRow(d) PROVE FALSE
  BY <1>1, <1>3 DEF DeleteRow
<1>4. mishaps' >= mishaps /\ documents = DOMAIN created
  <2>1. ASSUME NEW p \in Seekers, Creates(p) PROVE mishaps' >= mishaps /\ documents = DOMAIN created
    <3>1. /\ documents' = documents \cup {Len(created) + 1} /\ Len(created) + 1 \notin DOMAIN created
          /\ DOMAIN created' = DOMAIN created \cup {Len(created) + 1}
      BY <2>1, Inserted DEF Creates
    <3>2. documents = DOMAIN created
      BY <1>1, <3>1
    <3>3. QED
      BY <1>1, <2>1, <3>2 DEF Creates
  <2>2. ASSUME NEW p \in Seekers, Stores(p) \/ GivesUp(p) \/ Moves(p)
        PROVE  mishaps' >= mishaps /\ documents = DOMAIN created
    BY <1>1, <2>2 DEF Stores, GivesUp, Moves, tables
  <2>3. ASSUME NEW p \in Seekers, Drops(p) PROVE FALSE
    BY <1>3, <2>3 DEF Drops, LocalOK, DocStages, Base, TypeOK
  <2>4. ASSUME NEW c \in Clients, NEW d \in DOMAIN created, DeleteDocument(c, d)
        PROVE  mishaps' >= mishaps /\ documents = DOMAIN created
    BY <1>1, <1>3, <2>4 DEF DeleteDocument, tables
  <2>5. ASSUME NEW p \in Seeders, Crash(p)
        PROVE  mishaps' >= mishaps /\ documents = DOMAIN created
    BY <1>1, <2>5, CrashDeed DEF tables
  <2>6. QED
    BY <2>1, <2>2, <2>3, <2>4, <2>5, Deeds
<1>5. QED
  BY <1>1, <1>2, <1>4 DEF Calm

\* Rows and chunks are only added, while all is calm.
Adds == /\ chunked \subseteq chunked'
        /\ \A d \in DOMAIN created : created'[d] = created[d]

LEMMA DoneKept ==
  ASSUME Base, Adds, NEW k, Done(k)
  PROVE  Done(k)'
<1>1. PICK d \in chunked : created[d].from = k
  BY DEF Done
<1>2. d \in chunked' /\ d \in DOMAIN created
  BY KeptRows DEF Adds
<1>3. created'[d].from = k
  BY <1>1, <1>2 DEF Adds
<1>4. QED
  BY <1>2, <1>3 DEF Done

\* How a step of one process keeps the seeding on its way: the process seeds, or has
\* seen to all files, or did not seed and does not begin to serve what nobody seeded.
LEMMA OnItsWay ==
  ASSUME Base, Seeded, Calm, NEW p \in Seekers, NEW l, Sets(p, l), Adds,
         ~l.cancelled, l.pc # "delete",
         p \in Seeders /\ l.pc \in SeedStages =>
            \A k \in 1 .. l.file - 1 : Target(k) => Done(k)',
         \/ p \in Seeders /\ l.pc \in SeedStages
         \/ \A k \in DOMAIN SeedDir : Target(k) => Done(k)'
         \/ /\ ~(p \in Seeders /\ at[p].pc \in SeedStages)
            /\ Serving' \/ documents' # {} => Serving \/ documents # {}
  PROVE  /\ Untroubled' /\ PassedDone'
         /\ Serving' \/ documents' # {} => SomeSeeds' \/ AllDone'
<1>1. /\ \A q \in Seekers : at'[q] = IF q = p THEN l ELSE at[q]
      /\ Seeders \subseteq Seekers
  BY KeptRows, SizesFacts DEF Sets
<1>2. Untroubled /\ PassedDone /\ (Serving \/ documents # {} => SomeSeeds \/ AllDone)
  BY DEF Seeded
<1>3. Untroubled'
  BY <1>1, <1>2 DEF Untroubled
<1>4. \A k : Done(k) => Done(k)'
  BY DoneKept
<1>5. PassedDone'
  <2> SUFFICES ASSUME NEW q \in Seeders, at'[q].pc \in SeedStages,
                      NEW k \in 1 .. at'[q].file - 1, Target(k)
               PROVE  Done(k)'
    BY DEF PassedDone, Target, Seedable, Valid, Parsed
  <2>1. CASE q = p
    BY <1>1, <2>1
  <2>2. CASE q # p
    BY <1>1, <1>2, <1>4, <2>2 DEF PassedDone
  <2>3. QED
    BY <2>1, <2>2
<1>6. (\A k \in DOMAIN SeedDir : Target(k) => Done(k)') => AllDone'
  BY DEF AllDone
<1>7. Serving' \/ documents' # {} => SomeSeeds' \/ AllDone'
  <2>1. CASE p \in Seeders /\ l.pc \in SeedStages
    BY <1>1, <2>1 DEF SomeSeeds
  <2>2. CASE \A k \in DOMAIN SeedDir : Target(k) => Done(k)'
    BY <1>6, <2>2
  <2>3. CASE /\ ~(p \in Seeders /\ at[p].pc \in SeedStages)
             /\ Serving' \/ documents' # {} => Serving \/ documents # {}
    <3>1. SomeSeeds => SomeSeeds'
      BY <1>1, <2>3 DEF SomeSeeds
    <3>2. AllDone => AllDone'
      BY <1>4, <1>6 DEF AllDone
    <3>3. QED
      BY <1>2, <2>3, <3>1, <3>2
  <2>4. QED
    BY <2>1, <2>2, <2>3
<1>8. QED
  BY <1>3, <1>5, <1>7

LEMMA AddsFacts ==
  ASSUME Base
  PROVE  UNCHANGED tables => Adds
BY DEF Adds, tables

\* While all is calm, each step of a process takes it on its way.
LEMMA CalmOwn ==
  ASSUME Base, Seeded, Calm, NEW p \in Seekers, OwnStep(p), mishaps' = 0, outages' = 0
  PROVE  /\ Untroubled' /\ PassedDone'
         /\ Serving' \/ documents' # {} => SomeSeeds' \/ AllDone'
<1>1. /\ ~at[p].cancelled /\ at[p].pc # "delete" /\ mishaps = 0 /\ outages = 0
      /\ documents = DOMAIN created
      /\ LocalOK(p, at[p]) /\ at[p] \in At /\ at[p].file \in Nat
  BY KeptRows DEF Seeded, Untroubled, Calm, At
<1>2. ~Mishap
  BY <1>1 DEF Mishap
<1>3. ~EmbedderFails(p)
  BY <1>1 DEF EmbedderFails
<1>4. p \in Seeders /\ at[p].pc \in SeedStages =>
         \A k \in 1 .. at[p].file - 1 : Target(k) => Done(k)
  BY <1>1 DEF Seeded, PassedDone
<1>5. \A k : Adds /\ Done(k) => Done(k)'
  BY DoneKept
\* A process that rests after it has seen to every file.
<1>6. ASSUME p \in Seeders, NEW ok \in BOOLEAN, SeedEnds(p, ok), UNCHANGED tables,
             \/ \A k \in DOMAIN SeedDir : Target(k) => Done(k)
             \/ at[p].pc = "count" /\ documents # {}
      PROVE  /\ Untroubled' /\ PassedDone'
             /\ Serving' \/ documents' # {} => SomeSeeds' \/ AllDone'
  <2>1. PICK pc \in {"idle", "off", "ready"} : Sets(p, Resting(pc))
    BY <1>6, SeedEndsRests DEF Rests
  <2> DEFINE l == Resting(pc)
  <2>2. Sets(p, l) /\ ~l.cancelled /\ l.pc # "delete" /\ l.pc \notin SeedStages
    BY <2>1 DEF Resting, SeedStages, IngestStages, DocStages
  <2>3. Adds
    BY <1>6, AddsFacts
  <2> HIDE DEF l
  <2>4. \/ \A k \in DOMAIN SeedDir : Target(k) => Done(k)'
        \/ /\ ~(p \in Seeders /\ at[p].pc \in SeedStages)
           /\ Serving' \/ documents' # {} => Serving \/ documents # {}
    BY <1>5, <1>6, <2>3 DEF SeedStages, IngestStages, DocStages
  <2>5. QED
    BY <1>1, <2>2, <2>3, <2>4, OnItsWay
\* One that begins.
<1>7. ASSUME p \in Seeders, at[p].doc = 0, at' = [at EXCEPT ![p] = Begun(at[p])], UNCHANGED tables
      PROVE  /\ Untroubled' /\ PassedDone'
             /\ Serving' \/ documents' # {} => SomeSeeds' \/ AllDone'
  <2> DEFINE l == Begun(at[p])
  <2>1. LocalOK(p, l) /\ ~l.cancelled /\ l.pc = "file" /\ l.file = 1
    BY <1>1, <1>7, BeginOK
  <2>2. Sets(p, l) /\ Adds
    BY <1>7, <2>1, AddsFacts DEF Sets
  <2> HIDE DEF l
  <2>3. \A k \in 1 .. l.file - 1 : Target(k) => Done(k)'
    BY <2>1
  <2>4. QED
    BY <1>1, <1>7, <2>1, <2>2, <2>3, OnItsWay DEF SeedStages
<1>8. CASE p \in Seeders /\ Start(p)
  <2>1. /\ UNCHANGED tables /\ at[p].pc = "off" /\ at[p].doc = 0
        /\ \/ at' = [at EXCEPT ![p] = Begun(at[p])]
           \/ Goto(p, "count")
    <3>1. at[p].pc = "off" /\ at[p].doc = 0
      BY <1>1, <1>8 DEF Start, LocalOK, DocStages
    <3>2. \/ at' = [at EXCEPT ![p].pc = "file", ![p].file = 1]
          \/ Goto(p, "count")
      BY <1>8 DEF Start
    <3>3. at' = [at EXCEPT ![p].pc = "file", ![p].file = 1] => at' = [at EXCEPT ![p] = Begun(at[p])]
      BY DEF Begun
    <3>4. UNCHANGED tables
      BY <1>8 DEF Start, tables
    <3>5. QED
      BY <3>1, <3>2, <3>3, <3>4
  <2>2. CASE Goto(p, "count")
    <3> DEFINE l == [at[p] EXCEPT !.pc = "count"]
    <3>1. at' = [at EXCEPT ![p] = l] /\ at \in [Seekers -> At]
      BY <2>2, KeptRows DEF Goto
    <3>2. l \in At /\ l.pc = "count" /\ l.doc = 0 /\ ~l.cancelled
      BY <1>1, <2>1 DEF At
    <3> HIDE DEF l
    <3>3. LocalOK(p, l)
      BY <1>1, <1>8, <3>2, SizesFacts DEF LocalOK, SeedStages, IngestStages, DocStages
    <3>4. Sets(p, l) /\ Adds
      BY <2>1, <3>1, <3>3, AddsFacts DEF Sets
    <3>5. /\ ~(p \in Seeders /\ at[p].pc \in SeedStages)
          /\ Serving' \/ documents' # {} => Serving \/ documents # {}
      <4>1. Serving' => Serving
        BY <3>1, <3>2, SizesFacts DEF Serving
      <4>2. QED
        BY <2>1, <4>1 DEF tables, SeedStages, IngestStages, DocStages
    <3>6. QED
      BY <1>1, <3>2, <3>4, <3>5, OnItsWay DEF SeedStages, IngestStages, DocStages
  <2>3. QED
    BY <1>7, <1>8, <2>1, <2>2
<1>9. CASE p \in Seeders /\ Count(p)
  <2>1. UNCHANGED tables /\ at[p].pc = "count" /\ at[p].doc = 0
    BY <1>1, <1>9 DEF Count, LocalOK, DocStages
  <2>2. \/ documents # {} /\ SeedEnds(p, TRUE)
        \/ at' = [at EXCEPT ![p].pc = "file", ![p].file = 1]
    BY <1>1, <1>2, <1>9 DEF Count
  <2>3. at' = [at EXCEPT ![p].pc = "file", ![p].file = 1] => at' = [at EXCEPT ![p] = Begun(at[p])]
    BY DEF Begun
  <2>4. QED
    BY <1>6, <1>7, <1>9, <2>1, <2>2, <2>3
<1>10. CASE p \in Seeders /\ NextFile(p)
  <2> DEFINE k == FirstSeedable(at[p].file)
  <2>1. UNCHANGED tables /\ at[p].pc = "file" /\ at[p].doc = 0
    BY <1>1, <1>10 DEF NextFile, LocalOK, DocStages
  <2>2. \/ k > Len(SeedDir) /\ SeedEnds(p, TRUE)
        \/ /\ k <= Len(SeedDir) /\ Valid(Parsed(k))
           /\ at' = [at EXCEPT ![p].pc = "create", ![p].file = k, ![p].req = Parsed(k)]
        \/ k <= Len(SeedDir) /\ ~Valid(Parsed(k)) /\ SeedEnds(p, FALSE)
    BY <1>2, <1>10 DEF NextFile
  <2>3. /\ at[p].file \in 1 .. Len(SeedDir) + 1 /\ k \in at[p].file .. Len(SeedDir) + 1
        /\ k <= Len(SeedDir) => Seedable(k)
        /\ \A i \in at[p].file .. k - 1 : ~Seedable(i)
    <3>1. at[p].file \in 1 .. Len(SeedDir) + 1
      BY <1>1, <1>10, <2>1 DEF LocalOK, SeedStages
    <3>2. QED
      BY <3>1, FirstFile
  <2> HIDE DEF k
  <2>4. \A i \in 1 .. k - 1 : Target(i) => Done(i)
    <3> SUFFICES ASSUME NEW i \in 1 .. k - 1, Target(i) PROVE Done(i)
      OBVIOUS
    <3>1. CASE i < at[p].file
      <4>1. i \in 1 .. at[p].file - 1
        BY <2>3, <3>1
      <4>2. QED
        BY <1>4, <1>10, <2>1, <4>1 DEF SeedStages
    <3>2. CASE i >= at[p].file
      BY <2>3, <3>2 DEF Target
    <3>3. QED
      BY <2>3, <3>1, <3>2
  <2>5. CASE k > Len(SeedDir) \/ ~Valid(Parsed(k))
    <3>1. \A i \in DOMAIN SeedDir : Target(i) => Done(i)
      <4> SUFFICES ASSUME NEW i \in DOMAIN SeedDir, Target(i) PROVE Done(i)
        OBVIOUS
      <4>1. i \in 1 .. Len(SeedDir) /\ Len(SeedDir) \in Nat
        BY SizesFacts
      <4>2. i >= k => k \in 1 .. i /\ Seedable(k) /\ k <= Len(SeedDir)
        BY <2>3, <4>1
      <4>3. ~(i >= k)
        BY <2>5, <4>1, <4>2 DEF Target
      <4>4. i \in 1 .. k - 1
        BY <2>3, <4>1, <4>3
      <4>5. QED
        BY <2>4, <4>4
    <3>2. k > Len(SeedDir) => ~(k <= Len(SeedDir))
      BY <2>3, SizesFacts
    <3>3. SeedEnds(p, TRUE) \/ SeedEnds(p, FALSE)
      BY <2>2, <2>5, <3>2, Zenon
    <3>4. QED
      BY <1>6, <1>10, <2>1, <3>1, <3>3
  <2>6. CASE k <= Len(SeedDir) /\ Valid(Parsed(k))
    <3> DEFINE l == [at[p] EXCEPT !.pc = "create", !.file = k, !.req = Parsed(k)]
    <3>1. at' = [at EXCEPT ![p] = l]
      <4>1. k > Len(SeedDir) => ~(k <= Len(SeedDir))
        BY <2>3, SizesFacts
      <4>2. at' = [at EXCEPT ![p].pc = "create", ![p].file = k, ![p].req = Parsed(k)]
        BY <2>2, <2>6, <4>1, Zenon
      <4>3. QED
        BY <4>2
    <3>2. k \in DOMAIN SeedDir /\ k \in Nat /\ k \in 1 .. Len(SeedDir) + 1
      BY <2>3, <2>6, SizesFacts
    <3>3. Parsed(k) \in Request /\ Parsed(k).from = k
      BY <3>2, ParsedOK
    <3>4. /\ l \in At /\ l.pc = "create" /\ l.doc = 0 /\ ~l.cancelled /\ l.file = k
          /\ l.req = Parsed(k)
      BY <1>1, <2>1, <3>2, <3>3 DEF At
    <3> HIDE DEF l
    <3>5. LocalOK(p, l)
      BY <1>10, <2>6, <3>2, <3>3, <3>4, SizesFacts DEF LocalOK, SeedStages, IngestStages, DocStages
    <3>6. Sets(p, l) /\ Adds
      BY <2>1, <3>1, <3>5, AddsFacts DEF Sets
    <3>7. \A i \in 1 .. l.file - 1 : Target(i) => Done(i)'
      BY <1>5, <2>4, <3>4, <3>6
    <3>8. QED
      BY <1>1, <1>10, <3>4, <3>6, <3>7, OnItsWay DEF SeedStages, IngestStages
  <2>7. QED
    BY <2>2, <2>5, <2>6
\* The stages of an ingest, of a file or of a request.
<1>11. ASSUME NEW l, Sets(p, l), Adds, ~l.cancelled, l.pc # "delete", at[p].pc \in IngestStages,
              p \in Seeders => /\ l.pc \in SeedStages
                               /\ \/ l.file = at[p].file
                                  \/ /\ l.file = at[p].file + 1
                                     /\ \A k : k = at[p].file => Done(k)'
       PROVE  /\ Untroubled' /\ PassedDone'
              /\ Serving' \/ documents' # {} => SomeSeeds' \/ AllDone'
  <2>1. CASE p \in Seeders
    <3>1. \A k \in 1 .. l.file - 1 : Target(k) => Done(k)'
      <4> SUFFICES ASSUME NEW k \in 1 .. l.file - 1, Target(k) PROVE Done(k)'
        OBVIOUS
      <4>1. k \in 1 .. at[p].file - 1 \/ (k = at[p].file /\ l.file = at[p].file + 1)
        BY <1>1, <1>11, <2>1
      <4>2. CASE k \in 1 .. at[p].file - 1
        <5>1. Done(k)
          BY <1>4, <1>11, <2>1, <4>2 DEF SeedStages
        <5>2. QED
          BY <1>5, <1>11, <5>1
      <4>3. CASE k = at[p].file /\ l.file = at[p].file + 1
        <5>1. l.file # at[p].file
          BY <1>1, <4>3
        <5>2. QED
          BY <1>11, <2>1, <4>3, <5>1
      <4>4. QED
        BY <4>1, <4>2, <4>3
    <3>2. QED
      BY <1>1, <1>11, <2>1, <3>1, OnItsWay
  <2>2. CASE p \in Clients
    <3>1. Serving /\ p \notin Seeders
      BY <1>11, <2>2, SizesFacts DEF Seeded, Served
    <3>2. QED
      BY <1>1, <1>11, <3>1, OnItsWay
  <2>3. QED
    BY <2>1, <2>2, SizesFacts
<1>12. CASE CreateDocument(p)
  <2> DEFINE l == [at[p] EXCEPT !.pc = "embed", !.doc = Len(created) + 1]
  <2>1. Creates(p)
    BY <1>1, <1>12, CreateDeed DEF GivesUp
  <2>2. Sets(p, l) /\ at[p].pc = "create"
    BY <1>1, <2>1 DEF Creates
  <2>3. l.pc = "embed" /\ ~l.cancelled /\ l.file = at[p].file
    BY <1>1 DEF At
  <2>4. Adds
    BY <2>1, Inserted DEF Creates, Adds
  <2> HIDE DEF l
  <2>5. QED
    BY <1>11, <2>2, <2>3, <2>4 DEF SeedStages, IngestStages, DocStages
<1>13. CASE Embed(p)
  <2> DEFINE l == [at[p] EXCEPT !.pc = "replace"]
  <2>1. Goto(p, "replace") /\ UNCHANGED tables /\ at[p].pc = "embed"
    BY <1>3, <1>13 DEF Embed
  <2>2. LocalOK(p, l) /\ l.pc = "replace" /\ ~l.cancelled /\ l.file = at[p].file
    BY <1>1, <2>1, StageOK DEF DocStages
  <2>3. Sets(p, l) /\ Adds
    BY <2>1, <2>2, AddsFacts DEF Goto, Sets
  <2> HIDE DEF l
  <2>4. QED
    BY <1>11, <2>1, <2>2, <2>3 DEF SeedStages, IngestStages, DocStages
<1>14. CASE ReplaceChunks(p)
  <2>1. at[p].pc = "replace" /\ at[p].doc \in DOMAIN created /\ at[p].doc # 0
    BY <1>1, <1>14 DEF ReplaceChunks, LocalOK, DocStages, Base, TypeOK
  <2>2. /\ chunked' = chunked \cup {at[p].doc} /\ UNCHANGED <<created, documents>>
        /\ Succeed(p)
    BY <1>1, <1>2, <1>14, <2>1 DEF ReplaceChunks, Call
  <2>3. PICK l : /\ Sets(p, l) /\ l.doc = 0 /\ (l.cancelled => at[p].cancelled)
                 /\ (p \in Seeders => l.pc = "file" /\ l.file = at[p].file + 1)
    BY <2>1, <2>2, SucceedSets
  <2>4. l.pc # "delete"
    BY <2>3 DEF Sets, LocalOK, DocStages
  <2>5. Adds
    BY <2>2 DEF Adds
  <2>6. p \in Seeders => \A k : k = at[p].file => Done(k)'
    <3>1. p \in Seeders => created[at[p].doc].from = at[p].file
      BY <1>1, <2>1 DEF Base, LocalOK, IngestStages, DocStages
    <3>2. QED
      BY <2>2, <3>1 DEF Done
  <2>7. QED
    BY <1>1, <1>11, <2>1, <2>3, <2>4, <2>5, <2>6 DEF SeedStages, IngestStages, DocStages
<1>15. CASE Compensate(p) \/ Cancel(p)
  BY <1>1, <1>2, <1>15 DEF Compensate, Cancel
<1>16. QED
  BY <1>8, <1>9, <1>10, <1>12, <1>13, <1>14, <1>15 DEF OwnStep, IngestStep

LEMMA SeededNext ==
  ASSUME Base, Seeded, Next
  PROVE  Seeded'
<1>1. Served'
  BY ServedNext DEF Seeded
<1> SUFFICES ASSUME Calm'
             PROVE  /\ Untroubled' /\ PassedDone'
                    /\ Serving' \/ documents' # {} => SomeSeeds' \/ AllDone'
  BY <1>1 DEF Seeded
<1>2. Calm /\ mishaps' = 0 /\ outages' = 0
  BY CalmBefore
<1>3. Untroubled /\ PassedDone /\ (Serving \/ documents # {} => SomeSeeds \/ AllDone)
  BY <1>2 DEF Seeded
<1>4. ASSUME NEW p \in Seekers, OwnStep(p)
      PROVE  /\ Untroubled' /\ PassedDone'
             /\ Serving' \/ documents' # {} => SomeSeeds' \/ AllDone'
  BY <1>2, <1>4, CalmOwn
<1>5. ASSUME NEW c \in Clients, NEW r \in Uploads, Upload(c, r)
      PROVE  /\ Untroubled' /\ PassedDone'
             /\ Serving' \/ documents' # {} => SomeSeeds' \/ AllDone'
  <2> DEFINE l == [at[c] EXCEPT !.pc = "create", !.req = r]
  <2>1. /\ c \in Seekers /\ c \notin Seeders /\ at[c] \in At /\ ~at[c].cancelled /\ at[c].doc = 0
        /\ at[c].pc = "idle" /\ Valid(r) /\ Serving
    BY <1>3, <1>5, KeptRows, SizesFacts DEF Upload, Untroubled, LocalOK, DocStages
  <2>2. /\ l \in At /\ l.pc = "create" /\ l.doc = 0 /\ l.req = r /\ ~l.cancelled /\ r.from = 0
    BY <2>1 DEF At
  <2>3. at' = [at EXCEPT ![c] = l] /\ UNCHANGED tables
    BY <1>5 DEF Upload, tables
  <2> HIDE DEF l
  <2>4. LocalOK(c, l)
    BY <2>1, <2>2 DEF LocalOK, DocStages, IngestStages, SeedStages
  <2>5. Sets(c, l) /\ Adds
    BY <2>3, <2>4, AddsFacts DEF Sets
  <2>6. QED
    BY <1>2, <2>1, <2>2, <2>5, OnItsWay
<1>6. ASSUME UNCHANGED <<tables, at>>
      PROVE  /\ Untroubled' /\ PassedDone'
             /\ Serving' \/ documents' # {} => SomeSeeds' \/ AllDone'
  BY <1>3, <1>6 DEF tables, Untroubled, PassedDone, Serving, SomeSeeds, AllDone, Done, Target,
                    Seedable, Valid, Parsed
<1>7. ASSUME NEW c \in Clients, NEW d \in DOMAIN created, DeleteDocument(c, d)
      PROVE  UNCHANGED <<tables, at>>
  <2>1. documents' = DOMAIN created'
    BY DEF Calm
  <2>2. ~DeleteRow(d)
    BY <1>7, <2>1 DEF DeleteRow
  <2>3. QED
    BY <1>7, <2>2 DEF DeleteDocument
<1>8. ASSUME NEW p \in Seeders, Crash(p)
      PROVE  /\ Untroubled' /\ PassedDone'
             /\ Serving' \/ documents' # {} => SomeSeeds' \/ AllDone'
  <2>1. Cut(p) = {}
    <3>1. Cardinality(Cut(p)) = 0 /\ IsFiniteSet(Cut(p))
      BY <1>2, <1>8, CrashDeed DEF Calm
    <3>2. QED
      BY <3>1, FS_EmptySet
  <2>2. /\ UNCHANGED tables
        /\ \A q \in Seekers : q \notin Dying(p) => at'[q] = at[q]
        /\ \A q \in Dying(p) : ~at'[q].cancelled /\ at'[q].pc \in {"idle", "off"}
    BY <1>8, CrashDeed
  <2>3. \A q \in Dying(p) : q \in Seeders => at[q].pc \notin SeedStages
    BY <2>1, SeedingStages DEF Cut
  <2>4. Untroubled'
    BY <1>3, <2>2 DEF Untroubled
  <2>5. \A q \in Seeders : at'[q].pc \in SeedStages => at'[q] = at[q]
    BY <2>2, SizesFacts DEF SeedStages, IngestStages, DocStages
  <2>6. \A k : Done(k) => Done(k)'
    BY <2>2, AddsFacts, DoneKept
  <2>7. PassedDone'
    BY <1>3, <2>5, <2>6 DEF PassedDone, Target, Seedable, Valid, Parsed
  <2>8. Serving' => Serving
    BY <2>2, SizesFacts DEF Serving
  <2>9. SomeSeeds => SomeSeeds'
    <3> SUFFICES ASSUME NEW q \in Seeders, at[q].pc \in SeedStages PROVE at'[q].pc \in SeedStages
      BY DEF SomeSeeds
    <3>1. q \notin Dying(p)
      BY <2>3
    <3>2. QED
      BY <2>2, <3>1, SizesFacts
  <2>10. AllDone => AllDone'
    BY <2>6 DEF AllDone, Target, Seedable, Valid, Parsed
  <2>11. QED
    BY <1>3, <2>2, <2>4, <2>7, <2>8, <2>9, <2>10 DEF tables
<1>9. QED
  BY <1>4, <1>5, <1>6, <1>7, <1>8, SizesFacts DEF Next, SeederStep, ClientStep, OwnStep

\* A server that serves when nobody seeds has every file of the directory up to the first
\* that Ingest refuses, if nothing failed and nothing was deleted.
THEOREM KnowledgeSeeded == Spec => []SeededAtRest
<1>1. Init => Seeded
  <2> SUFFICES ASSUME Init PROVE Seeded
    OBVIOUS
  <2>1. documents = {} /\ \A q \in Seekers : at[q].pc \in {"idle", "off"} /\ ~at[q].cancelled
    BY DEF Init, Resting
  <2>2. ~Serving
    BY <2>1, SizesFacts DEF Serving
  <2>3. QED
    BY <2>1, <2>2, SizesFacts DEF Seeded, Served, Untroubled, PassedDone, SeedStages, IngestStages,
                                  DocStages
<1>2. Base /\ Seeded /\ [Next]_vars => Seeded'
  <2>1. ASSUME Seeded, UNCHANGED vars PROVE Seeded'
    BY <2>1 DEF vars, tables, Seeded, Served, Calm, Untroubled, PassedDone, Serving, SomeSeeds,
                AllDone, Done, Target, Seedable, Valid, Parsed
  <2>2. QED
    BY <2>1, SeededNext
<1>3. Base /\ Seeded => SeededAtRest
  <2> SUFFICES ASSUME Base, Seeded, Serving, \A p \in Seeders : ~Seeding(p), Calm,
                      NEW k \in DOMAIN SeedDir,
                      \A j \in 1 .. k : Seedable(j) => Valid(Parsed(j)), Seedable(k)
               PROVE  \E d \in chunked : created[d].from = k
    BY DEF SeededAtRest, Calm
  <2>1. ~SomeSeeds
    BY SeedingStages DEF SomeSeeds
  <2>2. AllDone
    BY <2>1 DEF Seeded
  <2>3. QED
    BY <2>2 DEF AllDone, Target, Done
<1>4. QED
  BY <1>1, <1>2, <1>3, KnowledgeBaseHolds, PTL DEF Spec

=============================================================================
