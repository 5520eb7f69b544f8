--------------------------- MODULE KnowledgeBase ---------------------------
(***************************************************************************)
(* The documents agents search (application/rag/service.go): seeded from a *)
(* directory by the API server and the worker when they start and by the   *)
(* command ingest, and uploaded, deleted and searched by clients of the    *)
(* API.  One step is one statement, one transaction or one call of the     *)
(* embedder.                                                               *)
(*                                                                         *)
(*   created     every row that was inserted into documents, in order; the *)
(*               place of a document in it is its id                       *)
(*   documents   the ids in the table documents                            *)
(*   chunked     those with rows in document_chunks                        *)
(*   at[p]       the locals of process p, and where it is                  *)
(*   starts      how often each process was started                        *)
(*   mishaps     database and file calls that failed, contexts that were   *)
(*               cancelled, seedings and ingests a crash cut short         *)
(*   outages     failures of the embedder                                  *)
(*   acked       documents whose ingest succeeded, and nobody deleted them *)
(*   surplus     seedings begun by force or while another one was going on *)
(***************************************************************************)
EXTENDS Integers, Sequences, FiniteSets

CONSTANTS Clients,       \* requests to the API in flight at the same time
          Seeders,       \* processes that seed: of "server", "worker", "ingest"
          Forced,        \* the flag -force of ingest
          SeedDir,       \* the files of the seed directory, in the order of ReadDir
          Uploads,       \* requests to ingest a document
          Score,         \* 1 - distance of the query to each chunk of each text
          TopK, MinScore, \* RAG_TOP_K, RAG_MIN_SCORE
          MaxUploads, MaxStarts, MaxMishaps, MaxOutages, \* bounds
          MaxDocuments,  \* bound: rows ever inserted
          MaxDeletions   \* bound: no client deletes a document when so many are gone

Sources == {"runbook", "incident_postmortem", "playbook", "architecture", "other"}
Prefixes == {"runbook-", "postmortem-", "playbook-", "architecture-", ""}

\* named: the name holds more than the prefix; heading: the first line is a title;
\* body: there is text besides it.
SeedFile == [ext : {".md", ".txt", "directory", "another"}, prefix : Prefixes,
             named : BOOLEAN, heading : BOOLEAN, body : BOOLEAN]

\* from: the place of the file in SeedDir, or 0 for an upload.
Request == [from : 0 .. Len(SeedDir), source : Sources \cup {"", "unknown"},
            titled : BOOLEAN, filled : BOOLEAN]

Seekers == Clients \cup Seeders

ASSUME SeedersAssumption == /\ Seeders \subseteq {"server", "worker", "ingest"}
                            /\ "server" \in Seeders
                            /\ Clients \cap Seeders = {} /\ IsFiniteSet(Clients)
                            /\ Forced \in BOOLEAN
ASSUME TextsAssumption == /\ SeedDir \in Seq(SeedFile)
                          /\ Uploads \subseteq {r \in Request : r.from = 0}
ASSUME ScoreAssumption == Score \in [0 .. Len(SeedDir) -> Seq(Int) \ {<<>>}]
ASSUME SettingsAssumption == TopK \in Nat \ {0} /\ MinScore \in Int
ASSUME BoundsAssumption == /\ MaxStarts \in [Seeders -> Nat] /\ MaxUploads \in Nat /\ MaxDocuments \in Nat
                           /\ MaxDeletions \in Nat
                           /\ MaxMishaps \in Nat /\ MaxOutages \in Nat

VARIABLES created, documents, chunked, at, starts, mishaps, outages, acked, surplus

tables == <<created, documents, chunked>>
vars == <<tables, at, starts, mishaps, outages, acked, surplus>>

NoRequest == [from |-> 0, source |-> "", titled |-> FALSE, filled |-> FALSE]
Resting(pc) == [pc |-> pc, req |-> NoRequest, file |-> 0, doc |-> 0, cancelled |-> FALSE]

Init == /\ created = <<>> /\ documents = {} /\ chunked = {}
        /\ at = [p \in Seekers |-> Resting(IF p \in Clients THEN "idle" ELSE "off")]
        /\ starts = [p \in Seeders |-> 0]
        /\ mishaps = 0 /\ outages = 0
        /\ acked = {} /\ surplus = 0

-----------------------------------------------------------------------------

Goto(p, pc) == at' = [at EXCEPT ![p].pc = pc]
Become(p, pc) == at' = [at EXCEPT ![p] = Resting(pc)]

Ingesting(p) == at[p].pc \in {"create", "embed", "replace", "delete"}
Seeding(p) == p \in Seeders /\ (Ingesting(p) \/ at[p].pc = "file")
Serving == at["server"].pc = "ready"

Mishap == mishaps < MaxMishaps /\ mishaps' = mishaps + 1

\* A database call takes effect and returns; its answer is lost; or it fails without
\* effect, as it does whenever the context is cancelled before it.
Call(p, effect, ok, failed) ==
    \/ ~at[p].cancelled /\ effect /\ ok /\ UNCHANGED mishaps
    \/ ~at[p].cancelled /\ effect /\ failed /\ Mishap
    \/ UNCHANGED tables /\ failed /\ (IF at[p].cancelled THEN UNCHANGED mishaps ELSE Mishap)

-----------------------------------------------------------------------------
(***************************************************************************)
(* SeedFromDirectory, and what its callers make of its result              *)
(***************************************************************************)

\* main of the server exits with an error, that of the worker only logs it.
SeedEnds(p, ok) ==
    Become(p, CASE p = "server" -> IF ok THEN "ready" ELSE "off"
                [] p = "worker" -> "ready"
                [] p = "ingest" -> "off")

Start(p) ==
    /\ at[p].pc = "off"
    /\ starts[p] < MaxStarts[p]
    /\ starts' = [starts EXCEPT ![p] = @ + 1]
    /\ IF p = "ingest" /\ Forced
       THEN /\ at' = [at EXCEPT ![p].pc = "file", ![p].file = 1]
            /\ surplus' = surplus + 1
       ELSE Goto(p, "count") /\ UNCHANGED surplus
    /\ UNCHANGED <<tables, mishaps, outages, acked>>

\* Mutant: what is counted is not compared with zero.
CountUnchecked(p) ==
    /\ at[p].pc = "count"
    /\ at' = [at EXCEPT ![p].pc = "file", ![p].file = 1]
    /\ surplus' = surplus + (IF \E q \in Seeders : Seeding(q) THEN 1 ELSE 0)
    /\ UNCHANGED <<tables, starts, mishaps, outages, acked>>

\* CountDocuments, then ReadDir if there are none.
Count(p) ==
    /\ at[p].pc = "count"
    /\ \/ /\ ~at[p].cancelled
          /\ IF documents # {}
             THEN SeedEnds(p, TRUE) /\ UNCHANGED surplus
             ELSE /\ at' = [at EXCEPT ![p].pc = "file", ![p].file = 1]
                  /\ surplus' = surplus + (IF \E q \in Seeders : Seeding(q) THEN 1 ELSE 0)
          /\ UNCHANGED mishaps
       \/ /\ SeedEnds(p, FALSE) /\ UNCHANGED surplus
          /\ IF at[p].cancelled THEN UNCHANGED mishaps ELSE Mishap
    /\ UNCHANGED <<tables, starts, outages, acked>>

\* parseSeedFile.
SourceOf(prefix) ==
    CASE prefix = "runbook-" -> "runbook"
      [] prefix = "postmortem-" -> "incident_postmortem"
      [] prefix = "playbook-" -> "playbook"
      [] prefix = "architecture-" -> "architecture"
      [] OTHER -> "other"

Parsed(k) == [from |-> k, source |-> SourceOf(SeedDir[k].prefix),
              titled |-> SeedDir[k].heading \/ SeedDir[k].named, filled |-> SeedDir[k].body]

\* What Ingest does not refuse.
Valid(r) == r.titled /\ r.filled /\ r.source # "unknown"

Seedable(k) == SeedDir[k].ext \in {".md", ".txt"}

\* The loop passes over files that are not seeded: the first one, from the k-th on,
\* that is, or the end of the directory.
FirstSeedable(k) == CHOOSE j \in k .. Len(SeedDir) + 1 :
                       /\ j <= Len(SeedDir) => Seedable(j)
                       /\ \A i \in k .. j - 1 : ~Seedable(i)

\* Mutant: the loop is left, not continued, at a file that is not seeded.
NextFileBreaks(p) ==
    LET k == at[p].file
    IN /\ at[p].pc = "file"
       /\ IF k > Len(SeedDir) \/ ~Seedable(k) \/ ~Valid(Parsed(k))
          THEN SeedEnds(p, TRUE)
          ELSE at' = [at EXCEPT ![p].pc = "create", ![p].req = Parsed(k)]
       /\ UNCHANGED <<tables, starts, mishaps, outages, acked, surplus>>

NextFile(p) ==
    LET k == FirstSeedable(at[p].file)
    IN /\ at[p].pc = "file"
       /\ \/ k > Len(SeedDir) /\ SeedEnds(p, TRUE) /\ UNCHANGED mishaps
          \/ /\ k <= Len(SeedDir) /\ Valid(Parsed(k))
             /\ at' = [at EXCEPT ![p].pc = "create", ![p].file = k, ![p].req = Parsed(k)]
             /\ UNCHANGED mishaps
          \/ k <= Len(SeedDir) /\ ~Valid(Parsed(k)) /\ SeedEnds(p, FALSE) /\ UNCHANGED mishaps
          \/ k <= Len(SeedDir) /\ SeedEnds(p, FALSE) /\ Mishap
       /\ UNCHANGED <<tables, starts, outages, acked, surplus>>

-----------------------------------------------------------------------------
(***************************************************************************)
(* Ingest, called by a seeding or for a request                            *)
(***************************************************************************)

Succeed(p) ==
    /\ acked' = acked \cup {at[p].doc}
    /\ IF p \in Clients THEN Become(p, "idle")
       ELSE at' = [at EXCEPT ![p].pc = "file", ![p].file = @ + 1,
                             ![p].req = NoRequest, ![p].doc = 0]

Fail(p) == /\ UNCHANGED acked
           /\ IF p \in Clients THEN Become(p, "idle") ELSE SeedEnds(p, FALSE)

\* POST /documents.  A request that is not valid is refused before anything is done.
Pending == {c \in Clients : at[c].pc = "create"}
Uploaded == {d \in DOMAIN created : created[d].from = 0}

Upload(c, r) ==
    /\ Serving
    /\ at[c].pc = "idle"
    /\ Cardinality(Uploaded) + Cardinality(Pending) < MaxUploads
    /\ Valid(r)
    /\ at' = [at EXCEPT ![c].pc = "create", ![c].req = r]
    /\ UNCHANGED <<tables, starts, mishaps, outages, acked, surplus>>

InsertDocument(r) ==
    /\ created' = Append(created, [from |-> r.from,
                                   source |-> IF r.source = "" THEN "other" ELSE r.source])
    /\ documents' = documents \cup {Len(created) + 1}
    /\ UNCHANGED chunked

\* A document whose insertion is not confirmed is left alone.
CreateDocument(p) ==
    /\ at[p].pc = "create"
    /\ Len(created) < MaxDocuments
    /\ Call(p, InsertDocument(at[p].req),
            /\ at' = [at EXCEPT ![p].pc = "embed", ![p].doc = Len(created) + 1]
            /\ UNCHANGED acked,
            Fail(p))
    /\ UNCHANGED <<starts, outages, surplus>>

\* No answer with one vector for each text: the service failed, or the context was
\* cancelled, which the mock embedder does not look at.
EmbedderFails(p) == \/ at[p].cancelled /\ UNCHANGED outages
                    \/ outages < MaxOutages /\ outages' = outages + 1

\* Mutant: reindex fails, and Ingest returns its error at once.
EmbedAbandons(p) ==
    /\ at[p].pc = "embed"
    /\ \/ Goto(p, "replace") /\ UNCHANGED <<outages, acked>>
       \/ Fail(p) /\ EmbedderFails(p)
    /\ UNCHANGED <<tables, starts, mishaps, surplus>>

Embed(p) ==
    /\ at[p].pc = "embed"
    /\ \/ Goto(p, "replace") /\ UNCHANGED outages
       \/ Goto(p, "delete") /\ EmbedderFails(p)
    /\ UNCHANGED <<tables, starts, mishaps, acked, surplus>>

\* Mutant: the foreign key of document_chunks is not declared.
InsertChunksAnyway(p) ==
    /\ at[p].pc = "replace"
    /\ Call(p, chunked' = chunked \cup {at[p].doc} /\ UNCHANGED <<created, documents>>,
            Succeed(p), Goto(p, "delete") /\ UNCHANGED acked)
    /\ UNCHANGED <<starts, outages, surplus>>

\* One transaction.  The foreign key refuses chunks of a document that was deleted.
ReplaceChunks(p) ==
    /\ at[p].pc = "replace"
    /\ \/ /\ at[p].doc \in documents
          /\ Call(p, chunked' = chunked \cup {at[p].doc} /\ UNCHANGED <<created, documents>>,
                  Succeed(p), Goto(p, "delete") /\ UNCHANGED acked)
       \/ /\ at[p].doc \notin documents
          /\ Goto(p, "delete")
          /\ UNCHANGED <<tables, mishaps, acked>>
    /\ UNCHANGED <<starts, outages, surplus>>

\* Mutant: it does not cascade.
DeleteRowAlone(d) == documents' = documents \ {d} /\ UNCHANGED <<created, chunked>>

\* The foreign key cascades.
DeleteRow(d) == /\ documents' = documents \ {d}
                /\ chunked' = chunked \ {d}
                /\ UNCHANGED created

\* What Ingest does about an error of reindex, on the same context.
Compensate(p) ==
    /\ at[p].pc = "delete"
    /\ Call(p, DeleteRow(at[p].doc), Fail(p), Fail(p))
    /\ UNCHANGED <<starts, outages, surplus>>

\* DELETE /documents/{id}.
DeleteDocument(c, d) ==
    /\ Serving
    /\ at[c].pc = "idle"
    /\ Cardinality(DOMAIN created \ documents) < MaxDeletions
    /\ \/ DeleteRow(d) /\ acked' = acked \ {d}
       \/ UNCHANGED <<tables, acked>>
    /\ UNCHANGED <<at, starts, mishaps, outages, surplus>>

-----------------------------------------------------------------------------
(***************************************************************************)
(* Processes and requests that end before their time                       *)
(***************************************************************************)

\* The client is gone, or the request took too long; the worker is told to stop.
Cancel(p) ==
    /\ p \in Clients \/ p = "worker"
    /\ at[p].pc \notin {"idle", "off", "ready"}
    /\ ~at[p].cancelled
    /\ at' = [at EXCEPT ![p].cancelled = TRUE]
    /\ Mishap
    /\ UNCHANGED <<tables, starts, outages, acked, surplus>>

\* The server dies with the requests it serves.
Crash(p) ==
    LET dying == {p} \cup (IF p = "server" THEN Clients ELSE {})
        cut == Cardinality({q \in dying : Ingesting(q) \/ Seeding(q)})
    IN /\ at[p].pc # "off"
       /\ mishaps + cut <= MaxMishaps
       /\ mishaps' = mishaps + cut
       /\ at' = [q \in Seekers |-> IF q \notin dying THEN at[q]
                                   ELSE Resting(IF q \in Clients THEN "idle" ELSE "off")]
       /\ UNCHANGED <<tables, starts, outages, acked, surplus>>

SeederStep(p) == Start(p) \/ Count(p) \/ NextFile(p) \/ Crash(p)

IngestStep(p) == CreateDocument(p) \/ Embed(p) \/ ReplaceChunks(p) \/ Compensate(p) \/ Cancel(p)

ClientStep(c) == \/ \E r \in Uploads : Upload(c, r)
                 \/ \E d \in DOMAIN created : DeleteDocument(c, d)

Next == \/ \E p \in Seeders : SeederStep(p)
        \/ \E p \in Seekers : IngestStep(p)
        \/ \E c \in Clients : ClientStep(c)

Spec == Init /\ [][Next]_vars

-----------------------------------------------------------------------------
(***************************************************************************)
(* Search: POST /rag/search, search_runbooks, search_previous_incidents.   *)
(* It changes nothing: the possible results of one in the present state.   *)
(***************************************************************************)

Chunks(d) == {<<d, k>> : k \in DOMAIN Score[created[d].from]}
ScoreOf(c) == Score[created[c[1]].from][c[2]]
Stored == UNION {Chunks(d) : d \in chunked}

\* What search_runbooks and search_previous_incidents ask for.
RunbookSources == {"runbook", "playbook"}
IncidentSources == {"incident_postmortem"}

\* What the query of SearchSimilar has to sort and cut: the chunks of these sources, less
\* those the scan of the index does not reach.  The index (hnsw) is an approximate one, and
\* the sources are looked at after it; a plan that does not use it misses nothing.
Rows(sources, missed) ==
    {c \in Stored \ missed : sources = {} \/ created[c[1]].source \in sources}

\* ORDER BY distance LIMIT limit, equals in any order; the limit counts chunks.
Nearest(rows, limit) ==
    {H \in SUBSET rows :
        /\ Cardinality(H) = IF Cardinality(rows) < limit THEN Cardinality(rows) ELSE limit
        /\ \A c \in H, e \in rows \ H : ScoreOf(c) >= ScoreOf(e)}

\* Mutant: a result that scores as much as is asked for is left out.
SearchResultsAbove(sources, missed, limit, min) ==
    LET threshold == IF min = 0 THEN MinScore ELSE min
    IN {{c \in H : threshold <= 0 \/ ScoreOf(c) > threshold} :
            H \in Nearest(Rows(sources, missed), IF limit <= 0 THEN TopK ELSE limit)}

\* What is not asked for is what is configured; the score is applied to the nearest.
SearchResults(sources, missed, limit, min) ==
    LET threshold == IF min = 0 THEN MinScore ELSE min
    IN {{c \in H : threshold <= 0 \/ ScoreOf(c) >= threshold} :
            H \in Nearest(Rows(sources, missed), IF limit <= 0 THEN TopK ELSE limit)}

-----------------------------------------------------------------------------

At == [pc : {"idle", "off", "ready", "count", "file", "create", "embed", "replace", "delete"},
       req : Request, file : Nat, doc : Nat, cancelled : BOOLEAN]

\* A chunk belongs to a document there is; a process that embeds or stores a document
\* has created it, and no two work on the same one.
TypeOK ==
    /\ created \in Seq([from : 0 .. Len(SeedDir), source : Sources])
    /\ documents \subseteq DOMAIN created /\ chunked \subseteq documents
    /\ at \in [Seekers -> At]
    /\ starts \in [Seeders -> Nat]
    /\ mishaps \in 0 .. MaxMishaps /\ outages \in 0 .. MaxOutages
    /\ acked \subseteq DOMAIN created /\ surplus \in Nat
    /\ \A p, q \in Seekers :
          at[p].doc # 0 => at[p].doc \in DOMAIN created /\ (at[p].doc = at[q].doc => p = q)

\* A document nobody was told of, without chunks or with them, remains only where the
\* database failed, a context was cancelled or a process died, once for each: the
\* compensating delete of Ingest leaves nothing behind however often embedding fails.
Leftover == {d \in documents \ acked : \A p \in Seekers : at[p].doc # d}
LeftoversAccounted == Cardinality(Leftover) <= mishaps

\* "Worker sets RAG_SEED_ON_START=false in Compose to avoid duplicate seed races"
\* (rag.md:108): a file is in the knowledge base at most once, but for one more copy
\* for each seeding that was forced, or that began while another had not ended.
Copies(k) == {d \in documents : created[d].from = k}
CopiesBounded == \A k \in DOMAIN SeedDir : Cardinality(Copies(k)) <= 1 + surplus

\* "API seeds RAG_SEED_DIR on start when the table is empty" (rag.md:106): a server
\* that serves when nobody seeds any more, and nothing failed and nothing was deleted,
\* serves every file up to the first that Ingest refuses, also if it began to serve
\* because it counted what another process had begun to seed.
SeededAtRest ==
    (/\ Serving /\ \A p \in Seeders : ~Seeding(p)
     /\ mishaps = 0 /\ outages = 0 /\ documents = DOMAIN created)
    => \A k \in DOMAIN SeedDir :
          (\A j \in 1 .. k : Seedable(j) => Valid(Parsed(j))) /\ Seedable(k)
          => \E d \in chunked : created[d].from = k

\* What an ingest confirmed, and nobody deleted, a search finds: a chunk of it is in
\* every result of a request for its source and at most the score of one the index
\* reaches, unless as many chunks of others as one request returns score no less.  Those
\* may all be of one document, and a document none of whose chunks is reached is missed.
Better(d, c, rows) == {e \in rows : e[1] # d /\ ScoreOf(e) >= ScoreOf(c)}
SearchFinds ==
    \A d \in acked, sources \in {{}, RunbookSources, IncidentSources}, min \in {0, 2} :
        sources = {} \/ created[d].source \in sources =>
            \A c \in Chunks(d) : ScoreOf(c) >= (IF min = 0 THEN MinScore ELSE min) =>
                \A missed \in SUBSET (Rows(sources, {}) \ {c}) :
                    \A R \in SearchResults(sources, missed, 0, min) :
                        \/ R \cap Chunks(d) # {}
                        \/ TopK <= Cardinality(Better(d, c, Rows(sources, missed)))

\* Every document is listed, then searchable as a whole, then gone for good.
Index == INSTANCE KnowledgeIndex WITH Documents <- 1 .. MaxDocuments,
                                      listed <- documents, searchable <- chunked,
                                      removed <- DOMAIN created \ documents
ImplementsIndex == Index!Spec

=============================================================================
