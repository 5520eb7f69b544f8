------------------------------ MODULE Chunker ------------------------------
(***************************************************************************)
(* ChunkText (agent/rag/chunk.go): a document cut into overlapping pieces  *)
(* for embedding.  A text is a sequence of bytes; offsets count from 0, as *)
(* in the code, so the window s[from:to] is text[from + 1] .. text[to].    *)
(*                                                                         *)
(*   text           the content, then the normalized content               *)
(*   size, overlap  as configured, then as ChunkText uses them             *)
(*   start          where the next window begins                           *)
(*   chunks         the pieces s[from:to] appended so far                  *)
(*   pc             normalize, split or done                               *)
(***************************************************************************)
EXTENDS Integers, Sequences, FiniteSets

CONSTANTS Texts,              \* contents
          Sizes, Overlaps,    \* RAG_CHUNK_SIZE and RAG_CHUNK_OVERLAP, as configured
          DefaultChunkSize, DefaultChunkOverlap

\* White space, an end of a sentence, other bytes, and the two of a wide character.
White == {"newline", "space"}
Byte == White \cup {"stop", "letter", "lead", "tail"}

ASSUME TextsAssumption == Texts \subseteq Seq(Byte)
ASSUME SettingsAssumption == Sizes \subseteq Int /\ Overlaps \subseteq Int
ASSUME DefaultsAssumption == /\ DefaultChunkSize \in Nat \ {0}
                             /\ DefaultChunkOverlap \in Nat

VARIABLES text, size, overlap, start, chunks, pc

vars == <<text, size, overlap, start, chunks, pc>>

Piece == [from : Nat, to : Nat]

Init == /\ text \in Texts
        /\ size \in Sizes
        /\ overlap \in Overlaps
        /\ start = 0
        /\ chunks = <<>>
        /\ pc = "normalize"

-----------------------------------------------------------------------------

Greatest(S) == CHOOSE n \in S : \A k \in S : k <= n
Least(S) == CHOOSE n \in S : \A k \in S : n <= k

\* TrimSpace of s[from:to]: where its bytes other than white space begin and end.
Inked(s, from, to) == {k \in from .. to - 1 : s[k + 1] \notin White}
Trimmed(s, from, to) == [from |-> Least(Inked(s, from, to)),
                         to   |-> Greatest(Inked(s, from, to)) + 1]

\* Of a run of white space normalizeWhitespace keeps every newline, and one space
\* if the run begins with it.
Kept(s) == {k \in DOMAIN s : k > 1 /\ s[k] = "space" => s[k - 1] \notin White}

Place(K, j) == CHOOSE k \in K : Cardinality({m \in K : m <= k}) = j
Collapsed(s) == [j \in 1 .. Cardinality(Kept(s)) |-> s[Place(Kept(s), j)]]

Normalized(s) ==
    LET c == Collapsed(s)
        w == Trimmed(c, 0, Len(c))
    IN IF Inked(c, 0, Len(c)) = {} THEN <<>> ELSE SubSeq(c, w.from + 1, w.to)

\* NewService, then ChunkText: what is not configured is the default, and an
\* overlap that does not fit the size becomes a quarter of it.
SizeUsed(sz) == IF sz <= 0 THEN DefaultChunkSize ELSE sz

\* Mutant: the overlap is not compared with the size.
OverlapUsedUnclamped(ov, sz) == IF ov < 0 THEN DefaultChunkOverlap ELSE ov

OverlapUsed(ov, sz) ==
    LET configured == IF ov < 0 THEN DefaultChunkOverlap ELSE ov
    IN IF configured >= sz THEN sz \div 4 ELSE configured

Normalize ==
    /\ pc = "normalize"
    /\ text' = Normalized(text)
    /\ size' = SizeUsed(size)
    /\ overlap' = OverlapUsed(overlap, SizeUsed(size))
    /\ pc' = IF text' = <<>> THEN "done" ELSE "split"
    /\ UNCHANGED <<start, chunks>>

\* Mutant: the comparison with a third of the window is the wrong way round.
FindBreakEarly(s, from, to) ==
    LET early == {i \in 0 .. to - from - 1 : /\ i < (to - from) \div 3
                                            /\ s[from + i + 1] \in {"stop", "space"}}
    IN IF early # {} THEN from + Greatest(early) + 1 ELSE to

\* findBreak: after the last paragraph, else sentence, else word that ends in
\* s[from:to] beyond its first third; else at its end.
FindBreak(s, from, to) ==
    LET late == {i \in 0 .. to - from - 1 : i > (to - from) \div 3}
        paragraphs == {i \in late : /\ i + 1 \in late
                                    /\ s[from + i + 1] = "newline" /\ s[from + i + 2] = "newline"}
        sentences == {i \in late : s[from + i + 1] = "stop"}
        words == {i \in late : s[from + i + 1] = "space"}
    IN IF paragraphs # {} THEN from + Greatest(paragraphs) + 2
       ELSE IF sentences # {} THEN from + Greatest(sentences) + 1
       ELSE IF words # {} THEN from + Greatest(words) + 1
       ELSE to

\* Mutants: without the check that the window moves on; the overlap added.
NextStartUnforced(cut) == cut - overlap
NextStartPast(cut) == cut + overlap

\* Where the window after one that was cut at cut begins.
NextStart(cut) == IF cut - overlap <= start THEN cut ELSE cut - overlap

\* Mutant: the piece is appended as it was cut.
AppendPieceUntrimmed(from, to) ==
    chunks' = IF Inked(text, from, to) = {} THEN chunks
              ELSE Append(chunks, [from |-> from, to |-> to])

AppendPiece(from, to) ==
    chunks' = IF Inked(text, from, to) = {} THEN chunks
              ELSE Append(chunks, Trimmed(text, from, to))

\* A turn of the loop: a window that ends before the text does is cut ...
Split ==
    /\ pc = "split"
    /\ start + size < Len(text)
    /\ LET cut == FindBreak(text, start, start + size)
       IN AppendPiece(start, cut) /\ start' = NextStart(cut)
    /\ UNCHANGED <<text, size, overlap, pc>>

\* ... and the last one, or a text that fits one piece, is appended whole.
SplitLast ==
    /\ pc = "split"
    /\ start + size >= Len(text)
    /\ chunks' = Append(chunks, Trimmed(text, start, Len(text)))
    /\ pc' = "done"
    /\ UNCHANGED <<text, size, overlap, start>>

Next == Normalize \/ Split \/ SplitLast

Spec == Init /\ [][Next]_vars

-----------------------------------------------------------------------------

\* The settings ChunkText works with: an overlap smaller than the window, which
\* begins inside the text, so that s[start:end] and the last piece exist.
TypeOK ==
    /\ text \in Seq(Byte)
    /\ size \in Int /\ overlap \in Int
    /\ start \in Nat
    /\ chunks \in Seq(Piece)
    /\ pc \in {"normalize", "split", "done"}
    /\ pc = "split" => /\ size >= 1
                       /\ overlap \in 0 .. size - 1
                       /\ start < Len(text)

\* Whatever break findBreak takes and however large the overlap, the next window
\* begins later: the loop of ChunkText ends (next <= start is what forces it).
Progress == [][Split => start' > start]_vars

\* No text is lost between two pieces: what lies before the window, and in the end
\* the whole document, is white space or part of a piece that will be embedded.
CoveredTo(end) ==
    \A k \in 1 .. end : text[k] \in White \/ \E i \in DOMAIN chunks :
                                                chunks[i].from < k /\ k <= chunks[i].to
Covered == /\ pc = "split" => CoveredTo(start)
           /\ pc = "done" => CoveredTo(Len(text))

\* Every piece is what the embedder is meant to get: not empty, no longer than the
\* chunk size, and without white space at either end, the last one included, which
\* is appended without the test for an empty piece.
PiecesFit ==
    \A i \in DOMAIN chunks :
        LET p == chunks[i]
        IN /\ p.from < p.to /\ p.to <= Len(text) /\ p.to - p.from <= size
           /\ text[p.from + 1] \notin White /\ text[p.to] \notin White

\* However much the windows overlap, no piece ends before the one it follows: a
\* break that a window takes beyond its first third, the window before, which began
\* earlier, could have taken too.
EndsInOrder ==
    \A i \in DOMAIN chunks : i > 1 => chunks[i - 1].to <= chunks[i].to

\* "DefaultChunkSize is approximate characters per chunk", "characters of overlap
\* between adjacent chunks" (chunk.go:9, :11): a piece is made of whole characters.
WholeCharacters ==
    \A i \in DOMAIN chunks : /\ text[chunks[i].from + 1] # "tail"
                             /\ text[chunks[i].to] # "lead"

=============================================================================
